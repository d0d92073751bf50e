---------------------------- MODULE MCDispatcher ----------------------------
(***************************************************************************)
(* Three workers and batches of up to 5 items: fewer items than threads,    *)
(* exact shares and remainders all occur; two batches reuse the contexts,   *)
(* and a second pool reuses the static array.                               *)
(***************************************************************************)
EXTENDS Dispatcher

(* The program may stop calling once it has no pool.                        *)
Finished == client = "no_pool" /\ pools = MaxPools /\ UNCHANGED vars
MCNext == Next \/ Finished
MCSpec == Init /\ [][MCNext]_vars /\ Fairness
=============================================================================
