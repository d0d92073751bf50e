--------------------------- MODULE AppendOnlyLog ---------------------------
(***************************************************************************)
(* What the Nexus ledger promises of the frames whose append returned: one  *)
(* is added at a time, behind those that are there, and stays what it is    *)
(* and where it is.  No step takes an entry away or changes one, a crash    *)
(* included.                                                                *)
(***************************************************************************)
EXTENDS Naturals

VARIABLE log   \* entries: a frame, its place, the two frames it refers to

Init == log = {}

Append(e) == /\ \A d \in log : d.frame # e.frame /\ d.place < e.place
             /\ log' = log \cup {e}

Next == \E e \in log' : Append(e)

Spec == Init /\ [][Next]_log
=============================================================================
