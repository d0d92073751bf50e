-------------------------- MODULE MCNexusLedger --------------------------
(***************************************************************************)
(* Two threads, three frames, one crash: an append before, during and      *)
(* after it; a child whose parent is not durable yet.                       *)
(***************************************************************************)
EXTENDS NexusLedger
=============================================================================
