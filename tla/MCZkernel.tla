----------------------------- MODULE MCZkernel -----------------------------
(***************************************************************************)
(* A ring of 3 (so it holds 2) fed more bytes than it has slots, from a     *)
(* hardware FIFO of 2: indices wrap, the ring overflows, the FIFO overruns. *)
(***************************************************************************)
EXTENDS Zkernel
=============================================================================
