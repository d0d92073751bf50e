------------------------------ MODULE RxQueue ------------------------------
(***************************************************************************)
(* What the receive ring of the zkernel UART driver promises: a FIFO queue  *)
(* between the interrupt handler and the reading task.  A byte offered to a *)
(* full queue is dropped, every other byte is delivered once, in order.     *)
(***************************************************************************)
EXTENDS Naturals, Sequences

CONSTANTS Byte, Capacity

VARIABLES last,    \* the last byte offered
          queue,   \* accepted, not yet taken
          taken    \* delivered to the task

vars == <<last, queue, taken>>

Init == /\ last = 0
        /\ queue = <<>>
        /\ taken = <<>>

Offer(b) == /\ last' = b
            /\ queue' = IF Len(queue) < Capacity THEN Append(queue, b) ELSE queue
            /\ UNCHANGED taken

Take == /\ queue # <<>>
        /\ taken' = Append(taken, Head(queue))
        /\ queue' = Tail(queue)
        /\ UNCHANGED last

Next == (\E b \in Byte : Offer(b)) \/ Take

Spec == Init /\ [][Next]_vars
=============================================================================
