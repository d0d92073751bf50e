--------------------------- MODULE ZkernelProofs ---------------------------
(***************************************************************************)
(* Proofs about Zkernel for every ring size, every depth of the hardware    *)
(* FIFO and any number of bytes.                                            *)
(***************************************************************************)
EXTENDS Zkernel, SequenceTheorems, TLAPS

(* A byte behind UART_DR has arrived.                                       *)
WireInv == \A i \in 1 .. Len(rxFifo) : rxFifo[i] <= arrived

(* The slots between tail and head hold bytes.                              *)
HeldInv == Contents \in Seq(Byte)

(* What uart_getc has read is the byte it is about to remove, and what task *)
(* 1 is about to send is a byte.                                            *)
GetcInv == /\ pc = "advance" => c = rx_buf[rx_tail]
           /\ pc \in {"prefix", "char"} => c \in Byte

(* Once tasks exist, the one that waits is active and its stack leads to a  *)
(* place where a task yielded, or to the entry of task 1.                   *)
SchedInv ==
  /\ pc \in {"banner", "on", "yield_on", "off", "yield_off"} =>
       current = 0 /\ active[1] /\ sp[1] = "available"
  /\ pc \in Task1 =>
       current = 1 /\ active[0] /\ active[1] /\ sp[0] \in {"off", "on"}
  /\ pc \notin {"uart_init", "sched_init"} => active[0]
  /\ pc \in {"uart_init", "sched_init", "create"} => current = 0

KInv == /\ TypeOK
        /\ WireInv
        /\ HeldInv
        /\ AvailableMeansGot
        /\ GetcInv
        /\ SchedInv
-----------------------------------------------------------------------------
(* Arithmetic modulo the ring's size, below twice the size.                 *)
LEMMA ModSmall ==
  ASSUME NEW N \in Nat, N > 0, NEW a \in Nat, a < N
  PROVE  a % N = a
BY SMT

LEMMA ModWrap ==
  ASSUME NEW N \in Nat, N > 0, NEW a \in Nat, a >= N, a < N + N
  PROVE  a % N = a - N
BY SMT

(* One step of an index: it stays in the ring.                              *)
LEMMA Step ==
  ASSUME NEW i \in Index
  PROVE  /\ (i + 1) % RingSize = IF i + 1 = RingSize THEN 0 ELSE i + 1
         /\ (i + 1) % RingSize \in Index
<1>1. RingSize \in Nat /\ RingSize > 1 /\ i \in Nat /\ i < RingSize
  BY ZkernelAssumption DEF Index
<1>2. CASE i + 1 = RingSize
  <2>1. (i + 1) % RingSize = i + 1 - RingSize
    BY <1>1, <1>2, ModWrap
  <2> QED  BY <1>1, <1>2, <2>1 DEF Index
<1>3. CASE i + 1 # RingSize
  <2>1. (i + 1) % RingSize = i + 1
    BY <1>1, <1>3, ModSmall
  <2> QED  BY <1>1, <1>3, <2>1 DEF Index
<1> QED  BY <1>2, <1>3

(* How many bytes lie between two indices.                                  *)
LEMMA Between ==
  ASSUME NEW h \in Index, NEW t \in Index
  PROVE  /\ (h + RingSize - t) % RingSize = IF h >= t THEN h - t ELSE h + RingSize - t
         /\ (h + RingSize - t) % RingSize \in 0 .. RingSize - 1
<1>1. /\ RingSize \in Nat /\ RingSize > 1
      /\ h \in Nat /\ h < RingSize /\ t \in Nat /\ t < RingSize
  BY ZkernelAssumption DEF Index
<1>2. h + RingSize - t \in Nat
  BY <1>1
<1>3. CASE h >= t
  <2>1. (h + RingSize - t) % RingSize = h + RingSize - t - RingSize
    BY <1>1, <1>2, <1>3, ModWrap
  <2> QED  BY <1>1, <1>3, <2>1
<1>4. CASE h < t
  <2>1. (h + RingSize - t) % RingSize = h + RingSize - t
    BY <1>1, <1>2, <1>4, ModSmall
  <2> QED  BY <1>1, <1>4, <2>1
<1> QED  BY <1>1, <1>3, <1>4

(* The slot that holds the i-th byte after index t.                         *)
LEMMA SlotValue ==
  ASSUME NEW t \in Index, NEW i \in 1 .. RingSize
  PROVE  /\ (t + i - 1) % RingSize =
              IF t + i - 1 < RingSize THEN t + i - 1 ELSE t + i - 1 - RingSize
         /\ (t + i - 1) % RingSize \in Index
<1>1. /\ RingSize \in Nat /\ RingSize > 1 /\ t \in Nat /\ t < RingSize
      /\ t + i - 1 \in Nat /\ t + i - 1 < RingSize + RingSize
  BY ZkernelAssumption DEF Index
<1>2. CASE t + i - 1 < RingSize
  <2>1. (t + i - 1) % RingSize = t + i - 1
    BY <1>1, <1>2, ModSmall
  <2> QED  BY <1>1, <1>2, <2>1 DEF Index
<1>3. CASE t + i - 1 >= RingSize
  <2>1. (t + i - 1) % RingSize = t + i - 1 - RingSize
    BY <1>1, <1>3, ModWrap
  <2> QED  BY <1>1, <1>3, <2>1 DEF Index
<1> QED  BY <1>1, <1>2, <1>3

LEMMA ContentsShape ==
  ASSUME rx_head \in Index, rx_tail \in Index
  PROVE  /\ Count \in 0 .. RingSize - 1
         /\ DOMAIN Contents = 1 .. Count
         /\ (Count = 0) = (rx_head = rx_tail)
         /\ Contents \in Seq(Byte) => Len(Contents) = Count
<1>1. /\ Count \in 0 .. RingSize - 1
      /\ Count = IF rx_head >= rx_tail THEN rx_head - rx_tail
                 ELSE rx_head + RingSize - rx_tail
  BY Between DEF Count
<1>2. DOMAIN Contents = 1 .. Count
  BY DEF Contents
<1>3. (Count = 0) = (rx_head = rx_tail)
  BY <1>1, ZkernelAssumption DEF Index
<1>4. Contents \in Seq(Byte) => Len(Contents) = Count
  BY <1>1, <1>2, ZkernelAssumption
<1> QED  BY <1>1, <1>2, <1>3, <1>4

(* A function on 1 .. n is a sequence of length n.                          *)
LEMMA FunctionIsSeq ==
  ASSUME NEW S, NEW n \in Nat, NEW f \in [1 .. n -> S]
  PROVE  f \in Seq(S) /\ Len(f) = n
<1>1. f \in Seq(S)
  OBVIOUS
<1>2. DOMAIN f = 1 .. n /\ DOMAIN f = 1 .. Len(f) /\ Len(f) \in Nat
  BY <1>1, LenProperties
<1> QED  BY <1>1, <1>2

(* The handler stores a byte: the contents grow at the end.                 *)
LEMMA Accept ==
  ASSUME rx_head \in Index, rx_tail \in Index, rx_buf \in [Index -> Byte \cup {0}],
         Contents \in Seq(Byte), NEW b \in Byte,
         (rx_head + 1) % RingSize # rx_tail,
         rx_buf' = [rx_buf EXCEPT ![rx_head] = b],
         rx_head' = (rx_head + 1) % RingSize, rx_tail' = rx_tail
  PROVE  /\ Contents' = Append(Contents, b)
         /\ Len(Contents) < RingSize - 1
<1>1. RingSize \in Nat /\ RingSize > 1
  BY ZkernelAssumption
<1>2. rx_head' \in Index /\ rx_head' = IF rx_head + 1 = RingSize THEN 0 ELSE rx_head + 1
  BY Step
<1>3. /\ Count \in 0 .. RingSize - 1
      /\ Count = IF rx_head >= rx_tail THEN rx_head - rx_tail
                 ELSE rx_head + RingSize - rx_tail
  BY Between DEF Count
<1>4. Count' = IF rx_head' >= rx_tail THEN rx_head' - rx_tail
               ELSE rx_head' + RingSize - rx_tail
  BY <1>2, Between DEF Count
<1>5. Count' = Count + 1 /\ Count < RingSize - 1
  BY <1>1, <1>2, <1>3, <1>4 DEF Index
<1>6. DOMAIN Contents = 1 .. Count /\ Len(Contents) = Count
  BY ContentsShape
<1>7. \A i \in 1 .. Count : rx_buf'[(rx_tail + i - 1) % RingSize] = Contents[i]
  <2> TAKE i \in 1 .. Count
  <2>1. i \in 1 .. RingSize
    BY <1>1, <1>3
  <2>2. (rx_tail + i - 1) % RingSize \in Index /\ (rx_tail + i - 1) % RingSize # rx_head
    BY <1>1, <1>3, <2>1, SlotValue DEF Index
  <2> QED  BY <2>2 DEF Contents
<1>8. rx_buf'[(rx_tail + (Count + 1) - 1) % RingSize] = b
  <2>1. Count + 1 \in 1 .. RingSize
    BY <1>1, <1>3
  <2>2. (rx_tail + (Count + 1) - 1) % RingSize = rx_head
    BY <1>1, <1>3, <2>1, SlotValue DEF Index
  <2> QED  BY <2>2
<1>9. Contents' = [i \in 1 .. Count + 1 |-> rx_buf'[(rx_tail + i - 1) % RingSize]]
  BY <1>5 DEF Contents
<1> DEFINE grown == [i \in 1 .. Count + 1 |-> IF i <= Count THEN Contents[i] ELSE b]
<1>10. Contents' = grown
  <2>1. \A i \in 1 .. Count + 1 :
          rx_buf'[(rx_tail + i - 1) % RingSize] = IF i <= Count THEN Contents[i] ELSE b
    <3> TAKE i \in 1 .. Count + 1
    <3>1. CASE i <= Count
      BY <3>1, <1>3, <1>7
    <3>2. CASE i = Count + 1
      BY <3>2, <1>3, <1>8
    <3> QED  BY <3>1, <3>2, <1>3
  <2> QED  BY <2>1, <1>9
<1>11. grown = Append(Contents, b)
  <2>1. grown \in Seq(Byte) /\ Len(grown) = Count + 1
    <3>1. grown \in [1 .. Count + 1 -> Byte]
      BY <1>3, <1>6, ElementOfSeq
    <3> HIDE DEF grown
    <3>2. Count + 1 \in Nat
      BY <1>1, <1>3
    <3> QED  BY <3>1, <3>2, FunctionIsSeq
  <2>2. /\ Append(Contents, b) \in Seq(Byte)
        /\ Len(Append(Contents, b)) = Count + 1
        /\ \A i \in 1 .. Count : Append(Contents, b)[i] = Contents[i]
        /\ Append(Contents, b)[Count + 1] = b
    BY <1>6, AppendProperties
  <2>3. \A i \in 1 .. Len(grown) : grown[i] = Append(Contents, b)[i]
    BY <1>3, <2>1, <2>2
  <2> HIDE DEF grown
  <2> QED  BY <2>1, <2>2, <2>3, SeqEqual
<1> QED  BY <1>5, <1>6, <1>10, <1>11

(* The i-th slot after the moved tail is the (i+1)-th after the old one, with *)
(* the wrap written out so that no remainder is left to the solver.          *)
LEMMA NextSlot ==
  ASSUME NEW t \in Index, NEW u, u = IF t + 1 = RingSize THEN 0 ELSE t + 1,
         NEW i \in 1 .. RingSize - 1
  PROVE  (IF u + i - 1 < RingSize THEN u + i - 1 ELSE u + i - 1 - RingSize)
           = (IF t + (i + 1) - 1 < RingSize THEN t + (i + 1) - 1
              ELSE t + (i + 1) - 1 - RingSize)
<1>1. RingSize \in Nat /\ RingSize > 1 /\ t \in 0 .. RingSize - 1
  BY ZkernelAssumption DEF Index
<1>2. CASE t + 1 = RingSize
  BY <1>1, <1>2
<1>3. CASE t + 1 # RingSize
  BY <1>1, <1>3
<1> QED  BY <1>2, <1>3

(* uart_getc advances the tail: the contents lose their head.               *)
LEMMA Release ==
  ASSUME rx_head \in Index, rx_tail \in Index, Contents \in Seq(Byte),
         rx_head # rx_tail,
         rx_buf' = rx_buf, rx_head' = rx_head, rx_tail' = (rx_tail + 1) % RingSize
  PROVE  /\ Contents # <<>>
         /\ Head(Contents) = rx_buf[rx_tail]
         /\ Contents' = Tail(Contents)
<1>1. RingSize \in Nat /\ RingSize > 1
  BY ZkernelAssumption
<1>2. rx_tail' \in Index /\ rx_tail' = IF rx_tail + 1 = RingSize THEN 0 ELSE rx_tail + 1
  BY Step
<1>3. /\ Count \in 0 .. RingSize - 1
      /\ Count = IF rx_head >= rx_tail THEN rx_head - rx_tail
                 ELSE rx_head + RingSize - rx_tail
  BY Between DEF Count
<1>4. Count' = IF rx_head >= rx_tail' THEN rx_head - rx_tail'
               ELSE rx_head + RingSize - rx_tail'
  BY <1>2, Between DEF Count
<1>5. Count' = Count - 1 /\ Count > 0
  BY <1>1, <1>2, <1>3, <1>4 DEF Index
<1>6. DOMAIN Contents = 1 .. Count /\ Len(Contents) = Count
  BY ContentsShape
<1>7. Contents # <<>> /\ Head(Contents) = Contents[1]
  BY <1>3, <1>5, <1>6
<1>8. Contents[1] = rx_buf[rx_tail]
  <2>1. 1 \in 1 .. RingSize /\ rx_tail + 1 - 1 = rx_tail /\ rx_tail < RingSize
    BY <1>1 DEF Index
  <2>2. (rx_tail + 1 - 1) % RingSize = rx_tail
    BY <2>1, SlotValue
  <2>3. 1 \in 1 .. Count
    BY <1>3, <1>5
  <2> QED  BY <2>2, <2>3 DEF Contents
<1>9. \A i \in 1 .. Count - 1 :
        rx_buf[(rx_tail' + i - 1) % RingSize] = Contents[i + 1]
  <2> TAKE i \in 1 .. Count - 1
  <2>1. i \in 1 .. RingSize /\ i + 1 \in 1 .. RingSize /\ i + 1 \in 1 .. Count
    BY <1>1, <1>3
  <2>2. (rx_tail' + i - 1) % RingSize =
          IF rx_tail' + i - 1 < RingSize THEN rx_tail' + i - 1 ELSE rx_tail' + i - 1 - RingSize
    BY <1>2, <2>1, SlotValue
  <2>3. (rx_tail + (i + 1) - 1) % RingSize =
          IF rx_tail + (i + 1) - 1 < RingSize THEN rx_tail + (i + 1) - 1
          ELSE rx_tail + (i + 1) - 1 - RingSize
    BY <2>1, SlotValue
  <2>4. i \in 1 .. RingSize - 1
    BY <1>1, <1>3
  <2>5. (IF rx_tail' + i - 1 < RingSize THEN rx_tail' + i - 1 ELSE rx_tail' + i - 1 - RingSize)
          = (IF rx_tail + (i + 1) - 1 < RingSize THEN rx_tail + (i + 1) - 1
             ELSE rx_tail + (i + 1) - 1 - RingSize)
    BY <1>2, <2>4, NextSlot
  <2>6. (rx_tail' + i - 1) % RingSize = (rx_tail + (i + 1) - 1) % RingSize
    BY ONLY <2>2, <2>3, <2>5
  <2> QED  BY <2>1, <2>6 DEF Contents
<1>10. Contents' \in Seq(Byte) /\ Len(Contents') = Count - 1
  <2>1. \A i \in 1 .. Count - 1 : Contents[i + 1] \in Byte
    <3> TAKE i \in 1 .. Count - 1
    <3>1. i + 1 \in 1 .. Len(Contents)
      BY <1>3, <1>6
    <3> QED  BY <3>1, ElementOfSeq
  <2>2. Contents' = [i \in 1 .. Count - 1 |-> rx_buf[(rx_tail' + i - 1) % RingSize]]
    BY <1>5 DEF Contents
  <2>3. Contents' \in [1 .. Count - 1 -> Byte]
    BY <1>9, <2>1, <2>2
  <2> QED  BY <1>3, <1>5, <2>3, FunctionIsSeq
<1>11. /\ Tail(Contents) \in Seq(Byte) /\ Len(Tail(Contents)) = Count - 1
       /\ \A i \in 1 .. Count - 1 : Tail(Contents)[i] = Contents[i + 1]
  BY <1>6, <1>7, HeadTailProperties
<1>12. \A i \in 1 .. Len(Contents') : Contents'[i] = Tail(Contents)[i]
  BY <1>5, <1>9, <1>10, <1>11 DEF Contents
<1>13. Contents' = Tail(Contents)
  BY <1>10, <1>11, <1>12, SeqEqual
<1> QED  BY <1>7, <1>8, <1>13
-----------------------------------------------------------------------------
(* Steps that leave the ring alone leave its contents alone.                *)
LEMMA ContentsKept == UNCHANGED uartVars => Contents' = Contents /\ Count' = Count
BY DEF uartVars, Contents, Count

LEMMA InitInv == Init => KInv
<1> SUFFICES ASSUME Init PROVE KInv
  OBVIOUS
<1> USE DEF Init
<1>1. 0 \in Index
  BY ZkernelAssumption DEF Index
<1>2. TypeOK
  BY <1>1, ZkernelAssumption DEF TypeOK, Byte, TaskId, Main, Task1
<1>3. HeldInv
  <2>1. Count = 0
    BY <1>1, ContentsShape
  <2>2. Contents \in [1 .. 0 -> Byte]
    BY <2>1 DEF Contents
  <2> QED  BY <2>2, FunctionIsSeq DEF HeldInv
<1>4. WireInv /\ AvailableMeansGot /\ GetcInv /\ SchedInv
  BY DEF WireInv, AvailableMeansGot, GetcInv, SchedInv, Task1
<1> QED  BY <1>2, <1>3, <1>4 DEF KInv

LEMMA ArriveInv == KInv /\ Arrive => KInv'
<1> SUFFICES ASSUME KInv, Arrive PROVE KInv'
  OBVIOUS
<1> USE DEF KInv, Arrive, taskVars, schedVars
<1>1. arrived' \in 1 .. MaxBytes /\ arrived' = arrived + 1 /\ arrived \in Nat
  BY ZkernelAssumption DEF TypeOK
<1>2. /\ rxFifo \in Seq(Byte) /\ Len(rxFifo) \in Nat
      /\ \A i \in 1 .. Len(rxFifo) : rxFifo[i] \in Nat
  <2>1. rxFifo \in Seq(Byte)
    BY DEF TypeOK
  <2>2. ASSUME NEW i \in 1 .. Len(rxFifo) PROVE rxFifo[i] \in Byte
    BY <2>1, ElementOfSeq
  <2> QED  BY <2>1, <2>2, LenProperties DEF Byte
<1>3. /\ rxFifo' \in Seq(Byte) /\ Len(rxFifo') <= FifoDepth
      /\ \A i \in 1 .. Len(rxFifo') : rxFifo'[i] <= arrived'
  <2>1. CASE Len(rxFifo) < FifoDepth
    <3>1. arrived' \in Byte
      BY <1>1 DEF Byte
    <3>2. /\ Append(rxFifo, arrived') \in Seq(Byte)
          /\ Len(Append(rxFifo, arrived')) = Len(rxFifo) + 1
          /\ \A i \in 1 .. Len(rxFifo) : Append(rxFifo, arrived')[i] = rxFifo[i]
          /\ Append(rxFifo, arrived')[Len(rxFifo) + 1] = arrived'
      BY <3>1, AppendProperties DEF TypeOK
    <3> QED  BY <1>1, <1>2, <2>1, <3>2, ZkernelAssumption DEF WireInv
  <2>2. CASE ~(Len(rxFifo) < FifoDepth)
    BY <1>1, <1>2, <2>2 DEF WireInv, TypeOK
  <2> QED  BY <2>1, <2>2
<1>4. TypeOK'
  BY <1>1, <1>3, ZkernelAssumption DEF TypeOK, uartVars
<1>5. WireInv'
  BY <1>3 DEF WireInv
<1>6. HeldInv' /\ AvailableMeansGot' /\ GetcInv' /\ SchedInv'
  BY ContentsKept DEF HeldInv, AvailableMeansGot, GetcInv, SchedInv, uartVars
<1> QED  BY <1>4, <1>5, <1>6

LEMMA HardwareInv == KInv /\ (TxDrain \/ IrqEnter \/ IrqExit) => KInv'
<1> SUFFICES ASSUME KInv, TxDrain \/ IrqEnter \/ IrqExit PROVE KInv'
  OBVIOUS
<1>1. /\ UNCHANGED <<uartOn, arrived, rxFifo, offered, uartVars, taskVars>>
      /\ isr' \in BOOLEAN /\ txFull' \in BOOLEAN
  BY DEF KInv, TypeOK, TxDrain, IrqEnter, IrqExit, wireVars
<1>2. HeldInv'
  BY <1>1, ContentsKept DEF KInv, HeldInv
<1> USE <1>1 DEF KInv, uartVars, taskVars, schedVars
<1>3. TypeOK'
  BY DEF TypeOK
<1>4. WireInv' /\ AvailableMeansGot' /\ GetcInv' /\ SchedInv'
  BY DEF WireInv, AvailableMeansGot, GetcInv, SchedInv
<1> QED  BY <1>2, <1>3, <1>4

(* The byte the handler reads has arrived; the rest of the FIFO too.        *)
LEMMA FifoHead ==
  ASSUME KInv, rxFifo # <<>>
  PROVE  /\ Head(rxFifo) \in Byte /\ Head(rxFifo) \in 0 .. arrived
         /\ Tail(rxFifo) \in Seq(Byte) /\ Len(Tail(rxFifo)) <= FifoDepth
         /\ \A i \in 1 .. Len(Tail(rxFifo)) : Tail(rxFifo)[i] <= arrived
<1>1. /\ rxFifo \in Seq(Byte) /\ Len(rxFifo) \in Nat \ {0} /\ Len(rxFifo) <= FifoDepth
      /\ arrived \in Nat
  BY EmptySeq, ZkernelAssumption DEF KInv, TypeOK
<1>2. /\ Head(rxFifo) \in Byte /\ Head(rxFifo) = rxFifo[1]
      /\ Tail(rxFifo) \in Seq(Byte) /\ Len(Tail(rxFifo)) = Len(rxFifo) - 1
      /\ \A i \in 1 .. Len(Tail(rxFifo)) : Tail(rxFifo)[i] = rxFifo[i + 1]
  BY <1>1, HeadTailProperties
<1>3. \A i \in 1 .. Len(rxFifo) : rxFifo[i] <= arrived
  BY DEF KInv, WireInv
<1>4. Head(rxFifo) \in 0 .. arrived
  BY <1>1, <1>2, <1>3 DEF Byte
<1>5. \A i \in 1 .. Len(Tail(rxFifo)) : Tail(rxFifo)[i] <= arrived
  BY <1>1, <1>2, <1>3
<1> QED  BY <1>1, <1>2, <1>4, <1>5, ZkernelAssumption

(* The handler's loop: the new byte goes behind what task 1 may be reading. *)
LEMMA IrqCharInv == KInv /\ IrqChar => KInv'
<1> SUFFICES ASSUME KInv, IrqChar PROVE KInv'
  OBVIOUS
<1> USE DEF KInv, IrqChar, taskVars, schedVars
<1> DEFINE b == Head(rxFifo)
           next_head == (rx_head + 1) % RingSize
<1>1. /\ b \in Byte /\ offered' \in 0 .. arrived
      /\ rxFifo' \in Seq(Byte) /\ Len(rxFifo') <= FifoDepth
      /\ \A i \in 1 .. Len(rxFifo') : rxFifo'[i] <= arrived
  BY FifoHead
<1>2. next_head \in Index
  BY Step DEF TypeOK
<1>3. TypeOK'
  <2>1. rx_buf' \in [Index -> Byte \cup {0}] /\ rx_head' \in Index
    BY <1>1, <1>2 DEF TypeOK
  <2> QED  BY <1>1, <2>1 DEF TypeOK
<1>4. WireInv'
  BY <1>1 DEF WireInv
<1>5. CASE next_head # rx_tail
  <2>1. /\ rx_buf' = [rx_buf EXCEPT ![rx_head] = b]
        /\ rx_head' = (rx_head + 1) % RingSize /\ rx_tail' = rx_tail
    BY <1>5
  <2>2. Contents' = Append(Contents, b)
    BY <1>1, <1>5, <2>1, Accept DEF TypeOK, HeldInv
  <2>3. HeldInv'
    BY <1>1, <2>2, AppendProperties DEF HeldInv
  <2>4. AvailableMeansGot'
    BY <1>5, <2>1 DEF AvailableMeansGot
  <2>5. pc = "advance" => rx_head # rx_tail
    BY DEF AvailableMeansGot
  <2>6. rx_head # rx_tail => rx_buf'[rx_tail'] = rx_buf[rx_tail]
    BY <2>1 DEF TypeOK
  <2>7. GetcInv'
    BY <2>5, <2>6 DEF GetcInv
  <2>8. SchedInv'
    BY DEF SchedInv
  <2> QED  BY <1>3, <1>4, <2>3, <2>4, <2>7, <2>8
<1>6. CASE next_head = rx_tail
  <2>1. UNCHANGED uartVars
    BY <1>6 DEF uartVars
  <2>2. HeldInv'
    BY <2>1, ContentsKept DEF HeldInv
  <2>3. AvailableMeansGot' /\ GetcInv' /\ SchedInv'
    BY <2>1 DEF AvailableMeansGot, GetcInv, SchedInv, uartVars
  <2> QED  BY <1>3, <1>4, <2>2, <2>3
<1> QED  BY <1>5, <1>6

(* Steps of the tasks that leave the wire and the ring alone: only pc, c,   *)
(* what was echoed, the transmitter and the scheduler remain to be checked. *)
LEMMA QuietInv ==
  ASSUME KInv, UNCHANGED <<wireVars, uartVars>>
  PROVE  WireInv' /\ HeldInv'
<1>1. WireInv'
  BY DEF KInv, WireInv, wireVars
<1>2. HeldInv'
  BY ContentsKept DEF KInv, HeldInv
<1> QED  BY <1>1, <1>2

LEMMA BootInv == KInv /\ (UartInit \/ SchedInit \/ CreateTask) => KInv'
<1> SUFFICES ASSUME KInv, UartInit \/ SchedInit \/ CreateTask PROVE KInv'
  OBVIOUS
<1> USE DEF KInv, On, Goto, TaskId, Main, Task1
<1>1. CASE UartInit
  <2> USE <1>1 DEF UartInit
  <2>1. HeldInv'
    BY ContentsKept DEF HeldInv
  <2>2. TypeOK'
    BY DEF TypeOK, uartVars, schedVars
  <2>3. WireInv' /\ AvailableMeansGot' /\ GetcInv' /\ SchedInv'
    BY DEF WireInv, AvailableMeansGot, GetcInv, SchedInv, uartVars, schedVars
  <2> QED  BY <2>1, <2>2, <2>3
<1>2. CASE SchedInit
  <2> USE <1>2 DEF SchedInit
  <2>1. WireInv' /\ HeldInv'
    BY QuietInv
  <2>2. TypeOK'
    BY DEF TypeOK, uartVars, wireVars
  <2>3. AvailableMeansGot' /\ GetcInv'
    BY DEF AvailableMeansGot, GetcInv
  <2>4. SchedInv'
    BY DEF SchedInv
  <2> QED  BY <2>1, <2>2, <2>3, <2>4
<1>3. CASE CreateTask
  <2> USE <1>3 DEF CreateTask
  <2>1. WireInv' /\ HeldInv'
    BY QuietInv
  <2>2. TypeOK'
    BY DEF TypeOK, uartVars, wireVars
  <2>3. AvailableMeansGot' /\ GetcInv'
    BY DEF AvailableMeansGot, GetcInv
  <2>4. SchedInv'
    BY DEF SchedInv, TypeOK
  <2> QED  BY <2>1, <2>2, <2>3, <2>4
<1> QED  BY <1>1, <1>2, <1>3

LEMMA SayInv == KInv /\ (Banner \/ LedOn \/ LedOff \/ Prefix \/ Newline) => KInv'
<1> SUFFICES ASSUME KInv, Banner \/ LedOn \/ LedOff \/ Prefix \/ Newline PROVE KInv'
  OBVIOUS
<1>1. /\ UNCHANGED <<wireVars, uartVars, c, echoed, schedVars>>
      /\ txFull' \in BOOLEAN
      /\ \/ pc = "banner" /\ pc' = "on"
         \/ pc = "on" /\ pc' = "yield_on"
         \/ pc = "off" /\ pc' = "yield_off"
         \/ pc = "prefix" /\ pc' = "char"
         \/ pc = "newline" /\ pc' = "yield"
  BY DEF Banner, LedOn, LedOff, Prefix, Newline, Say, On, Goto, Send
<1>2. WireInv' /\ HeldInv'
  BY <1>1, QuietInv
<1> USE <1>1 DEF KInv, uartVars, schedVars, Task1
<1>3. TypeOK'
  BY DEF TypeOK, wireVars, Main
<1>4. AvailableMeansGot' /\ GetcInv'
  BY DEF AvailableMeansGot, GetcInv
<1>5. SchedInv'
  BY DEF SchedInv
<1> QED  BY <1>2, <1>3, <1>4, <1>5

(* A task yields only when the other one is ready to go on, so it does.     *)
LEMMA YieldSwitches ==
  ASSUME KInv, YieldOn \/ YieldOff \/ Yield1
  PROVE  /\ UNCHANGED <<wireVars, uartVars, txFull, c, echoed, active>>
         /\ \/ /\ pc \in {"yield_on", "yield_off"} /\ pc' = "available"
               /\ current' = 1 /\ active[0] /\ active[1]
               /\ sp'[0] \in {"off", "on"} /\ sp' \in [TaskId -> Main \cup Task1 \cup {"null"}]
            \/ /\ pc = "yield" /\ pc' \in {"off", "on"}
               /\ current' = 0 /\ active[0] /\ active[1]
               /\ sp'[1] = "available" /\ sp' \in [TaskId -> Main \cup Task1 \cup {"null"}]
<1> USE DEF KInv
<1>1. sp \in [TaskId -> Main \cup Task1 \cup {"null"}]
  BY DEF TypeOK
<1>2. ASSUME YieldOn \/ YieldOff
      PROVE  /\ UNCHANGED <<wireVars, uartVars, txFull, c, echoed, active>>
             /\ pc \in {"yield_on", "yield_off"} /\ pc' = "available"
             /\ current' = 1 /\ active[0] /\ active[1]
             /\ \/ sp' = [sp EXCEPT ![0] = "off"]
                \/ sp' = [sp EXCEPT ![0] = "on"]
  <2>1. pc \in {"yield_on", "yield_off"}
    BY <1>2 DEF YieldOn, YieldOff, SchedYield, On
  <2>2. current = 0 /\ active[0] /\ active[1] /\ sp[1] = "available"
    BY <2>1 DEF SchedInv
  <2>3. (0 + 1) % 2 = 1
    BY ModSmall
  <2> QED  BY <1>2, <2>1, <2>2, <2>3 DEF YieldOn, YieldOff, SchedYield, On, Goto
<1>3. ASSUME Yield1
      PROVE  /\ UNCHANGED <<wireVars, uartVars, txFull, c, echoed, active>>
             /\ pc = "yield" /\ pc' \in {"off", "on"}
             /\ current' = 0 /\ active[0] /\ active[1]
             /\ sp' = [sp EXCEPT ![1] = "available"]
  <2>1. pc = "yield"
    BY <1>3 DEF Yield1, SchedYield, On
  <2>2. current = 1 /\ active[0] /\ active[1] /\ sp[0] \in {"off", "on"}
    BY <2>1 DEF SchedInv, Task1
  <2>3. (1 + 1) % 2 = 0
    BY ModWrap
  <2> QED  BY <1>3, <2>1, <2>2, <2>3 DEF Yield1, SchedYield, On, Goto
<1>4. CASE YieldOn \/ YieldOff
  BY <1>1, <1>2, <1>4 DEF TaskId, Main, Task1
<1>5. CASE Yield1
  BY <1>1, <1>3, <1>5 DEF TaskId, Main, Task1
<1> QED  BY <1>4, <1>5

LEMMA YieldInv == KInv /\ (YieldOn \/ YieldOff \/ Yield1) => KInv'
<1> SUFFICES ASSUME KInv, YieldOn \/ YieldOff \/ Yield1 PROVE KInv'
  OBVIOUS
<1>1. WireInv' /\ HeldInv'
  BY YieldSwitches, QuietInv
<1> USE YieldSwitches DEF KInv, Task1
<1>2. TypeOK'
  BY DEF TypeOK, uartVars, wireVars, TaskId, Main
<1>3. AvailableMeansGot' /\ GetcInv'
  BY DEF AvailableMeansGot, GetcInv
<1>4. SchedInv'
  BY DEF SchedInv, TypeOK, TaskId, Main
<1> QED  BY <1>1, <1>2, <1>3, <1>4

LEMMA GetcTestInv == KInv /\ (CharAvailable \/ GetcTest \/ GetcLoad) => KInv'
<1> SUFFICES ASSUME KInv, CharAvailable \/ GetcTest \/ GetcLoad PROVE KInv'
  OBVIOUS
<1>1. /\ UNCHANGED <<wireVars, uartVars, txFull, echoed, schedVars>>
      /\ \/ pc = "available" /\ pc' = "getc" /\ rx_head # rx_tail /\ c' = c
         \/ pc = "available" /\ pc' = "yield" /\ c' = c
         \/ pc = "getc" /\ pc' = "yield" /\ c' = c
         \/ pc = "getc" /\ pc' = "load" /\ c' = c
         \/ pc = "load" /\ pc' = "advance" /\ c' = rx_buf[rx_tail]
  BY DEF CharAvailable, GetcTest, GetcLoad, On, Goto
<1>2. WireInv' /\ HeldInv'
  BY <1>1, QuietInv
<1>3. c' \in Byte \cup {0}
  BY <1>1 DEF KInv, TypeOK
<1> USE <1>1 DEF KInv, uartVars, schedVars, Task1
<1>4. TypeOK'
  BY <1>3 DEF TypeOK, wireVars, Main
<1>5. AvailableMeansGot'
  BY DEF AvailableMeansGot
<1>6. GetcInv'
  BY DEF GetcInv
<1>7. SchedInv'
  BY DEF SchedInv
<1> QED  BY <1>2, <1>4, <1>5, <1>6, <1>7

(* What uart_getc removes is the head of the contents, and it is in c.      *)
LEMMA GetcTakes ==
  ASSUME KInv, GetcAdvance
  PROVE  /\ Contents # <<>> /\ c = Head(Contents) /\ c \in Byte
         /\ Contents' = Tail(Contents) /\ Contents' \in Seq(Byte)
         /\ rx_tail' \in Index
<1> USE DEF KInv, GetcAdvance, On
<1>1. rx_head # rx_tail /\ c = rx_buf[rx_tail]
  BY DEF AvailableMeansGot, GetcInv
<1>2. /\ Contents # <<>> /\ Head(Contents) = rx_buf[rx_tail]
      /\ Contents' = Tail(Contents)
  BY <1>1, Release DEF TypeOK, HeldInv
<1>3. Head(Contents) \in Byte /\ Tail(Contents) \in Seq(Byte)
  BY <1>2, HeadTailProperties DEF HeldInv
<1>4. rx_tail' \in Index
  BY Step DEF TypeOK
<1> QED  BY <1>1, <1>2, <1>3, <1>4

LEMMA GetcAdvanceInv == KInv /\ GetcAdvance => KInv'
<1> SUFFICES ASSUME KInv, GetcAdvance PROVE KInv'
  OBVIOUS
<1>1. HeldInv' /\ c' \in Byte /\ rx_tail' \in Index
  BY GetcTakes DEF HeldInv, GetcAdvance
<1> USE DEF KInv, GetcAdvance, On, Goto, schedVars, wireVars
<1>2. TypeOK'
  BY <1>1 DEF TypeOK, Task1, Main
<1>3. WireInv' /\ AvailableMeansGot' /\ SchedInv'
  BY DEF WireInv, AvailableMeansGot, SchedInv, Task1
<1>4. GetcInv'
  BY <1>1 DEF GetcInv
<1> QED  BY <1>1, <1>2, <1>3, <1>4

LEMMA EchoCharInv == KInv /\ EchoChar => KInv'
<1> SUFFICES ASSUME KInv, EchoChar PROVE KInv'
  OBVIOUS
<1> USE DEF KInv, EchoChar, On, Goto, Send, schedVars
<1>1. WireInv' /\ HeldInv'
  BY QuietInv
<1>2. echoed' \in Seq(Byte)
  <2>1. c \in Byte /\ echoed \in Seq(Byte)
    BY DEF GetcInv, TypeOK
  <2> QED  BY <2>1, AppendProperties
<1>3. TypeOK'
  BY <1>2 DEF TypeOK, Task1, Main, uartVars, wireVars
<1>4. AvailableMeansGot' /\ GetcInv' /\ SchedInv'
  BY DEF AvailableMeansGot, GetcInv, SchedInv, Task1
<1> QED  BY <1>1, <1>3, <1>4

LEMMA StutterInv == KInv /\ UNCHANGED vars => KInv'
<1> SUFFICES ASSUME KInv, UNCHANGED vars PROVE KInv'
  OBVIOUS
<1> USE DEF KInv, vars, taskVars, schedVars
<1>1. WireInv' /\ HeldInv'
  BY QuietInv
<1>2. TypeOK' /\ AvailableMeansGot' /\ GetcInv' /\ SchedInv'
  BY DEF TypeOK, AvailableMeansGot, GetcInv, SchedInv, wireVars, uartVars
<1> QED  BY <1>1, <1>2

(* The invariant holds in every reachable state, whatever the size of the   *)
(* ring and whenever the handler interrupts.                                *)
THEOREM KernelInvariant == Spec => []KInv
<1>1. Init => KInv
  BY InitInv
<1>2. KInv /\ [Next]_vars => KInv'
  BY ArriveInv, HardwareInv, IrqCharInv, BootInv, SayInv, YieldInv, GetcTestInv,
     GetcAdvanceInv, EchoCharInv, StutterInv DEF Next, Task
<1> QED  BY <1>1, <1>2, PTL DEF Spec

(* Type correctness of the kernel: in particular the core never continues   *)
(* at a stack that create_task or a yield has not prepared.                 *)
THEOREM KernelTypes == Spec => []TypeOK
<1>1. KInv => TypeOK
  BY DEF KInv
<1> QED  BY <1>1, KernelInvariant, PTL

(* uart_char_available's answer stays good until uart_getc has read: task 1 *)
(* never gets a -1 from it.                                                 *)
THEOREM AvailableIsGot == Spec => []AvailableMeansGot
<1>1. KInv => AvailableMeansGot
  BY DEF KInv
<1> QED  BY <1>1, KernelInvariant, PTL
-----------------------------------------------------------------------------
(* The refinement: which step of the kernel is which step of the queue.     *)
LEMMA QueueInit == Init => Queue!Init
<1> SUFFICES ASSUME Init PROVE Queue!Init
  OBVIOUS
<1>1. Contents \in Seq(Byte) /\ Count = 0
  <2>1. 0 \in Index
    BY ZkernelAssumption DEF Index
  <2> QED  BY <2>1, InitInv, ContentsShape DEF Init, KInv, HeldInv
<1>2. Contents = <<>>
  <2>1. Len(Contents) = 0
    BY <1>1, LenProperties DEF Contents
  <2> QED  BY <1>1, <2>1, EmptySeq
<1>3. echoed \o InHand = <<>>
  BY EmptySeq, ConcatEmptySeq DEF Init, InHand
<1> QED  BY <1>2, <1>3 DEF Init, Queue!Init

(* One round of the handler offers a byte.                                  *)
LEMMA IrqCharOffers == KInv /\ IrqChar => \E b \in Byte : Queue!Offer(b)
<1> SUFFICES ASSUME KInv, IrqChar PROVE \E b \in Byte : Queue!Offer(b)
  OBVIOUS
<1> USE DEF KInv, IrqChar, taskVars
<1> DEFINE b == Head(rxFifo)
<1>1. b \in Byte
  BY FifoHead
<1>2. UNCHANGED (echoed \o InHand)
  BY DEF InHand
<1>3. Contents' = IF Len(Contents) < RingSize - 1 THEN Append(Contents, b) ELSE Contents
  <2>1. CASE (rx_head + 1) % RingSize # rx_tail
    BY <1>1, <2>1, Accept DEF TypeOK, HeldInv
  <2>2. CASE (rx_head + 1) % RingSize = rx_tail
    <3>1. Contents' = Contents
      BY <2>2, ContentsKept DEF uartVars
    <3>2. /\ RingSize \in Nat /\ rx_head \in Index /\ rx_tail \in Index
          /\ rx_tail = IF rx_head + 1 = RingSize THEN 0 ELSE rx_head + 1
      BY <2>2, Step, ZkernelAssumption DEF TypeOK
    <3>3. Count = IF rx_head >= rx_tail THEN rx_head - rx_tail
                  ELSE rx_head + RingSize - rx_tail
      BY <3>2, Between DEF Count
    <3>4. Count = RingSize - 1
      BY <3>2, <3>3 DEF Index
    <3>5. Len(Contents) = Count
      BY <3>2, ContentsShape DEF HeldInv
    <3> QED  BY <3>1, <3>2, <3>4, <3>5
  <2> QED  BY <2>1, <2>2
<1> QED  BY <1>1, <1>2, <1>3 DEF Queue!Offer

(* uart_getc takes one when it advances the tail.                           *)
LEMMA GetcAdvanceTakes == KInv /\ GetcAdvance => Queue!Take
<1> SUFFICES ASSUME KInv, GetcAdvance PROVE Queue!Take
  OBVIOUS
<1>1. /\ Contents # <<>> /\ c = Head(Contents) /\ c \in Byte
      /\ Contents' = Tail(Contents)
  BY GetcTakes
<1>2. /\ pc = "advance" /\ pc' = "prefix" /\ echoed' = echoed /\ c' = c
      /\ offered' = offered /\ echoed \in Seq(Byte)
  BY DEF GetcAdvance, On, Goto, wireVars, KInv, TypeOK
<1>3. InHand = <<>> /\ InHand' = <<c>>
  BY <1>2 DEF InHand
<1>4. echoed \o InHand = echoed
  BY <1>2, <1>3, ConcatEmptySeq
<1>5. echoed \o <<c>> = Append(echoed, c)
  BY <1>1, <1>2, AppendIsConcat
<1>6. (echoed \o InHand)' = Append(echoed \o InHand, Head(Contents))
  BY <1>1, <1>2, <1>3, <1>4, <1>5
<1> QED  BY <1>1, <1>2, <1>6 DEF Queue!Take

(* Sending the byte only moves it from task 1's hand to the wire.           *)
LEMMA EchoKeepsQueue == KInv /\ EchoChar => UNCHANGED Queue!vars
<1> SUFFICES ASSUME KInv, EchoChar PROVE UNCHANGED Queue!vars
  OBVIOUS
<1>1. /\ pc = "char" /\ pc' = "newline" /\ echoed' = Append(echoed, c)
      /\ c \in Byte /\ echoed \in Seq(Byte)
  BY DEF EchoChar, On, Goto, KInv, TypeOK, GetcInv
<1>2. InHand = <<c>> /\ InHand' = <<>>
  BY <1>1 DEF InHand
<1>3. (echoed \o InHand)' = echoed \o InHand
  <2>1. Append(echoed, c) \in Seq(Byte) /\ echoed \o <<c>> = Append(echoed, c)
    BY <1>1, AppendProperties, AppendIsConcat
  <2>2. Append(echoed, c) \o <<>> = Append(echoed, c)
    BY <2>1, ConcatEmptySeq
  <2> QED  BY <1>1, <1>2, <2>1, <2>2
<1>4. Contents' = Contents /\ offered' = offered
  BY ContentsKept DEF EchoChar, wireVars
<1> QED  BY <1>3, <1>4 DEF Queue!vars

(* Every other step of the tasks and the hardware leaves the queue alone.   *)
LEMMA OthersKeepQueue ==
  ASSUME KInv, [Next]_vars, ~IrqChar, ~GetcAdvance, ~EchoChar
  PROVE  UNCHANGED Queue!vars
<1>1. /\ offered' = offered /\ UNCHANGED uartVars /\ echoed' = echoed
      /\ \/ pc' = pc /\ c' = c
         \/ InHand = <<>> /\ InHand' = <<>>
         \/ pc = "prefix" /\ pc' = "char" /\ c' = c
  <2>1. CASE Arrive \/ TxDrain \/ IrqEnter \/ IrqExit \/ UNCHANGED vars
    BY <2>1 DEF Arrive, TxDrain, IrqEnter, IrqExit, vars, wireVars, taskVars
  <2>2. CASE UartInit \/ SchedInit \/ CreateTask
    BY <2>2 DEF UartInit, SchedInit, CreateTask, On, Goto, wireVars, InHand
  <2>3. CASE Banner \/ LedOn \/ LedOff \/ Prefix \/ Newline
    BY <2>3 DEF Banner, LedOn, LedOff, Prefix, Newline, Say, On, Goto, wireVars, InHand
  <2>4. CASE YieldOn \/ YieldOff \/ Yield1
    BY <2>4, YieldSwitches DEF wireVars, InHand
  <2>5. CASE CharAvailable \/ GetcTest \/ GetcLoad
    BY <2>5 DEF CharAvailable, GetcTest, GetcLoad, On, Goto, wireVars, InHand
  <2> QED  BY <2>1, <2>2, <2>3, <2>4, <2>5 DEF Next, Task
<1>2. InHand' = InHand
  BY <1>1 DEF InHand
<1>3. Contents' = Contents
  BY <1>1, ContentsKept
<1> QED  BY <1>1, <1>2, <1>3 DEF Queue!vars

(* For every ring size, interrupts anywhere and indices that wrap, the ring *)
(* with its two index protocols is a first-in first-out queue of RingSize-1 *)
(* bytes that drops only what is offered when it is full.                   *)
THEOREM RingIsQueue == Spec => ImplementsQueue
<1>1. Init => Queue!Init
  BY QueueInit
<1>2. KInv /\ [Next]_vars => [Queue!Next]_(Queue!vars)
  BY IrqCharOffers, GetcAdvanceTakes, EchoKeepsQueue, OthersKeepQueue DEF Queue!Next
<1> QED  BY <1>1, <1>2, KernelInvariant, PTL DEF Spec, ImplementsQueue, Queue!Spec
=============================================================================
