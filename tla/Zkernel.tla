------------------------------ MODULE Zkernel ------------------------------
(***************************************************************************)
(* The bare-metal kernel for the RP2040 (src/zkernel): the receive ring of  *)
(* uart.c between the interrupt handler and task 1, the two-task            *)
(* cooperative scheduler of sched.c, and the two tasks of main.c.           *)
(*                                                                          *)
(* One core: the handler preempts a task between any two accesses to the    *)
(* ring indices and runs to its end; bytes keep arriving meanwhile.  Bytes  *)
(* are numbered in the order they arrive on the wire.                       *)
(***************************************************************************)
EXTENDS Naturals, Sequences

CONSTANTS RingSize,   \* RING_BUF_SIZE
          FifoDepth,  \* the UART's hardware receive FIFO
          MaxBytes    \* bound: bytes that arrive on the wire

ASSUME ZkernelAssumption == /\ RingSize \in Nat /\ RingSize > 1
                            /\ FifoDepth \in Nat \ {0}
                            /\ MaxBytes \in Nat

Index == 0 .. RingSize - 1
Byte == 1 .. MaxBytes
TaskId == {0, 1}

VARIABLES uartOn,    \* uart_init has run: UART and interrupts enabled
          arrived,   \* bytes that arrived on the wire
          rxFifo,    \* the hardware FIFO behind UART_DR
          offered,   \* history: the last byte the handler read from UART_DR
          isr,       \* the core executes uart0_irq_handler
          rx_buf, rx_head, rx_tail,
          txFull,    \* UART_FR.TXFF
          pc,        \* what the core executes, or resumes after the handler
          c,         \* the local variable of task1_entry and uart_getc
          echoed,    \* history: the bytes task 1 sent back
          active, sp, current   \* tasks[].active, tasks[].sp, current_task_id

uartVars  == <<rx_buf, rx_head, rx_tail>>
schedVars == <<active, sp, current>>
wireVars  == <<uartOn, arrived, rxFifo, offered, isr>>
taskVars  == <<pc, c, echoed, schedVars>>
vars == <<wireVars, uartVars, txFull, taskVars>>

Main  == {"uart_init", "sched_init", "create", "banner", "on", "yield_on", "off", "yield_off"}
Task1 == {"available", "getc", "load", "advance", "prefix", "char", "newline", "yield"}

Init == /\ uartOn = FALSE /\ arrived = 0 /\ rxFifo = <<>> /\ offered = 0 /\ isr = FALSE
        /\ rx_buf = [i \in Index |-> 0] /\ rx_head = 0 /\ rx_tail = 0
        /\ txFull = FALSE
        /\ pc = "uart_init" /\ c = 0 /\ echoed = <<>>
        /\ active = [i \in TaskId |-> FALSE]
        /\ sp = [i \in TaskId |-> "null"]
        /\ current = 0
-----------------------------------------------------------------------------
(* The wire and the hardware.  A byte that finds the FIFO full is lost to   *)
(* the program.                                                             *)
Arrive == /\ uartOn /\ arrived < MaxBytes
          /\ arrived' = arrived + 1
          /\ rxFifo' = IF Len(rxFifo) < FifoDepth THEN Append(rxFifo, arrived') ELSE rxFifo
          /\ UNCHANGED <<uartOn, offered, isr, uartVars, txFull, taskVars>>

TxDrain == txFull /\ txFull' = FALSE /\ UNCHANGED <<wireVars, uartVars, taskVars>>

(* The UART may raise the interrupt at any fill level of its FIFO.          *)
IrqEnter == /\ uartOn /\ ~isr /\ rxFifo # <<>>
            /\ isr' = TRUE
            /\ UNCHANGED <<uartOn, arrived, rxFifo, offered, uartVars, txFull, taskVars>>

(* Mutant: no test for a full ring.                                         *)
IrqChar_NoFullTest ==
  /\ isr /\ rxFifo # <<>>
  /\ rx_buf' = [rx_buf EXCEPT ![rx_head] = Head(rxFifo)]
  /\ rx_head' = (rx_head + 1) % RingSize
  /\ offered' = Head(rxFifo)
  /\ rxFifo' = Tail(rxFifo)
  /\ UNCHANGED <<uartOn, arrived, isr, rx_tail, txFull, taskVars>>

(* Mutant: the head is published before the slot is chosen.                 *)
IrqChar_HeadFirst ==
  /\ isr /\ rxFifo # <<>>
  /\ LET next_head == (rx_head + 1) % RingSize
     IN IF next_head # rx_tail
        THEN rx_buf' = [rx_buf EXCEPT ![next_head] = Head(rxFifo)] /\ rx_head' = next_head
        ELSE UNCHANGED <<rx_buf, rx_head>>
  /\ offered' = Head(rxFifo)
  /\ rxFifo' = Tail(rxFifo)
  /\ UNCHANGED <<uartOn, arrived, isr, rx_tail, txFull, taskVars>>

(* One round of the handler's loop: a byte for which the ring has no room   *)
(* is dropped.                                                              *)
IrqChar ==
  /\ isr /\ rxFifo # <<>>
  /\ LET next_head == (rx_head + 1) % RingSize
     IN IF next_head # rx_tail
        THEN rx_buf' = [rx_buf EXCEPT ![rx_head] = Head(rxFifo)] /\ rx_head' = next_head
        ELSE UNCHANGED <<rx_buf, rx_head>>
  /\ offered' = Head(rxFifo)
  /\ rxFifo' = Tail(rxFifo)
  /\ UNCHANGED <<uartOn, arrived, isr, rx_tail, txFull, taskVars>>

IrqExit == /\ isr /\ rxFifo = <<>>
           /\ isr' = FALSE
           /\ UNCHANGED <<uartOn, arrived, rxFifo, offered, uartVars, txFull, taskVars>>
-----------------------------------------------------------------------------
(* A task runs only while the handler does not.                             *)
On(label) == ~isr /\ pc = label
Goto(label) == pc' = label

(* uart_putc busy-waits while the transmit FIFO is full, and may fill it.   *)
Send == ~txFull /\ txFull' \in BOOLEAN

UartInit == /\ On("uart_init") /\ Goto("sched_init")
            /\ uartOn' = TRUE
            /\ UNCHANGED <<arrived, rxFifo, offered, isr, uartVars, txFull, c, echoed, schedVars>>

(* Mutant: task 0 is not marked active.                                     *)
SchedInit_NoTask0 == /\ On("sched_init") /\ Goto("create")
                     /\ active' = [i \in TaskId |-> FALSE]
                     /\ sp' = [i \in TaskId |-> "null"]
                     /\ current' = 0
                     /\ UNCHANGED <<wireVars, uartVars, txFull, c, echoed>>

SchedInit == /\ On("sched_init") /\ Goto("create")
             /\ active' = [i \in TaskId |-> i = 0]
             /\ sp' = [i \in TaskId |-> "null"]
             /\ current' = 0
             /\ UNCHANGED <<wireVars, uartVars, txFull, c, echoed>>

(* Mutants: the new task is not made active; its stack is not prepared.     *)
CreateTask_Inactive == /\ On("create") /\ Goto("banner")
                       /\ sp' = [sp EXCEPT ![1] = "available"]
                       /\ UNCHANGED <<wireVars, uartVars, txFull, c, echoed, active, current>>

CreateTask_NoStack == /\ On("create") /\ Goto("banner")
                      /\ active' = [active EXCEPT ![1] = TRUE]
                      /\ UNCHANGED <<wireVars, uartVars, txFull, c, echoed, sp, current>>

(* The prepared stack makes the first switch return into task1_entry.       *)
CreateTask == /\ On("create") /\ Goto("banner")
              /\ sp' = [sp EXCEPT ![1] = "available"]
              /\ active' = [active EXCEPT ![1] = TRUE]
              /\ UNCHANGED <<wireVars, uartVars, txFull, c, echoed, current>>

(* uart_puts of a fixed text.                                               *)
Say(label, next) == /\ On(label) /\ Goto(next) /\ Send
                    /\ UNCHANGED <<wireVars, uartVars, c, echoed, schedVars>>

Banner == Say("banner", "on")
LedOn  == Say("on", "yield_on")
LedOff == Say("off", "yield_off")
Prefix == Say("prefix", "char")
Newline == Say("newline", "yield")

(* sched_yield: switch_context saves where this task resumes and goes on    *)
(* where the other one was saved.                                           *)
SchedYield(label, resume) ==
  LET next == (current + 1) % 2
  IN /\ On(label)
     /\ IF active[next]
        THEN current' = next /\ sp' = [sp EXCEPT ![current] = resume] /\ Goto(sp[next])
        ELSE Goto(resume) /\ UNCHANGED <<sp, current>>
     /\ UNCHANGED <<wireVars, uartVars, txFull, c, echoed, active>>

YieldOn  == SchedYield("yield_on", "off")
YieldOff == SchedYield("yield_off", "on")
Yield1   == SchedYield("yield", "available")

CharAvailable == /\ On("available")
                 /\ Goto(IF rx_head # rx_tail THEN "getc" ELSE "yield")
                 /\ UNCHANGED <<wireVars, uartVars, txFull, c, echoed, schedVars>>

(* uart_getc in three accesses: the emptiness test, the byte, the index.    *)
(* On an empty ring it returns -1 and nothing is echoed.                    *)
GetcTest == /\ On("getc")
            /\ Goto(IF rx_head = rx_tail THEN "yield" ELSE "load")
            /\ UNCHANGED <<wireVars, uartVars, txFull, c, echoed, schedVars>>

GetcLoad == /\ On("load") /\ Goto("advance")
            /\ c' = rx_buf[rx_tail]
            /\ UNCHANGED <<wireVars, uartVars, txFull, echoed, schedVars>>

GetcAdvance == /\ On("advance") /\ Goto("prefix")
               /\ rx_tail' = (rx_tail + 1) % RingSize
               /\ UNCHANGED <<wireVars, rx_buf, rx_head, txFull, c, echoed, schedVars>>

EchoChar == /\ On("char") /\ Goto("newline") /\ Send
            /\ echoed' = Append(echoed, c)
            /\ UNCHANGED <<wireVars, uartVars, c, schedVars>>
-----------------------------------------------------------------------------
Task == \/ UartInit \/ SchedInit \/ CreateTask \/ Banner \/ LedOn \/ YieldOn \/ LedOff
        \/ YieldOff \/ CharAvailable \/ GetcTest \/ GetcLoad \/ GetcAdvance \/ Prefix
        \/ EchoChar \/ Newline \/ Yield1

Next == Arrive \/ TxDrain \/ IrqEnter \/ IrqChar \/ IrqExit \/ Task

Spec == Init /\ [][Next]_vars

(* The core never stops between instructions, and the transmitter drains    *)
(* its FIFO.  No interrupt is promised: a byte may stay in the hardware.    *)
Fairness == WF_vars(IrqChar \/ IrqExit) /\ WF_vars(Task) /\ WF_vars(TxDrain)

FairSpec == Spec /\ Fairness
-----------------------------------------------------------------------------
(* Type invariant: the core never continues at an unprepared stack.         *)
TypeOK == /\ arrived \in 0 .. MaxBytes /\ offered \in 0 .. arrived
          /\ rxFifo \in Seq(Byte) /\ Len(rxFifo) <= FifoDepth
          /\ rx_buf \in [Index -> Byte \cup {0}]
          /\ rx_head \in Index /\ rx_tail \in Index
          /\ pc \in Main \cup Task1
          /\ c \in Byte \cup {0} /\ echoed \in Seq(Byte)
          /\ active \in [TaskId -> BOOLEAN] /\ current \in TaskId
          /\ sp \in [TaskId -> Main \cup Task1 \cup {"null"}]
          /\ isr \in BOOLEAN /\ uartOn \in BOOLEAN /\ txFull \in BOOLEAN

Count == (rx_head + RingSize - rx_tail) % RingSize
Contents == [i \in 1 .. Count |-> rx_buf[(rx_tail + i - 1) % RingSize]]
InHand == IF pc \in {"prefix", "char"} THEN <<c>> ELSE <<>>

(* The ring, with the handler interrupting uart_getc anywhere and the       *)
(* indices wrapping, is a queue of RingSize - 1 bytes: what task 1 echoes,  *)
(* with the byte it is about to echo, is what was taken from it.            *)
Queue == INSTANCE RxQueue WITH Capacity <- RingSize - 1, last <- offered,
                               queue <- Contents, taken <- echoed \o InHand
ImplementsQueue == Queue!Spec

(* uart_char_available's answer stays good: only the handler runs between   *)
(* it and uart_getc, so uart_getc never returns -1 to task 1.               *)
AvailableMeansGot == pc \in {"getc", "load", "advance"} => rx_head # rx_tail

(* A byte the ring accepted is echoed in the end, although the tasks yield  *)
(* to each other voluntarily and every send may have to wait.               *)
Accepted(b) == \E i \in DOMAIN Contents : Contents[i] = b
Echoed(b) == \E i \in DOMAIN echoed : echoed[i] = b
AcceptedIsEchoed == \A b \in Byte : Accepted(b) ~> Echoed(b)

(* Round robin: neither task keeps the core for ever.                       *)
BothTasksRun == []<>(current = 0) /\ []<>(current = 1)
=============================================================================
