---------------------------- MODULE LoweredExec ----------------------------
(***************************************************************************)
(* The machine code of one function, as ir_module_lower_x86 emits it with   *)
(* the registers RegAlloc assigned, being executed.  A value is the number  *)
(* of the definition that made it, so a read is right when it finds the     *)
(* number of the temporary's last executed definition.                      *)
(***************************************************************************)
EXTENDS RegAlloc

CONSTANTS SavedK,    \* colours 0 .. SavedK-1 of the integer class are rbx, r12 .. r15
          MaxClock   \* bound on the definitions one execution makes

ASSUME LoweredExecAssumption == SavedK \in Nat /\ MaxClock \in Nat \ {0}

(* Every branch has its label.                                              *)
ASSUME BranchAssumption ==
  \A body \in Programs : \A p \in DOMAIN body :
    body[p].op = "br_if" => body[p].goto \in 1 .. Len(body) + 1

VARIABLES ip,        \* the node about to execute; Len(code) + 1 is end_label,
                     \* Len(code) + 2 stands behind the return
          clock,     \* definitions made so far
          val,       \* history: the temporary's value by the IR's meaning
          reg,       \* contents of the allocatable registers
          slot,      \* contents of the temporaries' stack slots
          scratched, \* history: temporaries whose register was written as scratch
                     \* or by a callee since their definition
          looped,    \* history: temporaries defined before the last back edge
          wrong      \* history: temporaries the last node misread

execVars == <<ip, clock, val, reg, slot, scratched, looped, wrong>>

Unknown == 0   \* no definition of this function
Caller  == 1   \* what the caller left in a callee-saved register

Gpr(c) == [float |-> FALSE, color |-> c]
R10 == Gpr(SavedK)
R11 == Gpr(SavedK + 1)

(* xmm_colors[c] is xmm(c+1); xmm0 is the accumulator, never allocated.     *)
Xmm(i) == IF i \in 1 .. FloatK THEN [float |-> TRUE, color |-> i - 1] ELSE NoReg

Registers == {Gpr(c) : c \in 0 .. GprK - 1} \cup {Xmm(i) : i \in 1 .. FloatK}
CalleeSaved == {Gpr(c) : c \in 0 .. SavedK - 1} \cap Registers

(* The operands in the order the emitted instructions read them.  A value   *)
(* of two eightbytes lies in the frame, whatever register its temporary     *)
(* got: a call leaves it there and a wide store copies it from there.  It   *)
(* is no operand here.  FADD .. FDIV find their second operand in the frame *)
(* unless it has an xmm register: as elsewhere, since a temporary of float  *)
(* type gets no other one.                                                  *)
Operands(n) == CASE n.op = "store" -> <<n.src1, n.dst>>
                 [] n.op = "wide"  -> <<n.dst>>
                 [] n.op = "fma"   -> <<n.src1, n.src2, n.label>>
                 [] n.op = "call"  -> <<n.label>>
                 [] OTHER          -> <<n.src1, n.src2>>

(* fp_arg_idx at an IR_ARG: float arguments passed since the previous call. *)
FpArgIdx(p) == Cardinality({q \in 1 .. p - 1 : /\ code[q].op = "arg" /\ code[q].float
                                               /\ \A r \in q .. p : code[r].op # "call"})

(* The allocatable register the k-th operand of node p is loaded into.      *)
LoadedInto(p, k) ==
  LET n == code[p]
  IN CASE n.op = "fcmp" /\ k = 1                     -> Xmm(1)
       [] n.op = "fma" /\ k > 1                      -> Xmm(k - 1)
       [] n.op = "arg" /\ n.float /\ k = 1           -> Xmm(FpArgIdx(p))
       [] n.op = "call" /\ n.label # NoTemp          -> R10
       [] OTHER                                      -> NoReg

(* Registers the node overwrites whatever its operands.  An fcmp of kind    *)
(* ORD or UNO spares %r11, which only makes fewer reads wrong.              *)
Scratch(n) == CASE n.op \in {"fcmp", "fneg"} -> {R11}
                [] n.op = "wide"             -> {R10}
                [] n.op = "ftou"             -> {Xmm(1)}
                [] OTHER                     -> {}

Defines(n) == n.op \notin {"store", "wide"} /\ n.dst \in Temp

(* The operand that is loaded last over the register of the k-th one, or    *)
(* the k-th itself.                                                         *)
Loader(p, k) ==
  LET o == Operands(code[p])
      over == {j \in 1 .. k - 1 : /\ o[k] # NoTemp /\ assigned[o[k]] # NoReg
                                 /\ LoadedInto(p, j) = assigned[o[k]]}
  IN IF over = {} THEN k ELSE CHOOSE j \in over : \A i \in over : i <= j

Home(t) == IF t = NoTemp THEN Unknown
           ELSE IF assigned[t] = NoReg THEN slot[t] ELSE reg[assigned[t]]

(* What node p finds where it looks for each operand.  There are three at   *)
(* most, so a register is loaded over twice in a row at most.               *)
Seen(p) == LET o == Operands(code[p])
           IN [k \in DOMAIN o |-> Home(o[Loader(p, Loader(p, k))])]

(* The misread operands of node p.  A temporary without a definition on     *)
(* this path has no value to miss.                                          *)
Misread(p) == {o \in Temp : \E k \in DOMAIN Operands(code[p]) :
                  /\ Operands(code[p])[k] = o
                  /\ val[o] # Unknown
                  /\ Seen(p)[k] # val[o]}

(* Everything node p writes; junk is what a callee leaves behind.           *)
Execute(p, junk) ==
  LET n == code[p]
      o == Operands(n)
      loads == {k \in DOMAIN o : LoadedInto(p, k) # NoReg}
      lost == {LoadedInto(p, k) : k \in loads} \cup Scratch(n) \cup junk
      home == IF Defines(n) THEN assigned[n.dst] ELSE NoReg
  IN /\ wrong' = Misread(p)
     /\ clock' = IF Defines(n) THEN clock + 1 ELSE clock
     /\ val' = [t \in Temp |-> IF Defines(n) /\ t = n.dst THEN clock' ELSE val[t]]
     /\ slot' = [t \in Temp |-> IF Defines(n) /\ t = n.dst /\ home = NoReg THEN clock'
                                ELSE slot[t]]
     /\ reg' = [r \in Registers |->
                  IF r = home THEN clock'
                  ELSE IF r \in Scratch(n) \cup junk THEN Unknown
                  ELSE IF \E k \in loads : LoadedInto(p, k) = r
                  THEN Seen(p)[CHOOSE k \in loads : LoadedInto(p, k) = r]
                  ELSE reg[r]]
     /\ scratched' = (scratched \cup {t \in Temp : assigned[t] \in lost})
                       \ (IF Defines(n) THEN {n.dst} ELSE {})
     /\ looped' = looped \ (IF Defines(n) THEN {n.dst} ELSE {})
-----------------------------------------------------------------------------
ExecInit == /\ Init
            /\ ip = 1
            /\ clock = Caller
            /\ val = [t \in Temp |-> Unknown]
            /\ slot = [t \in Temp |-> Unknown]
            /\ reg = [r \in Registers |-> IF r \in CalleeSaved THEN Caller ELSE Unknown]
            /\ scratched = {} /\ looped = {} /\ wrong = {}

(* Code is emitted once the allocator is done.                              *)
Allocate == Next /\ UNCHANGED execVars

At(ops) == pc = "done" /\ ip \in DOMAIN code /\ code[ip].op \in ops /\ clock < MaxClock

(* Straight code; the caller-saved registers are free for a callee only.    *)
Step == /\ At(Op \ {"call", "br_if"})
        /\ Execute(ip, {})
        /\ ip' = ip + 1
        /\ UNCHANGED vars

(* IR_CALL pushes nothing, so the callee may leave anything in any register *)
(* that is not callee-saved; its result comes back in %rax or %xmm0.        *)
Call == /\ At({"call"})
        /\ \E junk \in SUBSET (used \ CalleeSaved) : Execute(ip, junk)
        /\ ip' = ip + 1
        /\ UNCHANGED vars

(* IR_BR_IF: which way is up to the data.                                   *)
FallThrough == /\ At({"br_if"})
               /\ Execute(ip, {})
               /\ ip' = ip + 1
               /\ UNCHANGED vars

Jump == /\ At({"br_if"})
        /\ wrong' = Misread(ip)
        /\ ip' = code[ip].goto
        /\ looped' = IF code[ip].goto <= ip THEN Temp ELSE looped
        /\ clock' = clock + 1     \* so that the bound ends every loop
        /\ UNCHANGED <<vars, val, reg, slot, scratched>>

(* Mutant: the epilogue does not leave the function and is run again.       *)
Return_Again == /\ pc = "done" /\ ip > Len(code)
                /\ ip' = ip + 1
                /\ reg' = [r \in Registers |-> IF r \in CalleeSaved \cap used THEN Caller ELSE reg[r]]
                /\ wrong' = {}
                /\ UNCHANGED <<vars, clock, val, slot, scratched, looped>>

(* The epilogue restores the callee-saved registers marked in used[].       *)
Return == /\ pc = "done" /\ ip = Len(code) + 1
          /\ ip' = ip + 1
          /\ reg' = [r \in Registers |-> IF r \in CalleeSaved \cap used THEN Caller ELSE reg[r]]
          /\ wrong' = {}
          /\ UNCHANGED <<vars, clock, val, slot, scratched, looped>>

Returned == ip = Len(code) + 2

ExecNext == Allocate \/ Step \/ Call \/ FallThrough \/ Jump \/ Return

ExecSpec == ExecInit /\ [][ExecNext]_<<vars, execVars>>
-----------------------------------------------------------------------------
(* Type invariant of the running code.                                      *)
ExecTypeOK == /\ ip \in 1 .. Len(code) + 2
              /\ clock \in Caller .. MaxClock
              /\ val \in [Temp -> Unknown .. MaxClock]
              /\ slot \in [Temp -> Unknown .. MaxClock]
              /\ reg \in [Registers -> Unknown .. MaxClock]
              /\ scratched \subseteq Temp /\ looped \subseteq Temp /\ wrong \subseteq Temp

Current == code[ip]

(* Sharing a register between temporaries whose textual intervals are       *)
(* disjoint is right wherever control only moves forward: a node reads the  *)
(* last definition of each operand, through spilling, shared registers and  *)
(* skipped definitions.  The only misreads are of a temporary that crossed  *)
(* a back edge, that a scratch write or a callee hit, or that the node      *)
(* itself overwrote while loading another operand, and of the target of an  *)
(* indirect call.                                                           *)
OnlyKnownMisreads ==
  \A t \in wrong' : \/ t \in looped \cup scratched
                    \/ \E k \in DOMAIN Operands(Current) : \E j \in 1 .. k - 1 :
                          /\ Operands(Current)[k] = t
                          /\ LoadedInto(ip, j) = assigned[t] /\ assigned[t] \in Reg
                    \/ Current.op = "call"

MisreadsExplained == [][OnlyKnownMisreads]_<<vars, execVars>>

(* ABI: whatever path the function took, its caller finds rbx and r12..r15  *)
(* as it left them, because used[] names every register a definition wrote. *)
CalleeSavedRestored == Returned => \A r \in CalleeSaved : reg[r] = Caller
=============================================================================
