------------------------- MODULE LoweredExecProofs -------------------------
(***************************************************************************)
(* What the emitted code does, for every program, every number of colours   *)
(* and of callee-saved registers: the allocator's colouring, proved in      *)
(* RegAllocProofs, carried along an execution.                              *)
(***************************************************************************)
EXTENDS LoweredExec, RegAllocProofs

(* The code is one of the programs, the colour of a temporary is one of its *)
(* class, and used[] has every register that was assigned.                  *)
ClassInv == /\ code \in Programs
            /\ \A t \in Temp : color[t] \in Colors(t) \cup {NoColor}
            /\ \A t \in Temp : assigned[t] \in used \cup {NoReg}

DataTypes == /\ clock \in Caller .. MaxClock
             /\ val \in [Temp -> Unknown .. MaxClock]
             /\ slot \in [Temp -> Unknown .. MaxClock]
             /\ reg \in [Registers -> Unknown .. MaxClock]
             /\ scratched \subseteq Temp /\ looped \subseteq Temp /\ wrong \subseteq Temp
ExecTypes == ip \in 1 .. Len(code) + 1 /\ DataTypes

(* Nothing has been executed while the allocator runs.                      *)
Waiting == pc # "done" => /\ wrong = {} /\ \A t \in Temp : val[t] = Unknown
                          /\ \A r \in CalleeSaved : reg[r] = Caller

(* A temporary with a value was referred to before, unless control has gone *)
(* back since.                                                              *)
Behind == \A t \in Temp \ looped : val[t] # Unknown => \E p \in Refs(code, t) : p < ip

SlotsHold == \A t \in Temp : val[t] # Unknown /\ assigned[t] = NoReg => slot[t] = val[t]

(* A register keeps the value of its temporary to the end of the interval.  *)
RegsHold == \A t \in Temp \ (looped \cup scratched) :
  (val[t] # Unknown /\ assigned[t] # NoReg /\ \E p \in Refs(code, t) : p >= ip)
    => reg[assigned[t]] = val[t]

Untouched == \A r \in CalleeSaved \ used : reg[r] = Caller

RunInv == /\ IInv /\ ClassInv /\ ExecTypes
          /\ Waiting /\ Behind /\ SlotsHold /\ RegsHold /\ Untouched

(* After the epilogue nothing runs any more.                                *)
EInv == IF Returned
        THEN /\ TypeOK /\ pc = "done" /\ DataTypes /\ wrong = {} /\ \A r \in CalleeSaved : reg[r] = Caller
        ELSE RunInv
-----------------------------------------------------------------------------
(* Registers.                                                               *)
LEMMA Classes ==
  ASSUME IInv, ClassInv, NEW t \in Temp, assigned[t] # NoReg
  PROVE  /\ assigned[t] \in Registers /\ assigned[t] \in used /\ assigned[t] \in Reg
         /\ pc = "done" /\ t \in ivs
<1>1. /\ pc = "done" /\ t \in ivs /\ color[t] # NoColor
      /\ assigned[t] = [float |-> IsFloat(code, t), color |-> color[t]]
  BY DEF IInv, AssignInv
<1>2. color[t] \in Colors(t)
  BY <1>1 DEF ClassInv
<1>3. IsFloat(code, t) \in BOOLEAN
  BY DEF IsFloat
<1>4. assigned[t] \in Registers
  <2>1. CASE IsFloat(code, t)
    <3>1. FloatK \in Nat /\ color[t] \in 0 .. FloatK - 1
      BY <1>2, <2>1, RegAllocAssumption DEF Colors
    <3>2. color[t] + 1 \in 1 .. FloatK /\ (color[t] + 1) - 1 = color[t]
      BY <3>1
    <3>3. assigned[t] = Xmm(color[t] + 1)
      BY <1>1, <2>1, <3>2 DEF Xmm
    <3> QED BY <3>2, <3>3 DEF Registers
  <2>2. CASE ~IsFloat(code, t)
    <3>1. color[t] \in 0 .. GprK - 1
      BY <1>2, <2>2 DEF Colors
    <3>2. assigned[t] = Gpr(color[t])
      <4>1. IsFloat(code, t) = FALSE
        BY <1>3, <2>2
      <4> QED BY <1>1, <4>1 DEF Gpr
    <3> QED BY <3>1, <3>2 DEF Registers
  <2> QED BY <2>1, <2>2
<1>5. assigned[t] \in used
  BY DEF ClassInv
<1>6. assigned[t] \in Reg
  BY DEF IInv, TypeOK
<1> QED BY <1>1, <1>4, <1>5, <1>6

LEMMA NoRegIsNone == NoReg \notin Registers
<1>1. \A c \in 0 .. GprK - 1 : Gpr(c) \in Reg
  BY RegAllocAssumption DEF Gpr, Reg
<1>2. \A k \in 1 .. FloatK : Xmm(k) \in Reg
  BY RegAllocAssumption DEF Xmm, Reg
<1> QED BY <1>1, <1>2, RegAllocAssumption DEF Registers

(* What a node writes beside its result is never callee-saved.              *)
LEMMA LoadsAreCallerSaved ==
  ASSUME NEW p, NEW k
  PROVE  LoadedInto(p, k) \notin CalleeSaved /\ Scratch(code[p]) \cap CalleeSaved = {}
<1>1. \A r \in CalleeSaved : r # NoReg /\ \E c \in 0 .. SavedK - 1 : r = Gpr(c)
  BY NoRegIsNone DEF CalleeSaved
<1>2. \A i : Xmm(i) \notin CalleeSaved
  BY <1>1 DEF Xmm, Gpr
<1>3. R10 \notin CalleeSaved /\ R11 \notin CalleeSaved
  <2>1. \A c \in 0 .. SavedK - 1 : c # SavedK /\ c # SavedK + 1
    BY LoweredExecAssumption
  <2> QED BY <1>1, <2>1 DEF R10, R11, Gpr
<1>4. LoadedInto(p, k) = NoReg \/ LoadedInto(p, k) = R10 \/ \E i : LoadedInto(p, k) = Xmm(i)
  BY DEF LoadedInto
<1>5. \A r \in Scratch(code[p]) : r = R10 \/ r = R11 \/ r = Xmm(1)
  BY DEF Scratch
<1> QED BY <1>1, <1>2, <1>3, <1>4, <1>5

-----------------------------------------------------------------------------
(* Reads.  Every operand but the target of a call counts for the interval.  *)
LEMMA OperandsAreRefs ==
  ASSUME NEW p \in DOMAIN code, code[p].op # "call",
         NEW k \in DOMAIN Operands(code[p]), NEW t \in Temp, Operands(code[p])[k] = t
  PROVE  p \in Refs(code, t)
<1> DEFINE n == code[p]
<1>1. CASE n.op = "store"
  BY <1>1 DEF Operands, Refs, Mentions
<1>2. CASE n.op = "wide"
  BY <1>2 DEF Operands, Refs, Mentions
<1>3. CASE n.op = "fma"
  BY <1>3 DEF Operands, Refs, Mentions
<1>4. CASE n.op \notin {"store", "wide", "fma", "call"}
  BY <1>4 DEF Operands, Refs, Mentions
<1> QED BY <1>1, <1>2, <1>3, <1>4

(* An operand that no earlier one was loaded over is found where it lives.  *)
LEMMA NotLoadedOver ==
  ASSUME NEW p, NEW k \in DOMAIN Operands(code[p]),
         LET t == Operands(code[p])[k]
         IN t = NoTemp \/ assigned[t] = NoReg \/ \A j \in 1 .. k - 1 : LoadedInto(p, j) # assigned[t]
  PROVE  Seen(p)[k] = Home(Operands(code[p])[k])
<1>1. Loader(p, k) = k
  BY DEF Loader
<1> QED BY <1>1 DEF Seen

LEMMA Explained ==
  ASSUME RunInv, pc = "done", ip \in DOMAIN code, NEW t \in Misread(ip)
  PROVE  \/ t \in looped \cup scratched
         \/ \E k \in DOMAIN Operands(Current) : \E j \in 1 .. k - 1 :
               /\ Operands(Current)[k] = t
               /\ LoadedInto(ip, j) = assigned[t] /\ assigned[t] \in Reg
         \/ Current.op = "call"
<1> SUFFICES ASSUME t \notin looped \cup scratched, Current.op # "call",
                    ~ \E k \in DOMAIN Operands(Current) : \E j \in 1 .. k - 1 :
                       /\ Operands(Current)[k] = t
                       /\ LoadedInto(ip, j) = assigned[t] /\ assigned[t] \in Reg
             PROVE  FALSE
  OBVIOUS
<1> DEFINE o == Operands(code[ip])
<1>1. t \in Temp /\ t # NoTemp
  BY TempAssumption DEF Misread
<1>2. PICK k \in DOMAIN o : o[k] = t /\ val[t] # Unknown /\ Seen(ip)[k] # val[t]
  BY DEF Misread
<1>3. ip \in Refs(code, t)
  BY <1>1, <1>2, OperandsAreRefs DEF Current
<1>4. assigned[t] # NoReg => assigned[t] \in Reg
  BY <1>1 DEF RunInv, IInv, TypeOK
<1>5. Seen(ip)[k] = Home(t)
  <2>1. assigned[t] = NoReg \/ \A j \in 1 .. k - 1 : LoadedInto(ip, j) # assigned[t]
    BY <1>2, <1>4 DEF Current
  <2> QED BY <1>2, <2>1, NotLoadedOver
<1>6. CASE assigned[t] = NoReg
  <2>1. slot[t] = val[t]
    BY <1>1, <1>2, <1>6 DEF RunInv, SlotsHold
  <2> QED BY <1>1, <1>2, <1>5, <1>6, <2>1 DEF Home
<1>7. CASE assigned[t] # NoReg
  <2>1. ip >= ip
    BY DEF RunInv, ExecTypes, DataTypes
  <2>2. reg[assigned[t]] = val[t]
    BY <1>1, <1>2, <1>3, <1>7, <2>1 DEF RunInv, RegsHold
  <2> QED BY <1>1, <1>2, <1>5, <1>7, <2>2 DEF Home
<1> QED BY <1>6, <1>7

(* What is read is a number a register or slot can hold.                    *)
LEMMA SeenTypes ==
  ASSUME RunInv, NEW p \in DOMAIN code, NEW k \in DOMAIN Operands(code[p])
  PROVE  Seen(p)[k] \in Unknown .. MaxClock
<1> DEFINE o == Operands(code[p])
           j == Loader(p, Loader(p, k))
<1>1. code[p] \in Node
  BY DEF RunInv, IInv, TypeOK
<1>2. \A i \in DOMAIN o : o[i] \in Temp \cup {NoTemp}
  <2> DEFINE n == code[p]
  <2>1. n.dst \in Operand /\ n.src1 \in Operand /\ n.src2 \in Operand /\ n.label \in Operand
    BY <1>1 DEF Node
  <2> HIDE DEF n
  <2>2. \A i \in DOMAIN Operands(n) : Operands(n)[i] \in Operand
    BY <2>1 DEF Operands
  <2> QED BY <2>2 DEF Operand, n
<1>3. DOMAIN o \in {1 .. 1, 1 .. 2, 1 .. 3}
  BY DEF Operands
<1>4. \A i \in DOMAIN o : Loader(p, i) \in DOMAIN o
  <2> SUFFICES ASSUME NEW i \in DOMAIN o PROVE Loader(p, i) \in DOMAIN o
    OBVIOUS
  <2> DEFINE over == {q \in 1 .. i - 1 : /\ o[i] # NoTemp /\ assigned[o[i]] # NoReg
                                        /\ LoadedInto(p, q) = assigned[o[i]]}
  <2>1. over \subseteq 1 .. i - 1 /\ i \in 1 .. 3
    BY <1>3
  <2>2. CASE over = {}
    BY <2>2 DEF Loader
  <2>3. CASE over # {}
    <3> HIDE DEF over
    <3>1. \E q \in over : \A r \in over : r <= q
      <4>1. \A q \in over : q = 1 \/ q = 2
        BY <2>1
      <4>2. CASE 2 \in over
        BY <4>1, <4>2
      <4>3. CASE 2 \notin over
        BY <2>3, <4>1, <4>3
      <4> QED BY <4>2, <4>3
    <3>2. Loader(p, i) = CHOOSE q \in over : \A r \in over : r <= q
      BY <2>3 DEF Loader, over
    <3>3. Loader(p, i) \in 1 .. i - 1
      BY <2>1, <3>1, <3>2
    <3> QED BY <1>3, <2>1, <3>3
  <2> QED BY <2>2, <2>3
<1>5. j \in DOMAIN o
  BY <1>4
<1>6. Seen(p)[k] = Home(o[j])
  BY DEF Seen
<1>7. \A t \in Temp \cup {NoTemp} : Home(t) \in Unknown .. MaxClock
  <2> SUFFICES ASSUME NEW t \in Temp \cup {NoTemp} PROVE Home(t) \in Unknown .. MaxClock
    OBVIOUS
  <2>1. CASE t = NoTemp
    BY <2>1, LoweredExecAssumption DEF Home, Unknown
  <2>2. CASE t # NoTemp /\ assigned[t] = NoReg
    BY <2>2 DEF Home, RunInv, ExecTypes, DataTypes
  <2>3. CASE t # NoTemp /\ assigned[t] # NoReg
    BY <2>3, Classes DEF Home, RunInv, ExecTypes, DataTypes
  <2> QED BY <2>1, <2>2, <2>3
<1> QED BY <1>2, <1>5, <1>6, <1>7
-----------------------------------------------------------------------------
(* Writes.  A node that runs straight on keeps the invariant.               *)
LEMMA ExecuteStep ==
  ASSUME RunInv, pc = "done", ip \in DOMAIN code, clock < MaxClock,
         NEW junk \in SUBSET (used \ CalleeSaved), Execute(ip, junk),
         ip' = ip + 1, UNCHANGED vars
  PROVE  RunInv' /\ wrong' = Misread(ip)
<1> DEFINE n == code[ip]
           o == Operands(n)
           loads == {k \in DOMAIN o : LoadedInto(ip, k) # NoReg}
           lost == {LoadedInto(ip, k) : k \in loads} \cup Scratch(n) \cup junk
           home == IF Defines(n) THEN assigned[n.dst] ELSE NoReg
           defined == IF Defines(n) THEN {n.dst} ELSE {}
<1>1. /\ wrong' = Misread(ip)
      /\ clock' = IF Defines(n) THEN clock + 1 ELSE clock
      /\ val' = [t \in Temp |-> IF Defines(n) /\ t = n.dst THEN clock' ELSE val[t]]
      /\ slot' = [t \in Temp |-> IF Defines(n) /\ t = n.dst /\ home = NoReg THEN clock'
                                 ELSE slot[t]]
      /\ reg' = [r \in Registers |->
                   IF r = home THEN clock'
                   ELSE IF r \in Scratch(n) \cup junk THEN Unknown
                   ELSE IF \E k \in loads : LoadedInto(ip, k) = r
                   THEN Seen(ip)[CHOOSE k \in loads : LoadedInto(ip, k) = r]
                   ELSE reg[r]]
      /\ scratched' = (scratched \cup {t \in Temp : assigned[t] \in lost}) \ defined
      /\ looped' = looped \ defined
  BY DEF Execute
<1>2. /\ IInv /\ ClassInv /\ ExecTypes /\ Behind /\ SlotsHold /\ RegsHold /\ Untouched
      /\ code' = code /\ used' = used /\ assigned' = assigned /\ pc' = pc
  BY DEF RunInv, vars
<1>3. /\ ip \in Nat /\ ip' \in 1 .. Len(code) + 1 /\ Len(code) \in Nat
      /\ clock \in Nat /\ clock # Unknown /\ MaxClock \in Nat
      /\ clock' \in Nat /\ clock' # Unknown /\ clock' <= MaxClock /\ clock' >= 1
  BY <1>1, <1>2, LoweredExecAssumption DEF ExecTypes, DataTypes, Unknown, Caller, IInv, TypeOK
<1>4. Defines(n) => n.dst \in Temp /\ ip \in Refs(code, n.dst)
  BY DEF Defines, Refs, Mentions
<1>5. home # NoReg => /\ Defines(n) /\ home \in Registers /\ home \in used
                      /\ n.dst \in ivs
  BY <1>2, <1>4, Classes
<1>6. \A r \in Registers : r # home /\ r \notin lost => reg'[r] = reg[r]
  BY <1>1
<1> HIDE DEF n, o, loads, lost, home, defined
<1>7. IInv' /\ ClassInv'
  <2>1. IInv'
    BY <1>2, StepInv DEF vars
  <2>2. ClassInv'
    BY <1>2 DEF ClassInv, Colors, vars
  <2> QED BY <2>1, <2>2
<1>8. ExecTypes'
  <2>1. val' \in [Temp -> Unknown .. MaxClock] /\ slot' \in [Temp -> Unknown .. MaxClock]
    BY <1>1, <1>2, <1>3 DEF ExecTypes, DataTypes, Unknown
  <2>2. reg' \in [Registers -> Unknown .. MaxClock]
    <3> SUFFICES ASSUME NEW r \in Registers PROVE reg'[r] \in Unknown .. MaxClock
      BY <1>1
    <3>1. CASE r = home
      BY <1>1, <1>3, <3>1 DEF Unknown
    <3>2. CASE r # home /\ r \in Scratch(n) \cup junk
      BY <1>1, <1>3, <3>2 DEF Unknown
    <3>3. CASE r # home /\ r \notin Scratch(n) \cup junk /\ \E k \in loads : LoadedInto(ip, k) = r
      <4>1. PICK k : k = CHOOSE q \in loads : LoadedInto(ip, q) = r
        OBVIOUS
      <4>2. k \in loads /\ reg'[r] = Seen(ip)[k]
        BY <1>1, <3>3, <4>1
      <4>3. k \in DOMAIN Operands(code[ip])
        BY <4>2 DEF loads, o, n
      <4> QED BY <4>2, <4>3, SeenTypes
    <3>4. CASE r # home /\ r \notin Scratch(n) \cup junk /\ ~\E k \in loads : LoadedInto(ip, k) = r
      BY <1>1, <1>2, <3>4 DEF ExecTypes, DataTypes
    <3> QED BY <3>1, <3>2, <3>3, <3>4
  <2>3. clock' \in Caller .. MaxClock
    BY <1>3 DEF Caller
  <2>4. scratched' \subseteq Temp /\ looped' \subseteq Temp /\ wrong' \subseteq Temp
    BY <1>1, <1>2 DEF ExecTypes, DataTypes, Misread
  <2> QED BY <1>2, <1>3, <2>1, <2>2, <2>3, <2>4 DEF ExecTypes, DataTypes
<1>9. ASSUME NEW t \in Temp, ~(Defines(n) /\ t = n.dst)
      PROVE  /\ val'[t] = val[t] /\ slot'[t] = slot[t]
             /\ t \in looped' <=> t \in looped
             /\ t \notin scratched' => t \notin scratched /\ assigned[t] \notin lost
  BY <1>1, <1>9 DEF defined
<1>10. ASSUME NEW t \in Temp, Defines(n) /\ t = n.dst
       PROVE  /\ val'[t] = clock' /\ (assigned[t] = NoReg => slot'[t] = clock')
              /\ assigned[t] # NoReg => reg'[assigned[t]] = clock'
  <2>1. home = assigned[t]
    BY <1>10 DEF home
  <2> QED BY <1>1, <1>5, <1>10, <2>1
<1>11. Behind'
  <2> SUFFICES ASSUME NEW t \in Temp, t \notin looped', val'[t] # Unknown
               PROVE  \E p \in Refs(code, t) : p < ip + 1
    BY <1>2 DEF Behind
  <2>1. CASE Defines(n) /\ t = n.dst
    BY <1>3, <1>4, <2>1
  <2>2. CASE ~(Defines(n) /\ t = n.dst)
    <3>1. PICK p \in Refs(code, t) : p < ip
      BY <1>2, <1>9, <2>2 DEF Behind
    <3>2. p \in Nat
      BY <1>2 DEF Refs, IInv, TypeOK
    <3> QED BY <1>3, <3>1, <3>2
  <2> QED BY <2>1, <2>2
<1>12. SlotsHold'
  <2> SUFFICES ASSUME NEW t \in Temp, val'[t] # Unknown, assigned[t] = NoReg
               PROVE  slot'[t] = val'[t]
    BY <1>2 DEF SlotsHold
  <2>1. CASE Defines(n) /\ t = n.dst
    BY <1>10, <2>1
  <2>2. CASE ~(Defines(n) /\ t = n.dst)
    BY <1>2, <1>9, <2>2 DEF SlotsHold
  <2> QED BY <2>1, <2>2
<1>13. RegsHold'
  <2> SUFFICES ASSUME NEW t \in Temp, t \notin looped', t \notin scratched',
                      val'[t] # Unknown, assigned[t] # NoReg,
                      NEW q \in Refs(code, t), q >= ip + 1
               PROVE  reg'[assigned[t]] = val'[t]
    BY <1>2 DEF RegsHold
  <2>1. CASE Defines(n) /\ t = n.dst
    BY <1>10, <2>1
  <2>2. CASE ~(Defines(n) /\ t = n.dst)
    <3>1. /\ val'[t] = val[t] /\ t \notin looped /\ t \notin scratched /\ assigned[t] \notin lost
      BY <1>9, <2>2
    <3>2. q \in Nat /\ q >= ip /\ q \in DOMAIN code
      BY <1>2, <1>3 DEF Refs, IInv, TypeOK
    <3>3. reg[assigned[t]] = val[t]
      BY <1>2, <3>1, <3>2 DEF RegsHold
    <3>4. assigned[t] # home
      <4> SUFFICES ASSUME assigned[t] = home PROVE FALSE
        OBVIOUS
      <4>1. Defines(n) /\ n.dst \in ivs /\ home = assigned[n.dst] /\ t # n.dst
        BY <1>5, <2>2 DEF home
      <4>2. t \in ivs
        BY <1>2, Classes
      <4>3. PICK p \in Refs(code, t) : p < ip
        BY <1>2, <3>1 DEF Behind
      <4>4. p \in Nat
        BY <1>2 DEF Refs, IInv, TypeOK
      <4>5. InInterval(code, t, ip)
        BY <1>3, <3>2, <4>3, <4>4 DEF InInterval
      <4>6. InInterval(code, n.dst, ip)
        BY <1>3, <1>4, <4>1 DEF InInterval
      <4>7. NoInterference
        BY <1>2, InvNoInterference
      <4> QED BY <4>1, <4>2, <4>5, <4>6, <4>7 DEF NoInterference
    <3>5. assigned[t] \in Registers
      BY <1>2, Classes
    <3> QED BY <1>6, <3>1, <3>3, <3>4, <3>5
  <2> QED BY <2>1, <2>2
<1>14. Untouched'
  <2> SUFFICES ASSUME NEW r \in CalleeSaved, r \notin used PROVE reg'[r] = Caller
    BY <1>2 DEF Untouched
  <2>1. r \in Registers /\ r # NoReg
    BY NoRegIsNone DEF CalleeSaved
  <2>2. r # home
    BY <1>5, <2>1
  <2>3. r \notin lost
    <3>1. \A k \in loads : LoadedInto(ip, k) # r
      BY LoadsAreCallerSaved
    <3>2. r \notin Scratch(n)
      BY LoadsAreCallerSaved DEF n
    <3> QED BY <3>1, <3>2 DEF lost
  <2> QED BY <1>2, <1>6, <2>1, <2>2, <2>3 DEF Untouched
<1>15. Waiting'
  BY <1>2 DEF Waiting
<1> QED BY <1>1, <1>7, <1>8, <1>11, <1>12, <1>13, <1>14, <1>15 DEF RunInv
-----------------------------------------------------------------------------
(* The other steps.                                                         *)
LEMMA StartRun == ExecInit => RunInv
<1> SUFFICES ASSUME ExecInit PROVE RunInv
  OBVIOUS
<1>1. Init /\ IInv
  BY InitInv DEF ExecInit
<1>2. /\ code \in Programs /\ code \in Seq(Node) /\ Len(code) \in Nat
      /\ \A t \in Temp : val[t] = Unknown
      /\ \A r \in CalleeSaved : reg[r] = Caller
  BY <1>1, RegAllocAssumption DEF ExecInit, Init, CalleeSaved
<1>3. ClassInv
  BY <1>1, <1>2 DEF ClassInv, Init
<1>4. ExecTypes
  <2>1. Unknown \in Unknown .. MaxClock /\ Caller \in Unknown .. MaxClock
        /\ Caller \in Caller .. MaxClock /\ 1 \in 1 .. Len(code) + 1
    BY <1>2, LoweredExecAssumption DEF Unknown, Caller
  <2>2. reg \in [Registers -> Unknown .. MaxClock]
    BY <2>1 DEF ExecInit
  <2> QED BY <2>1, <2>2 DEF ExecInit, ExecTypes, DataTypes
<1> QED BY <1>1, <1>2, <1>3, <1>4
        DEF RunInv, Waiting, Behind, SlotsHold, RegsHold, Untouched, ExecInit

(* The allocator touches nothing the code has; select and assignment keep   *)
(* the classes apart.                                                       *)
LEMMA AllocateStep == RunInv /\ Allocate => RunInv' /\ wrong' = {}
<1> SUFFICES ASSUME RunInv, Allocate PROVE RunInv' /\ wrong' = {}
  OBVIOUS
<1>1. /\ pc # "done" /\ code' = code /\ Next
      /\ UNCHANGED <<ip, clock, val, reg, slot, scratched, looped, wrong>>
  BY DEF Allocate, execVars, Next, Build, ScanCopy, Simplify, PushSpillCandidate,
         StartSelect, Select, Assign
<1>2. IInv /\ ClassInv /\ ExecTypes /\ Waiting
  BY DEF RunInv
<1>3. IInv'
  BY <1>1, <1>2, StepInv
<1>4. color \in [Temp -> (0 .. GprK - 1) \cup (0 .. FloatK - 1) \cup {NoColor}]
  BY <1>2 DEF IInv, TypeOK
<1>5. \A t \in Temp : color'[t] \in Colors(t) \cup {NoColor}
  <2>1. CASE Select
    <3>1. PICK t, c : c \in Colors(t) \cup {NoColor} /\ color' = [color EXCEPT ![t] = c]
      BY <2>1 DEF Select
    <3> QED BY <1>2, <1>4, <3>1 DEF ClassInv
  <2>2. CASE ~Select
    <3>1. color' = color
      BY <1>1, <2>2 DEF Next, Build, ScanCopy, Simplify, PushSpillCandidate,
                        StartSelect, Assign
    <3> QED BY <1>2, <3>1 DEF ClassInv
  <2> QED BY <2>1, <2>2
<1>6. \A t \in Temp : assigned'[t] \in used' \cup {NoReg}
  <2>1. CASE Assign
    <3>1. /\ \A t \in Temp \ ivs : assigned'[t] = NoReg
          /\ used' = {assigned'[t] : t \in ivs} \ {NoReg}
      BY <2>1 DEF Assign
    <3> QED BY <3>1
  <2>2. CASE ~Assign
    <3>1. assigned' = assigned
      BY <1>1, <2>2 DEF Next, Build, ScanCopy, Simplify, PushSpillCandidate,
                        StartSelect, Select
    <3>2. \A t \in Temp : assigned[t] = NoReg
      BY <1>1, <1>2 DEF IInv, AssignInv
    <3> QED BY <3>1, <3>2
  <2> QED BY <2>1, <2>2
<1>7. ClassInv'
  BY <1>1, <1>2, <1>5, <1>6 DEF ClassInv, Colors
<1>8. ExecTypes' /\ Waiting' /\ Untouched'
  BY <1>1, <1>2 DEF ExecTypes, DataTypes, Waiting, Untouched
<1>9. Behind' /\ SlotsHold' /\ RegsHold'
  BY <1>1, <1>2 DEF Waiting, Behind, SlotsHold, RegsHold
<1> QED BY <1>1, <1>2, <1>3, <1>7, <1>8, <1>9 DEF RunInv, Waiting

(* Straight code and calls.                                                 *)
LEMMA AdvanceStep == RunInv /\ (Step \/ Call \/ FallThrough) => RunInv' /\ wrong' = Misread(ip)
<1> SUFFICES ASSUME RunInv, Step \/ Call \/ FallThrough
             PROVE  RunInv' /\ wrong' = Misread(ip)
  OBVIOUS
<1>1. /\ pc = "done" /\ ip \in DOMAIN code /\ clock < MaxClock
      /\ ip' = ip + 1 /\ UNCHANGED vars
  BY DEF Step, Call, FallThrough, At
<1>2. PICK junk \in SUBSET (used \ CalleeSaved) : Execute(ip, junk)
  <2>1. {} \in SUBSET (used \ CalleeSaved)
    OBVIOUS
  <2> QED BY <2>1 DEF Step, Call, FallThrough
<1> QED BY <1>1, <1>2, ExecuteStep

(* A forward jump skips references, a backward one marks every temporary.   *)
LEMMA JumpStep == RunInv /\ Jump => RunInv' /\ wrong' = Misread(ip)
<1> SUFFICES ASSUME RunInv, Jump PROVE RunInv' /\ wrong' = Misread(ip)
  OBVIOUS
<1> DEFINE to == code[ip].goto
<1>1. /\ pc = "done" /\ ip \in DOMAIN code /\ clock < MaxClock /\ code[ip].op = "br_if"
      /\ wrong' = Misread(ip) /\ ip' = to /\ clock' = clock + 1
      /\ looped' = IF to <= ip THEN Temp ELSE looped
      /\ UNCHANGED <<val, reg, slot, scratched>> /\ UNCHANGED vars
  BY DEF Jump, At
<1>2. /\ code' = code /\ used' = used /\ assigned' = assigned /\ pc' = pc
      /\ IInv /\ ClassInv /\ ExecTypes
  BY <1>1 DEF vars, RunInv
<1>3. to \in 1 .. Len(code) + 1 /\ Len(code) \in Nat /\ ip \in Nat
  BY <1>1, <1>2, BranchAssumption DEF ClassInv, IInv, TypeOK
<1> HIDE DEF to
<1>4. IInv' /\ ClassInv'
  <2>1. IInv'
    BY <1>1, <1>2, StepInv
  <2> QED BY <1>1, <1>2, <2>1 DEF ClassInv, Colors, vars
<1>5. ExecTypes'
  <2>1. clock' \in Caller .. MaxClock
    BY <1>1, <1>2, LoweredExecAssumption DEF ExecTypes, DataTypes, Caller
  <2>2. looped' \subseteq Temp /\ wrong' \subseteq Temp
    BY <1>1, <1>2 DEF ExecTypes, DataTypes, Misread
  <2> QED BY <1>1, <1>2, <1>3, <2>1, <2>2 DEF ExecTypes, DataTypes
<1>6. Waiting' /\ SlotsHold' /\ Untouched'
  BY <1>1, <1>2 DEF Waiting, SlotsHold, Untouched, RunInv
<1>7. Behind' /\ RegsHold'
  <2>1. CASE to <= ip
    BY <1>1, <2>1 DEF Behind, RegsHold
  <2>2. CASE to > ip
    <3>1. looped' = looped
      BY <1>1, <1>3, <2>2
    <3>2. \A t \in Temp : \A p \in Refs(code, t) : /\ p < ip => p < to
                                                   /\ p >= to => p >= ip
      <4>1. \A t \in Temp : \A p \in Refs(code, t) : p \in Nat
        BY <1>2 DEF Refs, IInv, TypeOK
      <4> QED BY <1>3, <2>2, <4>1
    <3>3. Behind /\ RegsHold
      BY DEF RunInv
    <3>4. Behind'
      <4> SUFFICES ASSUME NEW t \in Temp, t \notin looped, val[t] # Unknown
                   PROVE  \E p \in Refs(code, t) : p < to
        BY <1>1, <1>2, <3>1 DEF Behind
      <4>1. PICK p \in Refs(code, t) : p < ip
        BY <3>3 DEF Behind
      <4> QED BY <3>2, <4>1
    <3>5. RegsHold'
      <4> SUFFICES ASSUME NEW t \in Temp, t \notin looped, t \notin scratched,
                          val[t] # Unknown, assigned[t] # NoReg,
                          NEW q \in Refs(code, t), q >= to
                   PROVE  reg[assigned[t]] = val[t]
        BY <1>1, <1>2, <3>1 DEF RegsHold
      <4>1. q >= ip
        BY <3>2
      <4> QED BY <3>3, <4>1 DEF RegsHold
    <3> QED BY <3>4, <3>5
  <2> QED BY <1>3, <2>1, <2>2
<1> QED BY <1>1, <1>4, <1>5, <1>6, <1>7 DEF RunInv

(* A saved register is restored, any other one was never written.           *)
LEMMA ReturnStep == RunInv /\ Return => EInv' /\ wrong' = {}
<1> SUFFICES ASSUME RunInv, Return PROVE EInv' /\ wrong' = {}
  OBVIOUS
<1>1. /\ pc = "done" /\ ip' = Len(code) + 1 + 1 /\ wrong' = {}
      /\ reg' = [r \in Registers |-> IF r \in CalleeSaved \cap used THEN Caller ELSE reg[r]]
      /\ UNCHANGED <<vars, clock, val, slot, scratched, looped>>
      /\ TypeOK /\ ExecTypes /\ Untouched
  BY DEF Return, RunInv, IInv
<1>2. Caller \in Unknown .. MaxClock
  BY LoweredExecAssumption DEF Unknown, Caller
<1>3. DataTypes'
  <2>1. reg' \in [Registers -> Unknown .. MaxClock]
    BY <1>1, <1>2 DEF ExecTypes, DataTypes
  <2> QED BY <1>1, <2>1 DEF ExecTypes, DataTypes
<1>4. \A r \in CalleeSaved : reg'[r] = Caller
  BY <1>1 DEF Untouched, CalleeSaved
<1>5. Returned' /\ TypeOK' /\ pc' = "done"
  <2>1. code' = code /\ Len(code) \in Nat
    BY <1>1 DEF vars, TypeOK
  <2> QED BY <1>1, <2>1 DEF Returned, TypeOK, vars
<1> QED BY <1>1, <1>3, <1>4, <1>5 DEF EInv, CalleeSaved

LEMMA NotReturned == RunInv => ~Returned /\ EInv
BY DEF RunInv, ExecTypes, IInv, TypeOK, Returned, EInv

LEMMA AfterReturn == EInv /\ ExecNext => ~Returned
<1> SUFFICES ASSUME EInv, ExecNext, Returned PROVE FALSE
  OBVIOUS
<1>1. pc = "done" /\ Len(code) \in Nat /\ DOMAIN code = 1 .. Len(code) /\ ip = Len(code) + 2
  BY DEF EInv, Returned, TypeOK
<1>2. ~Allocate
  BY <1>1 DEF Allocate, Next, Build, ScanCopy, Simplify, PushSpillCandidate, StartSelect,
              Select, Assign
<1> QED BY <1>1, <1>2 DEF ExecNext, Step, Call, FallThrough, Jump, Return, At

LEMMA ExecStep == EInv /\ [ExecNext]_<<vars, execVars>> => EInv'
<1> SUFFICES ASSUME EInv, [ExecNext]_<<vars, execVars>> PROVE EInv'
  OBVIOUS
<1>1. CASE UNCHANGED <<vars, execVars>>
  <2>1. CASE Returned
    BY <1>1, <2>1 DEF EInv, Returned, TypeOK, DataTypes, CalleeSaved, vars, execVars
  <2>2. CASE ~Returned
    <3>1. IInv' /\ RunInv
      BY <1>1, <2>2, StepInv DEF EInv, RunInv
    <3>2. RunInv'
      BY <1>1, <3>1 DEF RunInv, ClassInv, Colors, ExecTypes, DataTypes, Waiting, Behind, SlotsHold,
                        RegsHold, Untouched, vars, execVars
    <3>3. RunInv' => EInv'
      BY NotReturned, PTL
    <3> QED BY <3>2, <3>3
  <2> QED BY <2>1, <2>2
<1>2. CASE ExecNext
  <2>1. ~Returned
    BY <1>2, AfterReturn
  <2>2. RunInv
    BY <2>1 DEF EInv
  <2>3. RunInv' => EInv'
    BY NotReturned, PTL
  <2>4. CASE Return
    BY <2>2, <2>4, ReturnStep
  <2>5. CASE Allocate \/ Step \/ Call \/ FallThrough \/ Jump
    BY <2>2, <2>3, <2>5, AllocateStep, AdvanceStep, JumpStep
  <2> QED BY <1>2, <2>4, <2>5 DEF ExecNext
<1> QED BY <1>1, <1>2

LEMMA ExecInvariant == ExecSpec => []EInv
<1>1. ExecInit => EInv
  BY StartRun, NotReturned
<1> QED BY <1>1, ExecStep, PTL DEF ExecSpec

-----------------------------------------------------------------------------
(* The type invariant of the running code, for every program.               *)
THEOREM ExecTyped == ExecSpec => []ExecTypeOK
<1>1. EInv => ExecTypeOK
  <2>1. EInv /\ Returned => ExecTypeOK
    BY DEF EInv, Returned, TypeOK, DataTypes, ExecTypeOK
  <2>2. EInv /\ ~Returned => ExecTypeOK
    BY DEF EInv, RunInv, IInv, TypeOK, ExecTypes, DataTypes, ExecTypeOK
  <2> QED BY <2>1, <2>2
<1> QED BY <1>1, ExecInvariant, PTL

(* The caller of any function finds its callee-saved registers intact.      *)
THEOREM CallerFindsItsRegisters == ExecSpec => []CalleeSavedRestored
<1>1. EInv => CalleeSavedRestored
  BY DEF EInv, CalleeSavedRestored
<1> QED BY <1>1, ExecInvariant, PTL

(* Whatever a program does, its nodes read the values the IR means, except  *)
(* in the four situations OnlyKnownMisreads names.                          *)
THEOREM ReadsAreRight == ExecSpec => MisreadsExplained
<1>1. EInv /\ [ExecNext]_<<vars, execVars>> => [OnlyKnownMisreads]_<<vars, execVars>>
  <2> SUFFICES ASSUME EInv, ExecNext, NEW t \in wrong'
               PROVE  \/ t \in looped \cup scratched
                      \/ \E k \in DOMAIN Operands(Current) : \E j \in 1 .. k - 1 :
                            /\ Operands(Current)[k] = t
                            /\ LoadedInto(ip, j) = assigned[t] /\ assigned[t] \in Reg
                      \/ Current.op = "call"
    BY DEF OnlyKnownMisreads
  <2>1. ~Returned
    BY AfterReturn
  <2>2. RunInv
    BY <2>1 DEF EInv
  <2>3. ~Allocate /\ ~Return
    BY <2>2, AllocateStep, ReturnStep
  <2>4. wrong' = Misread(ip)
    BY <2>2, <2>3, AdvanceStep, JumpStep DEF ExecNext
  <2>5. pc = "done" /\ ip \in DOMAIN code
    BY <2>3 DEF ExecNext, Step, Call, FallThrough, Jump, At
  <2> QED BY <2>2, <2>4, <2>5, Explained
<1> QED BY <1>1, ExecInvariant, PTL DEF ExecSpec, MisreadsExplained
=============================================================================
