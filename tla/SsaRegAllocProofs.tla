------------------------- MODULE SsaRegAllocProofs -------------------------
(***************************************************************************)
(* Proofs about SsaRegAlloc, for every body in SSA form and any number of   *)
(* registers: types, that registers are shared only by intervals that lie   *)
(* apart, and that the emitted code can misread only a register that was    *)
(* overwritten inside its interval, or that it left in one of two ways.     *)
(***************************************************************************)
EXTENDS SsaRegAlloc, SequenceTheorems, WellFoundedInduction, TLAPS

(* Least and greatest numbers.                                              *)
LEMMA MinFact ==
  ASSUME NEW S \in SUBSET Nat, S # {}
  PROVE  Min(S) \in S /\ \A y \in S : Min(S) <= y
<1> DEFINE R == OpToRel(<, Nat)
<1>1. IsWellFoundedOn(R, Nat)
  BY NatLessThanWellFounded
<1>2. \A x, y \in Nat : <<y, x>> \in R <=> y < x
  BY DEF OpToRel
<1> HIDE DEF R
<1>3. PICK x \in S : \A y \in S : ~ (<<y, x>> \in R)
  BY <1>1, WFMin
<1>4. \A y \in S : ~(y < x) /\ x \in Nat /\ y \in Nat
  BY <1>2, <1>3
<1>5. \E z \in S : \A y \in S : z =< y
  BY <1>4
<1> QED BY <1>5 DEF Min

LEMMA MaxFact ==
  ASSUME NEW S \in SUBSET Nat, S # {}, NEW m \in Nat, \A x \in S : x <= m
  PROVE  Max(S) \in S /\ \A y \in S : y <= Max(S)
<1> DEFINE D == {m - x : x \in S}
<1>1. D \in SUBSET Nat /\ D # {}
  <2>1. \A x \in S : x \in Nat /\ m - x \in Nat
    OBVIOUS
  <2> QED BY <2>1
<1>2. Min(D) \in D /\ \A e \in D : Min(D) <= e
  BY <1>1, MinFact
<1>3. PICK x \in S : Min(D) = m - x
  BY <1>2
<1>4. ASSUME NEW y \in S PROVE x >= y
  <2>1. Min(D) <= m - y /\ x \in Nat /\ y \in Nat
    BY <1>2
  <2> QED BY <1>3, <2>1
<1>5. \E z \in S : \A y \in S : z >= y
  BY <1>4
<1>6. Max(S) \in S /\ \A y \in S : Max(S) >= y
  BY <1>5 DEF Max
<1> QED BY <1>6

----------------------------------------------------------------------------
(* What a well-formed body gives.                                           *)
LEMMA CodeFacts ==
  ASSUME code \in Programs
  PROVE  /\ Len(code) \in Nat \ {0} /\ DOMAIN code = 1 .. Len(code)
         /\ \A p \in DOMAIN code : IsInstr(code[p])
         /\ \A p \in DOMAIN code : code[p].op \notin Terminators => p + 1 \in DOMAIN code
         /\ \A p \in DOMAIN code : code[p].op = "phi" => code[p].dst \in Vreg /\ code[p].src = {}
         /\ \A p \in DOMAIN code : code[p].from # <<>> => code[p].op = "phi"
         /\ \A p, q \in DOMAIN code : code[p].dst = code[q].dst /\ code[p].dst # NoVreg => p = q
         /\ \A p, q \in DOMAIN code : code[p].dst \in code[q].src => p < q
<1>1. WellFormed(code) /\ NoVreg \notin Vreg
  BY ProgramAssumption, SsaAssumption
<1>2. code \in Seq({code[p] : p \in DOMAIN code}) /\ code # <<>>
  BY <1>1 DEF WellFormed
<1>3. Len(code) \in Nat \ {0} /\ DOMAIN code = 1 .. Len(code)
  BY <1>2
<1>4. \A p \in DOMAIN code : IsInstr(code[p])
  BY <1>1 DEF WellFormed
<1>5. \A p \in DOMAIN code : code[p].op \notin Terminators => p + 1 \in DOMAIN code
  BY <1>1, <1>3 DEF WellFormed
<1>6. \A p \in DOMAIN code : code[p].op = "phi" => code[p].dst \in Vreg /\ code[p].src = {}
  BY <1>1 DEF WellFormed
<1>7. \A p \in DOMAIN code : code[p].from # <<>> => code[p].op = "phi"
  BY <1>1 DEF WellFormed
<1>8. \A p, q \in DOMAIN code : code[p].dst = code[q].dst /\ code[p].dst # NoVreg => p = q
  BY <1>1 DEF WellFormed
<1>9. \A p, q \in DOMAIN code : code[p].dst \in code[q].src => p < q
  BY <1>1 DEF WellFormed
<1> QED BY <1>3, <1>4, <1>5, <1>6, <1>7, <1>8, <1>9

(* The block a branch leads to has a position behind its phis, and each of  *)
(* its phis has a source for the branch.                                    *)
LEMMA TargetFacts ==
  ASSUME code \in Programs, NEW p \in DOMAIN code, NEW b \in code[p].to
  PROVE  /\ Block(b) # {} /\ Block(b) \in SUBSET Nat
         /\ Min(Block(b)) \in Block(b) /\ \A q \in Block(b) : Min(Block(b)) <= q
         /\ Landing(b) \in Block(b) \ Phis(b)
         /\ \A f \in Phis(b) : f < Landing(b)
         /\ \A f \in Phis(b) : code[f].from[code[p].block] \in Vreg /\ code[f].dst \in Vreg
<1>1. WellFormed(code)
  BY ProgramAssumption
<1>2. Len(code) \in Nat \ {0} /\ DOMAIN code = 1 .. Len(code)
  BY CodeFacts
<1>3. \E e \in DOMAIN code : code[e].block = b
  BY <1>1 DEF WellFormed
<1>4. Block(b) # {} /\ Block(b) \in SUBSET Nat /\ \A q \in Block(b) : q <= Len(code)
  BY <1>2, <1>3 DEF Block
<1>5. Min(Block(b)) \in Block(b) /\ \A q \in Block(b) : Min(Block(b)) <= q
  BY <1>4, MinFact
<1>6. Max(Block(b)) \in Block(b) /\ \A q \in Block(b) : q <= Max(Block(b))
  BY <1>2, <1>4, MaxFact
<1>7. Max(Block(b)) \notin Phis(b)
  <2>1. SUFFICES ASSUME Max(Block(b)) \in Phis(b) PROVE FALSE
    OBVIOUS
  <2> DEFINE l == Max(Block(b))
  <2>2. l \in DOMAIN code /\ code[l].op \notin Terminators /\ code[l].block = b
    BY <2>1, <1>6 DEF Phis, Block, Terminators
  <2>3. l + 1 \in DOMAIN code
    BY <2>2, CodeFacts
  <2>4. code[l + 1].block = b
    <3>1. l \in 1 .. Len(code) - 1
      BY <2>2, <2>3, <1>2
    <3> QED BY <3>1, <2>2, <1>1 DEF WellFormed
  <2>5. l + 1 \in Block(b)
    BY <2>3, <2>4 DEF Block
  <2>6. l + 1 <= l /\ l \in Nat
    BY <2>5, <1>4, <1>6
  <2> QED BY <2>6
<1>8. Landing(b) \in Block(b) \ Phis(b) /\ \A q \in Block(b) \ Phis(b) : Landing(b) <= q
  <2>1. Block(b) \ Phis(b) \in SUBSET Nat /\ Block(b) \ Phis(b) # {}
    BY <1>4, <1>6, <1>7
  <2> QED BY <2>1, MinFact DEF Landing
<1>9. \A f \in Phis(b) : code[f].from[code[p].block] \in Vreg /\ code[f].dst \in Vreg
  <2>1. TAKE f \in Phis(b)
  <2>2. f \in DOMAIN code /\ code[f].op = "phi" /\ code[f].block = b
    BY DEF Phis, Block
  <2>3. code[p].block \in DOMAIN code[f].from
    BY <2>2, <1>1 DEF WellFormed
  <2>4. code[f].from \in [DOMAIN code[f].from -> Vreg]
    BY <2>2, CodeFacts DEF IsInstr
  <2> QED BY <2>2, <2>3, <2>4, CodeFacts
<1>10. \A f \in Phis(b) : f < Landing(b)
  <2>1. TAKE f \in Phis(b)
  <2>2. f \in DOMAIN code /\ code[f].op = "phi" /\ code[f].block = b
    BY DEF Phis, Block
  <2>3. Landing(b) \in DOMAIN code /\ code[Landing(b)].op # "phi" /\ code[Landing(b)].block = b
    BY <1>8 DEF Phis, Block
  <2>4. ~(Landing(b) < f)
    BY <2>2, <2>3, <1>1 DEF WellFormed
  <2> QED BY <2>2, <2>3, <2>4, <1>2
<1> QED BY <1>4, <1>5, <1>8, <1>9, <1>10

----------------------------------------------------------------------------
(* The inductive invariant, part by part.  Up to the widening the three     *)
(* arrays hold definitions and uses.                                        *)
NumInv ==
  /\ phase \in {"phi", "loop", "widen"} =>
       \A v \in Vreg : /\ def_seq[v] = Last(DefPos(v)) /\ first_use[v] = First(Uses(v))
                       /\ last_use[v] \in {Last(Uses(v)), Len(code)}
  /\ phase \in {"number", "phi", "loop", "widen", "search"} => phys_reg = [v \in Vreg |-> NoReg]

(* From then on an interval contains the register's definition, and begins  *)
(* there or at a phi.                                                       *)
Early == {"number", "phi", "loop", "widen"}
IntervalInv ==
  phase \notin Early =>
    /\ \A p \in DOMAIN code : code[p].dst \in Vreg =>
         Start(code[p].dst) <= p /\ p <= Stop(code[p].dst)
    /\ \A v \in Vreg, p \in DOMAIN code : Start(v) = p => code[p].dst = v \/ code[p].op = "phi"

Coloured(v) == phys_reg[v] # NoReg

(* Colouring leaves the visited in order, linear scan works by start.       *)
ScanInv ==
  /\ \A v \in Vreg : Coloured(v) => v \in Candidates
  /\ \A i \in DOMAIN peo : peo[i] \in Candidates
  /\ phase \in Early => peo = <<>>
  /\ phase # "scan" => waiting = {}
  /\ phase \notin {"scan", "run", "done"} => active = {}
  /\ phase = "give_up" => phys_reg = [v \in Vreg |-> NoReg]
  /\ phase = "scan" =>
       /\ waiting \subseteq Candidates
       /\ \A v \in active : v \notin waiting
       /\ \A v \in Vreg : Coloured(v) => v \notin waiting
       /\ \A v \in Vreg, w \in waiting : Coloured(v) /\ v \notin active => Stop(v) < Start(w)
       /\ \A v \in active, w \in waiting : Start(v) <= Start(w)
       /\ \A v \in active : Coloured(v)

(* A register neither left nor overwritten holds its value.                 *)
RunInv ==
  /\ phase \notin {"run", "done"} => left = Vreg
  /\ phase = "run" => \A u \in Vreg \ left : /\ Start(u) <= pos /\ pos <= Stop(u)
                                             /\ u \notin hit => Home(u) = val[u]

SInv == /\ code \in Programs /\ SsaTypeOK /\ NumInv /\ IntervalInv /\ ScanInv
        /\ IntervalsApart /\ RunInv

----------------------------------------------------------------------------
LEMMA EndsFact ==
  ASSUME code \in Programs, NEW S \in SUBSET DOMAIN code
  PROVE  /\ Last(S) \in None .. Len(code) /\ First(S) \in None .. Len(code)
         /\ S = {} => Last(S) = None /\ First(S) = None
         /\ S # {} => /\ Last(S) \in S /\ First(S) \in S
                      /\ \A q \in S : First(S) <= q /\ q <= Last(S)
<1>1. Len(code) \in Nat \ {0} /\ DOMAIN code = 1 .. Len(code)
  BY CodeFacts
<1>2. S \in SUBSET Nat /\ \A q \in S : q <= Len(code)
  BY <1>1
<1>3. CASE S = {}
  BY <1>1, <1>3 DEF First, Last, None
<1>4. CASE S # {}
  <2>1. Min(S) \in S /\ \A q \in S : Min(S) <= q
    BY <1>2, <1>4, MinFact
  <2>2. Max(S) \in S /\ \A q \in S : q <= Max(S)
    BY <1>1, <1>2, <1>4, MaxFact
  <2>3. First(S) = Min(S) /\ Last(S) = Max(S)
    BY <1>4 DEF First, Last
  <2> QED BY <1>1, <1>4, <2>1, <2>2, <2>3 DEF None
<1> QED BY <1>3, <1>4

LEMMA InitStep == Init => SInv
<1> SUFFICES ASSUME Init PROVE SInv
  OBVIOUS
<1> USE DEF Init
<1>1. code \in Programs /\ Len(code) \in Nat \ {0} /\ DOMAIN code = 1 .. Len(code)
  BY CodeFacts
<1>2. def_seq = [v \in Vreg |-> None] /\ None \in None .. Len(code)
  BY <1>1 DEF None
<1>3. SsaTypeOK
  <2>1. peo \in Seq(Vreg) /\ MaxClock \in Nat /\ 0 \in Garbage .. MaxClock
    BY SsaAssumption DEF Garbage
  <2> QED BY <1>1, <1>2, <2>1 DEF SsaTypeOK, Garbage
<1>4. \A v \in Vreg : ~ Coloured(v)
  BY DEF Coloured
<1>5. ScanInv
  BY <1>4 DEF ScanInv, Early
<1>6. IntervalsApart
  BY DEF IntervalsApart
<1> QED BY <1>1, <1>3, <1>5, <1>6 DEF SInv, NumInv, IntervalInv, RunInv, Early

(* Before the search nothing is coloured and nothing executes.              *)
LEMMA EarlyRest ==
  ASSUME SInv, phase \in Early, phase' \notin {"give_up", "scan", "run", "done"},
         UNCHANGED <<code, peo, waiting, active, phys_reg, execVars>>
  PROVE  ScanInv' /\ IntervalsApart' /\ RunInv'
<1>1. phys_reg = [v \in Vreg |-> NoReg] /\ peo = <<>> /\ waiting = {} /\ active = {} /\ left = Vreg
  BY DEF SInv, NumInv, ScanInv, RunInv, Early
<1>2. \A v \in Vreg : phys_reg'[v] = NoReg
  BY <1>1
<1>3. ScanInv'
  BY <1>1, <1>2 DEF ScanInv, Coloured
<1>4. IntervalsApart'
  BY <1>2 DEF IntervalsApart
<1>5. RunInv'
  BY <1>1 DEF RunInv, execVars
<1> QED BY <1>3, <1>4, <1>5

LEMMA NumberStep == SInv /\ Number /\ UNCHANGED execVars => SInv'
<1> SUFFICES ASSUME SInv, Number, UNCHANGED execVars PROVE SInv'
  OBVIOUS
<1> USE DEF Number
<1>1. code \in Programs /\ SsaTypeOK /\ Len(code) \in Nat
  BY CodeFacts DEF SInv
<1>2. \A v \in Vreg : DefPos(v) \in SUBSET DOMAIN code /\ Uses(v) \in SUBSET DOMAIN code
  BY DEF DefPos, Uses
<1>3. \A v \in Vreg : /\ Last(DefPos(v)) \in None .. Len(code) /\ Last(Uses(v)) \in None .. Len(code)
                      /\ First(Uses(v)) \in None .. Len(code)
  BY <1>1, <1>2, EndsFact
<1>4. SsaTypeOK'
  BY <1>1, <1>3 DEF SsaTypeOK, execVars
<1>5. phys_reg = [v \in Vreg |-> NoReg]
  BY DEF SInv, NumInv
<1>6. \A v \in Vreg : DefPos(v)' = DefPos(v) /\ Uses(v)' = Uses(v)
  BY DEF DefPos, Uses
<1>7. NumInv'
  BY <1>5, <1>6 DEF NumInv
<1>8. ScanInv' /\ IntervalsApart' /\ RunInv'
  BY EarlyRest DEF Early
<1> QED BY <1>1, <1>4, <1>7, <1>8 DEF SInv, IntervalInv, Early

LEMMA KeepForPhiStep == SInv /\ KeepForPhi /\ UNCHANGED execVars => SInv'
<1> SUFFICES ASSUME SInv, KeepForPhi, UNCHANGED execVars PROVE SInv'
  OBVIOUS
<1> USE DEF KeepForPhi
<1>1. code \in Programs /\ SsaTypeOK /\ Len(code) \in Nat
  BY CodeFacts DEF SInv
<1>2. Len(code) \in None .. Len(code)
  BY <1>1 DEF None
<1>3. \A v \in Vreg : last_use'[v] \in {last_use[v], Len(code)}
  OBVIOUS
<1>4. SsaTypeOK'
  BY <1>1, <1>2 DEF SsaTypeOK, execVars
<1>5. \A v \in Vreg : DefPos(v)' = DefPos(v) /\ Uses(v)' = Uses(v)
  BY DEF DefPos, Uses
<1>6. NumInv'
  BY <1>3, <1>5 DEF SInv, NumInv
<1>7. ScanInv' /\ IntervalsApart' /\ RunInv'
  BY EarlyRest DEF Early
<1> QED BY <1>1, <1>4, <1>6, <1>7 DEF SInv, IntervalInv, Early

LEMMA KeepForLoopsStep == SInv /\ KeepForLoops /\ UNCHANGED execVars => SInv'
<1> SUFFICES ASSUME SInv, KeepForLoops, UNCHANGED execVars PROVE SInv'
  OBVIOUS
<1> USE DEF KeepForLoops
<1>1. code \in Programs /\ SsaTypeOK /\ Len(code) \in Nat
  BY CodeFacts DEF SInv
<1>2. Len(code) \in None .. Len(code)
  BY <1>1 DEF None
<1>3. \A v \in Vreg : last_use'[v] \in {last_use[v], Len(code)}
  OBVIOUS
<1>4. SsaTypeOK'
  BY <1>1, <1>2 DEF SsaTypeOK, execVars
<1>5. \A v \in Vreg : DefPos(v)' = DefPos(v) /\ Uses(v)' = Uses(v)
  BY DEF DefPos, Uses
<1>6. NumInv'
  BY <1>3, <1>5 DEF SInv, NumInv
<1>7. ScanInv' /\ IntervalsApart' /\ RunInv'
  BY EarlyRest DEF Early
<1> QED BY <1>1, <1>4, <1>6, <1>7 DEF SInv, IntervalInv, Early

LEMMA WidenStep == SInv /\ Widen /\ UNCHANGED execVars => SInv'
<1> SUFFICES ASSUME SInv, Widen, UNCHANGED execVars PROVE SInv'
  OBVIOUS
<1> DEFINE last(v)  == def_seq[v] # None /\ last_use[v] # None /\ last_use[v] < def_seq[v]
           first(v) == def_seq[v] # None /\ first_use[v] # None /\ first_use[v] < def_seq[v]
<1>1. /\ phase = "widen" /\ phase' \in {"search", "give_up"}
      /\ def_seq' = [v \in Vreg |-> IF last(v) THEN last_use[v]
                                    ELSE IF first(v) THEN first_use[v] ELSE def_seq[v]]
      /\ last_use' = [v \in Vreg |-> IF last(v) \/ first(v) THEN Len(code) ELSE last_use[v]]
      /\ UNCHANGED <<code, first_use, weight, peo, waiting, active, phys_reg>>
  BY DEF Widen
<1>2. code \in Programs /\ SsaTypeOK /\ Len(code) \in Nat \ {0} /\ DOMAIN code = 1 .. Len(code)
  BY CodeFacts DEF SInv
<1>3. \A v \in Vreg : def_seq[v] \in Nat /\ last_use[v] \in None .. Len(code) /\ first_use[v] \in None .. Len(code)
  BY <1>2 DEF SsaTypeOK, None
<1>4. SsaTypeOK'
  <2>1. Len(code) \in None .. Len(code)
    BY <1>2 DEF None
  <2>2. def_seq' \in [Vreg -> None .. Len(code)] /\ last_use' \in [Vreg -> None .. Len(code)]
    BY <1>1, <1>2, <2>1 DEF SsaTypeOK
  <2> QED BY <1>1, <1>2, <2>2 DEF SsaTypeOK, execVars
<1>5. \A v \in Vreg : /\ def_seq[v] = Last(DefPos(v)) /\ first_use[v] = First(Uses(v))
                      /\ last_use[v] \in {Last(Uses(v)), Len(code)}
  BY <1>1 DEF SInv, NumInv
<1>6. \A v \in Vreg : DefPos(v) \in SUBSET DOMAIN code /\ Uses(v) \in SUBSET DOMAIN code
  BY DEF DefPos, Uses
<1>7. ASSUME NEW p \in DOMAIN code, NEW v \in Vreg, code[p].dst = v
      PROVE  def_seq[v] = p
  <2>1. p \in DefPos(v) /\ \A q \in DefPos(v) : q = p
    BY <1>2, <1>7, CodeFacts, SsaAssumption DEF DefPos
  <2>2. Last(DefPos(v)) \in DefPos(v)
    BY <1>2, <1>6, <2>1, EndsFact
  <2> QED BY <1>5, <2>1, <2>2
(* A use in front of the definition is a phi's.                             *)
<1>8. ASSUME NEW v \in Vreg, NEW q \in Uses(v), q < def_seq[v]
      PROVE  code[q].op = "phi"
  <2>1. q \in DOMAIN code /\ v \in Reads(code[q])
    BY DEF Uses
  <2>2. DefPos(v) # {}
    <3>1. SUFFICES ASSUME DefPos(v) = {} PROVE FALSE
      OBVIOUS
    <3>2. def_seq[v] = 0
      BY <3>1, <1>2, <1>5, <1>6, EndsFact DEF None
    <3> QED BY <3>2, <2>1, <1>2, <1>8
  <2>3. def_seq[v] \in DOMAIN code /\ code[def_seq[v]].dst = v
    BY <2>2, <1>2, <1>5, <1>6, EndsFact DEF DefPos
  <2>4. v \notin code[q].src
    <3>1. SUFFICES ASSUME v \in code[q].src PROVE FALSE
      OBVIOUS
    <3>2. def_seq[v] < q
      BY <3>1, <2>1, <2>3, <1>2, CodeFacts
    <3> QED BY <3>2, <2>1, <1>2, <1>3, <1>8
  <2>5. DOMAIN code[q].from # {}
    BY <2>1, <2>4 DEF Reads
  <2>6. code[q].from # <<>>
    BY <2>5
  <2> QED BY <2>1, <2>6, <1>2, CodeFacts
<1>9. ASSUME NEW v \in Vreg, last_use[v] # None, last_use[v] < Len(code)
      PROVE  last_use[v] \in Uses(v)
  <2>1. last_use[v] = Last(Uses(v))
    BY <1>2, <1>3, <1>5, <1>9
  <2>2. Uses(v) # {}
    BY <1>2, <1>6, <1>9, <2>1, EndsFact
  <2> QED BY <1>2, <1>6, <2>1, <2>2, EndsFact
<1>10. ASSUME NEW v \in Vreg, first_use[v] # None
       PROVE  first_use[v] \in Uses(v)
  <2>1. Uses(v) # {}
    BY <1>2, <1>5, <1>6, <1>10, EndsFact
  <2> QED BY <1>2, <1>5, <1>6, <2>1, EndsFact
<1>11. \A v \in Vreg : def_seq[v] \in None .. Len(code)
  BY <1>2 DEF SsaTypeOK
<1>12. ASSUME NEW p \in DOMAIN code, code[p].dst \in Vreg
       PROVE  Start(code[p].dst)' <= p /\ p <= Stop(code[p].dst)'
  <2> DEFINE v == code[p].dst
  <2>1. def_seq[v] = p /\ p \in 1 .. Len(code) /\ last_use[v] \in Nat /\ first_use[v] \in Nat
    BY <1>2, <1>3, <1>7, <1>12 DEF None
  <2>2. def_seq'[v] = (IF last(v) THEN last_use[v] ELSE IF first(v) THEN first_use[v] ELSE def_seq[v])
        /\ last_use'[v] = (IF last(v) \/ first(v) THEN Len(code) ELSE last_use[v])
    BY <1>1, <1>12
  <2>3. def_seq'[v] <= p
    BY <2>1, <2>2
  <2>4. last_use'[v] # None => p <= last_use'[v]
    BY <2>1, <2>2, <1>2 DEF None
  <2>5. last_use'[v] = None => def_seq'[v] = p
    BY <2>1, <2>2, <1>2 DEF None
  <2>6. Start(v)' = def_seq'[v] /\ Stop(v)' = (IF last_use'[v] # None THEN last_use'[v] ELSE def_seq'[v])
    BY <1>1 DEF Start, Stop
  <2> QED BY <2>1, <2>3, <2>4, <2>5, <2>6
<1>13. ASSUME NEW v \in Vreg, NEW p \in DOMAIN code, Start(v)' = p
       PROVE  code[p].dst = v \/ code[p].op = "phi"
  <2>1. def_seq'[v] = p /\ p # None
    BY <1>2, <1>13 DEF Start, None
  <2>2. CASE last(v)
    <3>1. p = last_use[v] /\ p < def_seq[v]
      BY <1>1, <2>1, <2>2
    <3>2. p < Len(code)
      BY <3>1, <1>2, <1>3, <1>11 DEF None
    <3> QED BY <3>1, <3>2, <2>2, <1>8, <1>9
  <2>3. CASE ~ last(v) /\ first(v)
    <3>1. p = first_use[v] /\ p < def_seq[v]
      BY <1>1, <2>1, <2>3
    <3> QED BY <3>1, <2>3, <1>8, <1>10
  <2>4. CASE ~ last(v) /\ ~ first(v)
    <3>1. def_seq[v] = p
      BY <1>1, <2>1, <2>4
    <3>2. DefPos(v) # {}
      BY <3>1, <2>1, <1>2, <1>5, <1>6, EndsFact
    <3>3. p \in DefPos(v)
      BY <3>1, <3>2, <1>2, <1>5, <1>6, EndsFact
    <3> QED BY <3>3 DEF DefPos
  <2> QED BY <2>2, <2>3, <2>4
<1>14. IntervalInv'
  BY <1>1, <1>12, <1>13 DEF IntervalInv
<1>15. phys_reg = [v \in Vreg |-> NoReg] /\ peo = <<>> /\ waiting = {} /\ active = {} /\ left = Vreg
  BY <1>1 DEF SInv, NumInv, ScanInv, RunInv, Early
<1>16. \A v \in Vreg : phys_reg'[v] = NoReg
  BY <1>1, <1>15
<1>17. ScanInv'
  BY <1>1, <1>15, <1>16 DEF ScanInv, Coloured
<1>18. IntervalsApart'
  BY <1>16 DEF IntervalsApart
<1>19. RunInv'
  BY <1>1, <1>15 DEF RunInv, execVars
<1>20. NumInv'
  BY <1>1, <1>15 DEF NumInv
<1> QED BY <1>1, <1>2, <1>4, <1>14, <1>17, <1>18, <1>19, <1>20 DEF SInv

----------------------------------------------------------------------------
(* From here on the intervals stand.                                        *)
LEMMA SameIntervals ==
  ASSUME SInv, phase \notin Early, UNCHANGED <<code, def_seq, last_use>>
  PROVE  /\ IntervalInv' /\ Candidates' = Candidates
         /\ \A v \in Vreg : Start(v)' = Start(v) /\ Stop(v)' = Stop(v)
         /\ \A v, w \in Vreg : Meets(v, w)' = Meets(v, w)
<1>1. \A v \in Vreg : Start(v)' = Start(v) /\ Stop(v)' = Stop(v)
  BY DEF Start, Stop
<1>2. \A v, w \in Vreg : Meets(v, w)' = Meets(v, w)
  BY <1>1 DEF Meets
<1>3. Candidates' = Candidates
  BY DEF Candidates, OnStack, DefPos
<1>4. IntervalInv
  BY DEF SInv
<1>5. IntervalInv'
  BY <1>1, <1>4 DEF IntervalInv
<1> QED BY <1>1, <1>2, <1>3, <1>5

LEMMA IntervalTypes ==
  ASSUME SInv
  PROVE  /\ \A v \in Vreg : Start(v) \in Nat /\ Stop(v) \in Nat
         /\ Candidates \subseteq Vreg /\ PhysReg \in SUBSET Nat /\ NoReg \notin PhysReg
         /\ phys_reg \in [Vreg -> PhysReg \cup {NoReg}]
<1>1. code \in Programs /\ SsaTypeOK /\ Len(code) \in Nat
  BY CodeFacts DEF SInv
<1>2. \A v \in Vreg : def_seq[v] \in Nat /\ last_use[v] \in Nat
  BY <1>1 DEF SsaTypeOK, None
<1>3. PhysReg \in SUBSET Nat /\ NoReg \notin PhysReg
  BY SsaAssumption DEF PhysReg
<1> QED BY <1>1, <1>2, <1>3 DEF Start, Stop, Candidates, SsaTypeOK

LEMMA VisitStep == ASSUME SInv, NEW v \in Vreg, Visit(v), UNCHANGED execVars PROVE SInv'
<1> USE DEF Visit
<1>1. code \in Programs /\ SsaTypeOK
  BY DEF SInv
<1>2. IntervalInv' /\ Candidates' = Candidates /\ \A x, y \in Vreg : Meets(x, y)' = Meets(x, y)
  BY SameIntervals DEF Early
<1>3. SsaTypeOK'
  <2>1. weight' \in [Vreg -> Nat] /\ peo' \in Seq(Vreg)
    BY <1>1 DEF SsaTypeOK
  <2> QED BY <1>1, <2>1 DEF SsaTypeOK, execVars
<1>4. phys_reg = [x \in Vreg |-> NoReg] /\ waiting = {} /\ active = {} /\ left = Vreg
  BY DEF SInv, NumInv, ScanInv, RunInv
<1>5. \A i \in DOMAIN peo' : peo'[i] \in Candidates
  <2>1. v \in Candidates /\ \A i \in DOMAIN peo : peo[i] \in Candidates
    BY DEF SInv, ScanInv, Unvisited
  <2>2. peo \in Seq(Vreg)
    BY <1>1 DEF SsaTypeOK
  <2>3. TAKE i \in DOMAIN peo'
  <2>4. DOMAIN peo' = 1 .. Len(peo) + 1 /\ DOMAIN peo = 1 .. Len(peo) /\ Len(peo) \in Nat
    BY <2>2
  <2>5. peo'[i] = IF i = Len(peo) + 1 THEN v ELSE peo[i]
    BY <2>2, <2>4
  <2> QED BY <2>1, <2>4, <2>5
<1>6. ScanInv'
  BY <1>2, <1>4, <1>5 DEF ScanInv, Coloured, Early
<1>7. IntervalsApart' /\ NumInv' /\ RunInv'
  BY <1>4 DEF IntervalsApart, NumInv, RunInv, Early, execVars
<1> QED BY <1>1, <1>2, <1>3, <1>6, <1>7 DEF SInv

LEMMA EndSearchStep == SInv /\ EndSearch /\ UNCHANGED execVars => SInv'
<1> SUFFICES ASSUME SInv, EndSearch, UNCHANGED execVars PROVE SInv'
  OBVIOUS
<1> USE DEF EndSearch
<1>1. code \in Programs /\ SsaTypeOK
  BY DEF SInv
<1>2. IntervalInv' /\ Candidates' = Candidates /\ \A x, y \in Vreg : Meets(x, y)' = Meets(x, y)
  BY SameIntervals DEF Early
<1>3. SsaTypeOK'
  BY <1>1 DEF SsaTypeOK, execVars
<1>4. phys_reg = [x \in Vreg |-> NoReg] /\ waiting = {} /\ active = {} /\ left = Vreg
      /\ \A i \in DOMAIN peo : peo[i] \in Candidates
  BY DEF SInv, NumInv, ScanInv, RunInv
<1>5. ScanInv'
  BY <1>2, <1>4 DEF ScanInv, Coloured, Early
<1>6. IntervalsApart' /\ NumInv' /\ RunInv'
  BY <1>4 DEF IntervalsApart, NumInv, RunInv, Early, execVars
<1> QED BY <1>1, <1>2, <1>3, <1>5, <1>6 DEF SInv

LEMMA ColorStep == SInv /\ Color /\ UNCHANGED execVars => SInv'
<1> SUFFICES ASSUME SInv, Color, UNCHANGED execVars PROVE SInv'
  OBVIOUS
<1> DEFINE v == peo[Len(peo)]
           free == PhysReg \ Taken(v)
<1>1. /\ phase = "color" /\ peo # <<>>
      /\ UNCHANGED <<code, def_seq, last_use, first_use, weight, waiting, active>>
  BY DEF Color
<1>2. code \in Programs /\ SsaTypeOK
  BY DEF SInv
<1>3. IntervalInv' /\ Candidates' = Candidates /\ \A x, y \in Vreg : Meets(x, y)' = Meets(x, y)
  BY <1>1, SameIntervals DEF Early
<1>4. peo \in Seq(Vreg) /\ Len(peo) \in Nat \ {0} /\ DOMAIN peo = 1 .. Len(peo)
  BY <1>1, <1>2 DEF SsaTypeOK
<1>5. v \in Candidates /\ v \in Vreg
  BY <1>4 DEF SInv, ScanInv, Candidates
<1>6. /\ phys_reg \in [Vreg -> PhysReg \cup {NoReg}] /\ PhysReg \in SUBSET Nat /\ NoReg \notin PhysReg
      /\ Candidates \subseteq Vreg
  BY IntervalTypes
<1>7. waiting = {} /\ active = {} /\ left = Vreg /\ UNCHANGED execVars
  BY <1>1 DEF SInv, ScanInv, RunInv
<1>8. NumInv' /\ RunInv'
  <2>1. phase' \in {"color", "give_up"}
    BY <1>1 DEF Color
  <2> QED BY <2>1, <1>7 DEF NumInv, RunInv, execVars
<1>9. CASE free # {}
  <2>1. /\ phys_reg' = [phys_reg EXCEPT ![v] = Min(free)] /\ peo' = SubSeq(peo, 1, Len(peo) - 1)
        /\ phase' = phase
    BY <1>9 DEF Color
  <2>2. Min(free) \in free
    BY <1>6, <1>9, MinFact
  <2>3. peo' \in Seq(Vreg) /\ DOMAIN peo' = 1 .. Len(peo) - 1 /\ \A i \in 1 .. Len(peo) - 1 : peo'[i] = peo[i]
    BY <2>1, <1>4
  <2>4. SsaTypeOK'
    BY <2>1, <2>2, <2>3, <1>1, <1>2, <1>6 DEF SsaTypeOK, execVars
  <2>5. ScanInv'
    <3>1. \A x \in Vreg : Coloured(x)' => x \in Candidates
      BY <2>1, <1>5, <1>6 DEF SInv, ScanInv, Coloured
    <3>2. \A i \in DOMAIN peo' : peo'[i] \in Candidates
      BY <2>3, <1>4 DEF SInv, ScanInv
    <3> QED BY <3>1, <3>2, <2>1, <1>1, <1>3, <1>7 DEF ScanInv, Early
  <2>6. IntervalsApart'
    <3>1. SUFFICES ASSUME NEW x \in Vreg, NEW y \in Vreg, x # y, phys_reg'[x] = phys_reg'[y],
                          phys_reg'[x] # NoReg, Meets(x, y)
                   PROVE  FALSE
      BY <1>3 DEF IntervalsApart
    <3>2. \A u \in Vreg : u # v /\ phys_reg[u] # NoReg /\ Meets(u, v) => phys_reg[u] \in Taken(v)
      BY DEF Taken, SInv, ScanInv, Coloured
    <3>3. Meets(x, y) = Meets(y, x)
      BY <3>1, IntervalTypes DEF Meets
    <3>4. CASE x = v
      BY <3>1, <3>2, <3>3, <3>4, <2>1, <2>2, <1>5, <1>6
    <3>5. CASE y = v
      BY <3>1, <3>2, <3>5, <2>1, <2>2, <1>5, <1>6
    <3>6. CASE x # v /\ y # v
      <4>1. phys_reg[x] = phys_reg'[x] /\ phys_reg[y] = phys_reg'[y]
        BY <3>6, <2>1, <1>6
      <4> QED BY <3>1, <4>1 DEF SInv, IntervalsApart
    <3> QED BY <3>4, <3>5, <3>6
  <2> QED BY <2>4, <2>5, <2>6, <1>1, <1>2, <1>3, <1>8 DEF SInv
<1>10. CASE free = {}
  <2>1. phys_reg' = [w \in Vreg |-> NoReg] /\ peo' = <<>> /\ phase' = "give_up"
    BY <1>10 DEF Color
  <2>2. SsaTypeOK'
    <3>1. peo' \in Seq(Vreg)
      BY <2>1
    <3> QED BY <2>1, <3>1, <1>1, <1>2 DEF SsaTypeOK, execVars
  <2>3. ScanInv' /\ IntervalsApart'
    BY <2>1, <1>1, <1>7 DEF ScanInv, IntervalsApart, Coloured, Early
  <2> QED BY <2>2, <2>3, <1>1, <1>2, <1>3, <1>8 DEF SInv
<1> QED BY <1>9, <1>10

LEMMA GiveUpStep == SInv /\ GiveUp /\ UNCHANGED execVars => SInv'
<1> SUFFICES ASSUME SInv, GiveUp, UNCHANGED execVars PROVE SInv'
  OBVIOUS
<1> USE DEF GiveUp
<1>1. code \in Programs /\ SsaTypeOK
  BY DEF SInv
<1>2. IntervalInv' /\ Candidates' = Candidates /\ \A x, y \in Vreg : Meets(x, y)' = Meets(x, y)
  BY SameIntervals DEF Early
<1>3. SsaTypeOK'
  <2>1. phase' \in {"scan", "run"} /\ waiting' \subseteq Vreg
    BY IntervalTypes
  <2> QED BY <2>1, <1>1 DEF SsaTypeOK, execVars
<1>4. phys_reg = [x \in Vreg |-> NoReg] /\ active = {} /\ left = Vreg
      /\ \A i \in DOMAIN peo : peo[i] \in Candidates
  BY DEF SInv, ScanInv, RunInv
<1>5. \A x \in Vreg : ~ Coloured(x)'
  BY <1>4 DEF Coloured
<1>6. ScanInv'
  BY <1>2, <1>4, <1>5 DEF ScanInv, Early
<1>7. IntervalsApart' /\ NumInv' /\ RunInv'
  BY <1>4 DEF IntervalsApart, NumInv, RunInv, Early, execVars
<1> QED BY <1>1, <1>2, <1>3, <1>6, <1>7 DEF SInv

(* Linear scan: every interval that held a register and is not active any   *)
(* more ends before the one that comes in, and the active ones all contain  *)
(* its start.                                                               *)
LEMMA ScanStep == ASSUME SInv, NEW v \in Vreg, ScanNext(v), UNCHANGED execVars PROVE SInv'
<1>1. /\ phase = "scan" /\ phase' = phase /\ v \in waiting /\ waiting' = waiting \ {v}
      /\ \A w \in waiting : Before(v, w)
      /\ UNCHANGED <<code, def_seq, last_use, first_use, weight, peo>>
  BY DEF ScanNext
<1>2. code \in Programs /\ SsaTypeOK /\ IntervalsApart
  BY DEF SInv
<1>3. /\ IntervalInv' /\ Candidates' = Candidates
      /\ \A x \in Vreg : Start(x)' = Start(x) /\ Stop(x)' = Stop(x)
      /\ \A x, y \in Vreg : Meets(x, y)' = Meets(x, y)
  BY <1>1, SameIntervals DEF Early
<1>4. /\ \A x \in Vreg : Start(x) \in Nat /\ Stop(x) \in Nat
      /\ Candidates \subseteq Vreg /\ PhysReg \in SUBSET Nat /\ NoReg \notin PhysReg
      /\ phys_reg \in [Vreg -> PhysReg \cup {NoReg}]
  BY IntervalTypes
<1>5. /\ \A x \in Vreg : Coloured(x) => x \in Candidates
      /\ \A i \in DOMAIN peo : peo[i] \in Candidates
      /\ waiting \subseteq Candidates /\ active \subseteq Vreg
      /\ \A x \in active : x \notin waiting
      /\ \A x \in Vreg : Coloured(x) => x \notin waiting
      /\ \A x \in Vreg, w \in waiting : Coloured(x) /\ x \notin active => Stop(x) < Start(w)
      /\ \A x \in active, w \in waiting : Start(x) <= Start(w)
      /\ \A x \in active : Coloured(x)
  BY <1>1, <1>2 DEF SInv, ScanInv, SsaTypeOK
<1>6. \A w \in waiting : Start(v) <= Start(w)
  BY <1>1, <1>4, <1>5 DEF Before
<1>7. /\ Unexpired(v) \subseteq active
      /\ \A x \in Unexpired(v) : Stop(x) >= Start(v) /\ Start(x) <= Start(v)
  BY <1>1, <1>5 DEF Unexpired
<1>8. ~ Coloured(v) /\ v \notin active /\ phys_reg[v] = NoReg
  BY <1>1, <1>5 DEF Coloured
(* What has a register and is not among the unexpired is over.              *)
<1>9. \A x \in Vreg : Coloured(x) /\ x \notin Unexpired(v) => Stop(x) < Start(v)
  BY <1>1, <1>4, <1>5 DEF Unexpired
<1>10. NumInv' /\ RunInv'
  BY <1>1 DEF SInv, NumInv, RunInv, execVars
(* The three outcomes: v gets r, and the intervals of G lose theirs.        *)
<1> DEFINE Outcome(r, G) ==
      /\ phys_reg' = [x \in Vreg |-> IF x = v THEN r ELSE IF x \in G THEN NoReg ELSE phys_reg[x]]
      /\ active' = (Unexpired(v) \ G) \cup (IF r = NoReg THEN {} ELSE {v})
      /\ \A x \in Unexpired(v) \ G : phys_reg[x] # r
<1>11. PICK r \in PhysReg \cup {NoReg}, G \in SUBSET Unexpired(v) : Outcome(r, G)
  <2>1. CASE PhysReg \ Held(v) # {} /\ phys_reg' = [phys_reg EXCEPT ![v] = Min(PhysReg \ Held(v))]
             /\ active' = Unexpired(v) \cup {v}
    <3> DEFINE c == Min(PhysReg \ Held(v))
    <3>1. c \in PhysReg \ Held(v)
      BY <2>1, <1>4, MinFact
    <3>2. phys_reg' = [x \in Vreg |-> IF x = v THEN c ELSE IF x \in {} THEN NoReg ELSE phys_reg[x]]
      BY <2>1, <1>4
    <3>3. active' = (Unexpired(v) \ {}) \cup (IF c = NoReg THEN {} ELSE {v})
      BY <2>1, <3>1, <1>4
    <3>4. \A x \in Unexpired(v) \ {} : phys_reg[x] # c
      BY <3>1 DEF Held
    <3>5. Outcome(c, {})
      BY <3>2, <3>3, <3>4
    <3>6. c \in PhysReg \cup {NoReg} /\ {} \in SUBSET Unexpired(v)
      BY <3>1
    <3> HIDE DEF Outcome, c
    <3> QED BY <3>5, <3>6
  <2>2. ASSUME NEW w \in Victims(v), phys_reg' = [phys_reg EXCEPT ![v] = phys_reg[w], ![w] = NoReg],
               active' = (Unexpired(v) \ {w}) \cup {v}
        PROVE  \E r \in PhysReg \cup {NoReg}, G \in SUBSET Unexpired(v) : Outcome(r, G)
    <3>1. w \in Unexpired(v) /\ w \in Vreg /\ w # v /\ phys_reg[w] \in PhysReg
      BY <1>4, <1>5, <1>7, <1>8 DEF Victims, Later, Coloured
    <3>2. phys_reg' = [x \in Vreg |-> IF x = v THEN phys_reg[w] ELSE IF x \in {w} THEN NoReg ELSE phys_reg[x]]
      BY <2>2, <3>1, <1>4
    <3>3. active' = (Unexpired(v) \ {w}) \cup (IF phys_reg[w] = NoReg THEN {} ELSE {v})
      BY <2>2, <3>1, <1>4
    <3>4. \A x \in Unexpired(v) \ {w} : phys_reg[x] # phys_reg[w]
      <4>1. TAKE x \in Unexpired(v) \ {w}
      <4>2. x \in Vreg /\ Stop(x) >= Start(v) /\ Start(x) <= Start(v)
            /\ Stop(w) >= Start(v) /\ Start(w) <= Start(v)
        BY <3>1, <1>5, <1>7
      <4>3. Meets(x, w)
        BY <4>2, <3>1, <1>4 DEF Meets
      <4> QED BY <4>2, <4>3, <3>1, <1>2, <1>4 DEF IntervalsApart
    <3>5. Outcome(phys_reg[w], {w})
      BY <3>2, <3>3, <3>4
    <3> QED BY <3>1, <3>5
  <2>3. CASE active' = Unexpired(v) /\ UNCHANGED phys_reg
    <3>1. phys_reg' = [x \in Vreg |-> IF x = v THEN NoReg ELSE IF x \in {} THEN NoReg ELSE phys_reg[x]]
      BY <2>3, <1>4, <1>8
    <3>2. active' = (Unexpired(v) \ {}) \cup (IF NoReg = NoReg THEN {} ELSE {v})
      BY <2>3
    <3>3. \A x \in Unexpired(v) \ {} : phys_reg[x] # NoReg
      BY <1>5, <1>7 DEF Coloured
    <3>4. Outcome(NoReg, {}) /\ NoReg \in PhysReg \cup {NoReg} /\ {} \in SUBSET Unexpired(v)
      BY <3>1, <3>2, <3>3
    <3> HIDE DEF Outcome
    <3> QED BY <3>4
  <2> QED BY <2>1, <2>2, <2>3 DEF ScanNext
<1>12. \A x \in Vreg : Coloured(x)' <=> IF x = v THEN r # NoReg ELSE x \notin G /\ Coloured(x)
  BY <1>11 DEF Coloured
<1>13. SsaTypeOK'
  <2>1. phys_reg' \in [Vreg -> PhysReg \cup {NoReg}]
    BY <1>4, <1>11
  <2>2. active' \subseteq Vreg
    BY <1>5, <1>7, <1>11
  <2> QED BY <2>1, <2>2, <1>1, <1>2 DEF SsaTypeOK, execVars
<1>14. ScanInv'
  <2>1. \A x \in Vreg : Coloured(x)' => x \in Candidates
    BY <1>1, <1>5, <1>12
  <2>2. \A x \in active' : x \notin waiting' /\ Coloured(x)'
    <3>1. TAKE x \in active'
    <3>2. CASE x = v
      BY <3>2, <1>1, <1>7, <1>8, <1>11, <1>12
    <3>3. CASE x # v
      <4>1. x \in Unexpired(v) /\ x \notin G /\ x \in Vreg
        BY <3>3, <1>5, <1>7, <1>11
      <4> QED BY <3>3, <4>1, <1>1, <1>5, <1>7, <1>12
    <3> QED BY <3>2, <3>3
  <2>3. \A x \in Vreg : Coloured(x)' => x \notin waiting'
    BY <1>1, <1>5, <1>12
  <2>4. \A x \in Vreg, w \in waiting' : Coloured(x)' /\ x \notin active' => Stop(x) < Start(w)
    <3>1. SUFFICES ASSUME NEW x \in Vreg, NEW w \in waiting', Coloured(x)', x \notin active'
                   PROVE  Stop(x) < Start(w)
      OBVIOUS
    <3>2. x # v /\ Coloured(x) /\ x \notin G
      BY <3>1, <1>11, <1>12
    <3>3. x \notin Unexpired(v)
      BY <3>1, <3>2, <1>11
    <3>4. Stop(x) < Start(v) /\ Start(v) <= Start(w) /\ w \in Vreg
      BY <3>2, <3>3, <1>1, <1>4, <1>5, <1>6, <1>9
    <3> QED BY <3>4, <1>4
  <2>5. \A x \in active', w \in waiting' : Start(x) <= Start(w)
    BY <1>1, <1>5, <1>6, <1>7, <1>11
  <2>6. /\ waiting' \subseteq Candidates' /\ waiting' \subseteq Vreg /\ active' \subseteq Vreg
        /\ phase' = "scan" /\ peo' = peo
    BY <1>1, <1>3, <1>4, <1>5, <1>13 DEF SsaTypeOK
  <2>7. \A x \in Vreg, w \in waiting' : Coloured(x)' /\ x \notin active' => Stop(x)' < Start(w)'
    BY <2>4, <2>6, <1>3
  <2>8. \A x \in active', w \in waiting' : Start(x)' <= Start(w)'
    BY <2>5, <2>6, <1>3
  <2> QED BY <2>1, <2>2, <2>3, <2>6, <2>7, <2>8, <1>3, <1>5 DEF ScanInv, Early
<1>15. IntervalsApart'
  <2>1. SUFFICES ASSUME NEW x \in Vreg, NEW y \in Vreg, x # y, phys_reg'[x] = phys_reg'[y],
                        phys_reg'[x] # NoReg, Meets(x, y)
                 PROVE  FALSE
    BY <1>3 DEF IntervalsApart
  (* v's register is not an unexpired interval's, and the expired end before v. *)
  <2>2. \A u \in Vreg : u # v /\ u \notin G /\ phys_reg[u] = r /\ r # NoReg => ~ Meets(u, v) /\ ~ Meets(v, u)
    <3>1. SUFFICES ASSUME NEW u \in Vreg, u # v, u \notin G, phys_reg[u] = r, r # NoReg
                   PROVE  Stop(u) < Start(v)
      BY <1>4 DEF Meets
    <3>2. Coloured(u) /\ u \notin Unexpired(v)
      BY <3>1, <1>11 DEF Coloured
    <3> QED BY <3>2, <1>9
  <2>3. CASE x = v
    BY <2>1, <2>2, <2>3, <1>11
  <2>4. CASE y = v
    BY <2>1, <2>2, <2>4, <1>11
  <2>5. CASE x # v /\ y # v
    <3>1. phys_reg[x] = phys_reg'[x] /\ phys_reg[y] = phys_reg'[y]
      BY <2>1, <2>5, <1>11
    <3> QED BY <2>1, <3>1, <1>2 DEF IntervalsApart
  <2> QED BY <2>3, <2>4, <2>5
<1> QED BY <1>1, <1>2, <1>3, <1>10, <1>13, <1>14, <1>15 DEF SInv

LEMMA AllocatedStep == SInv /\ Allocated /\ UNCHANGED execVars => SInv'
<1> SUFFICES ASSUME SInv, Allocated, UNCHANGED execVars PROVE SInv'
  OBVIOUS
<1>1. /\ phase \in {"color", "scan"} /\ phase' = "run" /\ waiting = {}
      /\ UNCHANGED <<code, def_seq, last_use, first_use, weight, peo, waiting, active, phys_reg>>
  BY DEF Allocated, SInv, ScanInv
<1>2. code \in Programs /\ SsaTypeOK /\ IntervalsApart
  BY DEF SInv
<1>3. IntervalInv' /\ Candidates' = Candidates /\ \A x, y \in Vreg : Meets(x, y)' = Meets(x, y)
  BY <1>1, SameIntervals DEF Early
<1>4. SsaTypeOK'
  BY <1>1, <1>2 DEF SsaTypeOK, execVars
<1>5. \A x \in Vreg : Coloured(x)' = Coloured(x)
  BY <1>1 DEF Coloured
<1>6. ScanInv'
  BY <1>1, <1>3, <1>5 DEF SInv, ScanInv, Early
<1>7. IntervalsApart'
  BY <1>1, <1>2, <1>3 DEF IntervalsApart
<1>8. NumInv' /\ RunInv'
  BY <1>1 DEF SInv, NumInv, RunInv, Early, execVars
<1> QED BY <1>1, <1>2, <1>3, <1>4, <1>6, <1>7, <1>8 DEF SInv

----------------------------------------------------------------------------
(* The emitted code                                                         *)
LEMMA RunFrame ==
  ASSUME SInv, phase = "run", UNCHANGED allocVars
  PROVE  /\ code' \in Programs /\ NumInv' /\ IntervalInv' /\ ScanInv' /\ IntervalsApart'
         /\ \A v \in Vreg : Start(v)' = Start(v) /\ Stop(v)' = Stop(v) /\ Loc(v)' = Loc(v)
<1>1. /\ UNCHANGED <<code, phase, def_seq, last_use, first_use, weight, peo, waiting, active, phys_reg>>
      /\ code \in Programs
  BY DEF allocVars, SInv
<1>2. /\ IntervalInv' /\ Candidates' = Candidates
      /\ \A v \in Vreg : Start(v)' = Start(v) /\ Stop(v)' = Stop(v)
      /\ \A v, w \in Vreg : Meets(v, w)' = Meets(v, w)
  BY <1>1, SameIntervals DEF Early
<1>3. \A v \in Vreg : Loc(v)' = Loc(v) /\ Coloured(v)' = Coloured(v)
  BY <1>1 DEF Loc, Coloured
<1>4. IntervalsApart'
  BY <1>1, <1>2 DEF SInv, IntervalsApart
<1>5. NumInv'
  BY <1>1 DEF NumInv
<1>6. ScanInv'
  BY <1>1, <1>2, <1>3 DEF SInv, ScanInv, Early
<1> QED BY <1>1, <1>2, <1>3, <1>4, <1>5, <1>6

LEMMA LocFacts ==
  ASSUME SInv
  PROVE  /\ \A v \in Vreg : /\ Loc(v) \in Places
                            /\ phys_reg[v] \in PhysReg => Loc(v) = phys_reg[v]
                            /\ Loc(v) \in PhysReg => phys_reg[v] = Loc(v)
         /\ \A u, w \in Vreg : u # w /\ Meets(u, w) => Loc(u) # Loc(w)
         /\ Scratch \in Places /\ CallerSaved \subseteq PhysReg /\ PhysReg \subseteq Places
<1>1. /\ Vreg \subseteq Nat \ {0} /\ N_PHYS_REGS \in Nat \ {0} /\ NoReg \notin PhysReg
      /\ CallerSaved \subseteq PhysReg /\ Scratch \in PhysReg
  BY SsaAssumption
<1>2. phys_reg \in [Vreg -> PhysReg \cup {NoReg}] /\ IntervalsApart
  BY IntervalTypes DEF SInv
<1>3. \A v \in Vreg : N_PHYS_REGS + v \notin PhysReg
  BY <1>1 DEF PhysReg
<1>4. \A v \in Vreg : Loc(v) = (IF phys_reg[v] = NoReg THEN N_PHYS_REGS + v ELSE phys_reg[v])
  BY DEF Loc
<1>5. ASSUME NEW u \in Vreg, NEW w \in Vreg, u # w, Meets(u, w), Loc(u) = Loc(w)
      PROVE  FALSE
  <2>1. CASE phys_reg[u] = NoReg /\ phys_reg[w] = NoReg
    BY <1>1, <1>4, <1>5, <2>1
  <2>2. CASE phys_reg[u] # NoReg /\ phys_reg[w] = NoReg
    BY <1>2, <1>3, <1>4, <1>5, <2>2
  <2>3. CASE phys_reg[u] = NoReg /\ phys_reg[w] # NoReg
    BY <1>2, <1>3, <1>4, <1>5, <2>3
  <2>4. CASE phys_reg[u] # NoReg /\ phys_reg[w] # NoReg
    BY <1>2, <1>4, <1>5, <2>4 DEF IntervalsApart
  <2> QED BY <2>1, <2>2, <2>3, <2>4
<1>6. \A v \in Vreg : Loc(v) \in Places
  BY <1>2, <1>4 DEF Places
<1>7. \A v \in Vreg : /\ phys_reg[v] \in PhysReg => Loc(v) = phys_reg[v]
                      /\ Loc(v) \in PhysReg => phys_reg[v] = Loc(v)
  BY <1>1, <1>2, <1>3, <1>4
<1> QED BY <1>1, <1>5, <1>6, <1>7 DEF Places

(* Two intervals that contain one position meet.                            *)
LEMMA MeetAt ==
  ASSUME SInv, NEW u \in Vreg, NEW w \in Vreg, NEW p \in Nat,
         Start(u) <= p, p <= Stop(u), Start(w) <= p, p <= Stop(w)
  PROVE  Meets(u, w)
BY IntervalTypes DEF Meets

(* One node forward: what it defines goes home, all else stays.             *)
LEMMA StepKeeps ==
  ASSUME SInv, phase = "run", code[pos].op \notin Terminators,
         NEW m \in [Places -> Garbage .. MaxClock], Step(m), UNCHANGED allocVars,
         NEW H \in SUBSET Vreg, hit' = (hit \cup H) \ {code[pos].dst},
         \A u \in Vreg \ H : m[Loc(u)] = mem[Loc(u)]
  PROVE  SInv'
<1> DEFINE d == code[pos].dst
<1>1. code \in Programs /\ SsaTypeOK /\ RunInv /\ IntervalInv /\ MaxClock \in Nat
  BY SsaAssumption DEF SInv
<1>2. /\ pos \in DOMAIN code /\ pos \in Nat /\ pos + 1 \in DOMAIN code /\ d \in Vreg \cup {NoVreg}
      /\ NoVreg \notin Vreg
  BY <1>1, CodeFacts, SsaAssumption DEF SsaTypeOK, IsInstr
<1>3. pos' = pos + 1 /\ left' = (left \ {d}) \cup Outside(pos + 1)
  BY DEF Step
<1>4. /\ UNCHANGED <<code, phase, def_seq, last_use, first_use, weight, peo, waiting, active, phys_reg>>
      /\ code' \in Programs /\ NumInv' /\ IntervalInv' /\ ScanInv' /\ IntervalsApart'
      /\ \A v \in Vreg : Start(v)' = Start(v) /\ Stop(v)' = Stop(v) /\ Loc(v)' = Loc(v)
  BY RunFrame DEF allocVars
<1>5. \A v \in Vreg : Loc(v) \in Places
  BY LocFacts
<1>6. CASE d = NoVreg
  <2>1. mem' = m /\ UNCHANGED <<clock, val>>
    BY <1>6 DEF Step
  <2>2. SsaTypeOK'
    BY <1>1, <1>2, <1>3, <1>4, <2>1 DEF SsaTypeOK, Outside
  <2>3. RunInv'
    <3>1. SUFFICES ASSUME NEW u \in Vreg \ left'
                   PROVE  /\ Start(u) <= pos + 1 /\ pos + 1 <= Stop(u)
                          /\ u \notin hit' => Home(u)' = val'[u]
      BY <1>3, <1>4 DEF RunInv
    <3>2. u \notin left /\ u \notin Outside(pos + 1)
      BY <3>1, <1>2, <1>3, <1>6
    <3>3. u \notin hit' => u \notin hit /\ u \notin H
      BY <3>1, <1>2, <1>6
    <3>4. Home(u)' = m[Loc(u)]
      BY <2>1, <1>4 DEF Home
    <3> QED BY <3>1, <3>2, <3>3, <3>4, <2>1, <1>1 DEF RunInv, Outside, Home
  <2> QED BY <2>2, <2>3, <1>4 DEF SInv
<1>7. CASE d \in Vreg
  <2>1. /\ clock < MaxClock /\ clock' = clock + 1 /\ val' = [val EXCEPT ![d] = clock']
        /\ mem' = [m EXCEPT ![Loc(d)] = clock']
    BY <1>2, <1>7 DEF Step
  <2>2. clock' \in Garbage .. MaxClock /\ clock' \in 0 .. MaxClock
    BY <2>1, <1>1 DEF SsaTypeOK, Garbage
  <2>3. SsaTypeOK'
    BY <1>1, <1>2, <1>3, <1>4, <2>1, <2>2 DEF SsaTypeOK, Outside
  <2>4. Start(d) <= pos /\ pos <= Stop(d)
    BY <1>1, <1>2, <1>7 DEF IntervalInv, Early
  <2>5. RunInv'
    <3>1. SUFFICES ASSUME NEW u \in Vreg \ left'
                   PROVE  /\ Start(u) <= pos + 1 /\ pos + 1 <= Stop(u)
                          /\ u \notin hit' => Home(u)' = val'[u]
      BY <1>3, <1>4 DEF RunInv
    <3>2. Start(u) <= pos + 1 /\ pos + 1 <= Stop(u)
      BY <3>1, <1>3 DEF Outside
    <3>3. Home(u)' = mem'[Loc(u)]
      BY <1>4 DEF Home
    <3>4. CASE u = d
      <4>1. mem'[Loc(u)] = clock' /\ val'[u] = clock'
        BY <3>4, <2>1, <1>1, <1>5, <1>7 DEF SsaTypeOK
      <4> QED BY <4>1, <3>2, <3>3
    <3>5. CASE u # d /\ u \notin hit'
      <4>1. u \notin left /\ u \notin hit /\ u \notin H
        BY <3>1, <3>5, <1>3
      <4>2. Start(u) <= pos /\ pos <= Stop(u) /\ Home(u) = val[u]
        BY <3>1, <4>1, <1>1 DEF RunInv
      <4>3. Loc(u) # Loc(d)
        BY <4>2, <2>4, <3>5, <1>2, <1>7, MeetAt, LocFacts
      <4>4. mem'[Loc(u)] = m[Loc(u)] /\ val'[u] = val[u]
        BY <4>3, <3>5, <2>1, <1>1, <1>5 DEF SsaTypeOK
      <4> QED BY <3>2, <3>3, <4>1, <4>2, <4>4 DEF Home
    <3> QED BY <3>2, <3>4, <3>5
  <2> QED BY <2>3, <2>5, <1>4 DEF SInv
<1> QED BY <1>2, <1>6, <1>7

LEMMA ComputeStep == SInv /\ Compute => SInv'
<1> SUFFICES ASSUME SInv, Compute PROVE SInv'
  OBVIOUS
<1>1. /\ phase = "run" /\ code[pos].op \notin Terminators /\ Step(mem) /\ UNCHANGED allocVars
      /\ hit' = (hit \cup {}) \ {code[pos].dst}
  BY DEF Compute, At, Terminators
<1>2. mem \in [Places -> Garbage .. MaxClock]
  BY DEF SInv, SsaTypeOK
<1> DEFINE H == {}
<1>3. H \in SUBSET Vreg /\ hit' = (hit \cup H) \ {code[pos].dst}
  BY <1>1
<1>4. \A u \in Vreg \ H : mem[Loc(u)] = mem[Loc(u)]
  OBVIOUS
<1> HIDE DEF H
<1> QED BY <1>1, <1>2, <1>3, <1>4, StepKeeps

LEMMA CompareFloatStep == SInv /\ CompareFloat => SInv'
<1> SUFFICES ASSUME SInv, CompareFloat PROVE SInv'
  OBVIOUS
<1> DEFINE m == [mem EXCEPT ![Scratch] = Garbage]
<1>1. /\ phase = "run" /\ code[pos].op \notin Terminators /\ Step(m) /\ UNCHANGED allocVars
      /\ hit' = (hit \cup InScratch) \ {code[pos].dst}
  BY DEF CompareFloat, At, Terminators
<1>2. mem \in [Places -> Garbage .. MaxClock] /\ MaxClock \in Nat
  BY SsaAssumption DEF SInv, SsaTypeOK
<1>3. Garbage \in Garbage .. MaxClock
  BY <1>2 DEF Garbage
<1>4. m \in [Places -> Garbage .. MaxClock]
  BY <1>2, <1>3
<1>5. \A u \in Vreg \ InScratch : m[Loc(u)] = mem[Loc(u)]
  <2>1. TAKE u \in Vreg \ InScratch
  <2>2. Loc(u) # Scratch /\ Loc(u) \in Places
    BY LocFacts, SsaAssumption DEF InScratch
  <2> QED BY <2>2, <1>2
<1>6. InScratch \in SUBSET Vreg
  BY DEF InScratch
<1> HIDE DEF m
<1> QED BY <1>1, <1>4, <1>5, <1>6, StepKeeps

(* A register whose interval spans a call is saved around it if the callee  *)
(* may change it.                                                           *)
LEMMA CallStep == SInv /\ Call => SInv'
<1> SUFFICES ASSUME SInv, Call PROVE SInv'
  OBVIOUS
<1> DEFINE d == code[pos].dst
           result == IF d = NoVreg THEN Garbage ELSE clock + 1
<1>1. /\ phase = "run" /\ code[pos].op = "call" /\ UNCHANGED allocVars
      /\ d # NoVreg => clock < MaxClock
      /\ pos' = pos + 1
      /\ clock' = IF d = NoVreg THEN clock ELSE clock + 1
      /\ val' = [v \in Vreg |-> IF v = d THEN result ELSE val[v]]
      /\ mem' = [l \in Places |-> IF l \in Saved THEN mem[l]
                                  ELSE IF d # NoVreg /\ l = Loc(d) THEN result
                                  ELSE IF l \in CallerSaved THEN Garbage ELSE mem[l]]
      /\ left' = (left \ {d}) \cup Outside(pos + 1)
      /\ hit' = (hit \ {d}) \cup LostResult
  BY DEF Call, At
<1>2. code \in Programs /\ SsaTypeOK /\ RunInv /\ IntervalInv /\ MaxClock \in Nat
  BY SsaAssumption DEF SInv
<1>3. /\ pos \in DOMAIN code /\ pos \in Nat /\ pos + 1 \in DOMAIN code /\ d \in Vreg \cup {NoVreg}
      /\ NoVreg \notin Vreg
  <2>1. NoVreg \notin Vreg /\ pos \in DOMAIN code
    BY <1>1, <1>2, SsaAssumption DEF SsaTypeOK
  <2>2. pos \in Nat /\ IsInstr(code[pos])
    BY <1>2, <2>1, CodeFacts
  <2>3. d \in Vreg \cup {NoVreg}
    BY <2>2 DEF IsInstr
  <2>4. pos + 1 \in DOMAIN code
    BY <1>1, <1>2, <2>1, CodeFacts DEF Terminators
  <2> QED BY <2>1, <2>2, <2>3, <2>4
<1>4. /\ UNCHANGED <<code, phase, def_seq, last_use, first_use, weight, peo, waiting, active, phys_reg>>
      /\ code' \in Programs /\ NumInv' /\ IntervalInv' /\ ScanInv' /\ IntervalsApart'
      /\ \A v \in Vreg : Start(v)' = Start(v) /\ Stop(v)' = Stop(v) /\ Loc(v)' = Loc(v)
  BY <1>1, RunFrame DEF allocVars
<1>5. clock \in 0 .. MaxClock /\ clock' \in 0 .. MaxClock
  BY <1>1, <1>2 DEF SsaTypeOK
<1>6. result \in Garbage .. MaxClock /\ Garbage \in Garbage .. MaxClock
  BY <1>1, <1>2, <1>5 DEF Garbage
<1>7. val \in [Vreg -> Garbage .. MaxClock] /\ mem \in [Places -> Garbage .. MaxClock]
  BY <1>2 DEF SsaTypeOK
<1>8. val' \in [Vreg -> Garbage .. MaxClock] /\ mem' \in [Places -> Garbage .. MaxClock]
  <2> HIDE DEF result
  <2> QED BY <1>1, <1>6, <1>7
<1>9. left' \subseteq Vreg /\ hit' \subseteq Vreg
  BY <1>1, <1>2 DEF SsaTypeOK, Outside, LostResult
<1>10. SsaTypeOK'
  BY <1>1, <1>2, <1>3, <1>4, <1>5, <1>8, <1>9 DEF SsaTypeOK
<1>11. ASSUME NEW u \in Vreg \ left'
       PROVE  /\ Start(u) <= pos + 1 /\ pos + 1 <= Stop(u)
              /\ u \notin hit' => mem'[Loc(u)] = val'[u]
  <2>1. Start(u) <= pos + 1 /\ pos + 1 <= Stop(u) /\ Loc(u) \in Places
    BY <1>1, <1>11, LocFacts DEF Outside
  <2>2. CASE u = d
    <3>1. d \in Vreg /\ d # NoVreg /\ val'[u] = result
      BY <2>2, <1>1, <1>3
    <3>2. u \notin hit' => Loc(u) \notin Saved
      <4>1. Saved \subseteq PhysReg
        BY LocFacts DEF Saved
      <4> QED BY <4>1, <2>2, <3>1, <1>1, LocFacts DEF LostResult
    <3> QED BY <2>1, <2>2, <3>1, <3>2, <1>1
  <2>3. CASE u # d /\ u \notin hit'
    <3>1. u \notin left /\ u \notin hit
      BY <2>3, <1>1, <1>11
    <3>2. Start(u) <= pos /\ pos <= Stop(u) /\ mem[Loc(u)] = val[u] /\ val'[u] = val[u]
      BY <2>3, <3>1, <1>1, <1>2 DEF RunInv, Home
    <3>3. d # NoVreg => Loc(u) # Loc(d)
      <4>1. SUFFICES ASSUME d \in Vreg PROVE Loc(u) # Loc(d)
        BY <1>3
      <4>2. Start(d) <= pos /\ pos <= Stop(d)
        BY <4>1, <1>1, <1>2, <1>3 DEF IntervalInv, Early
      <4>3. Meets(u, d)
        BY <4>1, <4>2, <3>2, <1>3, MeetAt
      <4> QED BY <4>1, <4>3, <2>3, LocFacts
    <3>4. Start(u) < pos
      <4>1. Start(u) # pos
        BY <2>3, <1>1, <1>2, <1>3 DEF IntervalInv, Early
      <4> QED BY <4>1, <3>2, <1>3, IntervalTypes
    <3>5. Loc(u) \in CallerSaved => Loc(u) \in Saved
      <4>1. SUFFICES ASSUME Loc(u) \in CallerSaved PROVE Loc(u) \in Saved
        OBVIOUS
      <4>2. phys_reg[u] = Loc(u)
        BY <4>1, LocFacts
      <4>3. def_seq[u] < pos /\ last_use[u] > pos
        BY <2>1, <3>4, <1>3, IntervalTypes DEF Start, Stop
      <4> QED BY <4>1, <4>2, <4>3 DEF Saved
    <3> QED BY <2>1, <3>2, <3>3, <3>5, <1>1
  <2> QED BY <2>1, <2>2, <2>3
<1>12. RunInv'
  BY <1>1, <1>4, <1>11 DEF RunInv, Home
<1> QED BY <1>4, <1>10, <1>12 DEF SInv

(* Along an edge the phis of the target take their sources; what lives on   *)
(* into the target shares a place with none of them.                        *)
LEMMA JumpStep == ASSUME SInv, NEW b \in Blocks, Jump(b) PROVE SInv'
<1> DEFINE arrives(f) == Home(code[f].from[code[pos].block])
<1>1. /\ phase = "run" /\ b \in code[pos].to /\ UNCHANGED allocVars /\ clock' = clock
      /\ pos' = Landing(b)
      /\ val' = [v \in Vreg |-> IF v \in PhiDsts(b)
                                THEN arrives(CHOOSE f \in Phis(b) : code[f].dst = v) ELSE val[v]]
      /\ mem' = [l \in Places |-> IF Targets(l, b) # {} THEN arrives(Min(Targets(l, b))) ELSE mem[l]]
      /\ left' = ((left \cup Outside(Min(Block(b)))) \ PhiDsts(b)) \cup Outside(Landing(b))
      /\ hit' = (hit \ PhiDsts(b)) \cup PoppedOver(b)
  BY DEF Jump, At
<1>2. code \in Programs /\ SsaTypeOK /\ RunInv /\ IntervalInv
  BY DEF SInv
<1>3. pos \in DOMAIN code /\ DOMAIN code = 1 .. Len(code) /\ Len(code) \in Nat
  BY <1>2, CodeFacts DEF SsaTypeOK
<1>4. /\ Block(b) \in SUBSET Nat /\ Min(Block(b)) \in Block(b)
      /\ \A q \in Block(b) : Min(Block(b)) <= q
      /\ Landing(b) \in Block(b) /\ Landing(b) \in DOMAIN code
      /\ \A f \in Phis(b) : f < Landing(b)
      /\ \A f \in Phis(b) : code[f].from[code[pos].block] \in Vreg /\ code[f].dst \in Vreg
  BY <1>1, <1>2, <1>3, TargetFacts DEF Block
<1>5. /\ UNCHANGED <<code, phase, def_seq, last_use, first_use, weight, peo, waiting, active, phys_reg>>
      /\ code' \in Programs /\ NumInv' /\ IntervalInv' /\ ScanInv' /\ IntervalsApart'
      /\ \A v \in Vreg : Start(v)' = Start(v) /\ Stop(v)' = Stop(v) /\ Loc(v)' = Loc(v)
  BY <1>1, RunFrame DEF allocVars
<1>6. Phis(b) \in SUBSET DOMAIN code /\ Phis(b) \in SUBSET Nat /\ Phis(b) \subseteq Block(b)
  BY <1>3 DEF Phis, Block
<1>7. val \in [Vreg -> Garbage .. MaxClock] /\ mem \in [Places -> Garbage .. MaxClock]
  BY <1>2 DEF SsaTypeOK
<1>8. \A f \in Phis(b) : arrives(f) \in Garbage .. MaxClock
  BY <1>4, <1>7, LocFacts DEF Home
<1>9. \A v \in PhiDsts(b) : /\ (CHOOSE f \in Phis(b) : code[f].dst = v) \in Phis(b)
                            /\ code[CHOOSE f \in Phis(b) : code[f].dst = v].dst = v
  BY DEF PhiDsts
<1>10. \A l \in Places : Targets(l, b) # {} => /\ Min(Targets(l, b)) \in Targets(l, b)
                                               /\ \A y \in Targets(l, b) : Min(Targets(l, b)) <= y
  <2>1. \A l \in Places : Targets(l, b) \in SUBSET Nat
    BY <1>6 DEF Targets
  <2> QED BY <2>1, MinFact
<1>11. SsaTypeOK'
  <2> DEFINE source(v) == CHOOSE f \in Phis(b) : code[f].dst = v
  <2>1. \A v \in PhiDsts(b) : arrives(source(v)) \in Garbage .. MaxClock
    BY <1>8, <1>9
  <2>2. \A l \in Places : Targets(l, b) # {} => arrives(Min(Targets(l, b))) \in Garbage .. MaxClock
    BY <1>8, <1>10 DEF Targets
  <2> HIDE DEF source, arrives
  <2>3. val' = [v \in Vreg |-> IF v \in PhiDsts(b) THEN arrives(source(v)) ELSE val[v]]
    BY <1>1 DEF source
  <2>4. val' \in [Vreg -> Garbage .. MaxClock]
    BY <2>1, <2>3, <1>7
  <2>5. mem' \in [Places -> Garbage .. MaxClock]
    BY <2>2, <1>1, <1>7
  <2>6. left' \subseteq Vreg /\ hit' \subseteq Vreg
    BY <1>1, <1>2, <1>4 DEF SsaTypeOK, Outside, PoppedOver
  <2> QED BY <2>4, <2>5, <2>6, <1>1, <1>2, <1>4, <1>5 DEF SsaTypeOK
<1>12. ASSUME NEW u \in Vreg \ left'
       PROVE  /\ Start(u) <= Landing(b) /\ Landing(b) <= Stop(u)
              /\ u \notin hit' => mem'[Loc(u)] = val'[u]
  <2>1. Start(u) <= Landing(b) /\ Landing(b) <= Stop(u) /\ Loc(u) \in Places
    BY <1>1, <1>12, LocFacts DEF Outside
  <2>2. CASE u \notin PhiDsts(b) /\ u \notin hit'
    <3>1. u \notin left /\ u \notin hit /\ Start(u) <= Min(Block(b))
      BY <2>2, <1>1, <1>12 DEF Outside
    <3>2. mem[Loc(u)] = val[u]
      BY <3>1, <1>1, <1>2 DEF RunInv, Home
    <3>3. ASSUME NEW f \in Phis(b) PROVE Loc(code[f].dst) # Loc(u)
      <4>1. code[f].dst \in Vreg /\ f \in DOMAIN code /\ f \in Nat /\ f <= Landing(b) /\ Min(Block(b)) <= f
            /\ Min(Block(b)) \in Nat /\ Landing(b) \in Nat
        BY <1>4, <1>6
      <4>2. Start(code[f].dst) <= f /\ f <= Stop(code[f].dst)
        BY <4>1, <1>1, <1>2 DEF IntervalInv, Early
      <4>3. Start(u) <= f /\ f <= Stop(u)
        BY <2>1, <3>1, <4>1, IntervalTypes
      <4>4. Meets(code[f].dst, u) /\ code[f].dst # u
        BY <2>2, <4>1, <4>2, <4>3, MeetAt DEF PhiDsts
      <4> QED BY <4>1, <4>4, LocFacts
    <3>4. Targets(Loc(u), b) = {}
      BY <3>3 DEF Targets
    <3> QED BY <2>1, <2>2, <3>2, <3>4, <1>1
  <2>3. CASE u \in PhiDsts(b) /\ u \notin hit'
    <3>1. PICK f \in Phis(b) : code[f].dst = u
      BY <2>3 DEF PhiDsts
    <3>2. \A g \in Phis(b) : code[g].dst = u => g = f
      BY <3>1, <1>2, <1>6, CodeFacts, SsaAssumption
    <3>3. (CHOOSE g \in Phis(b) : code[g].dst = u) = f
      BY <3>1, <3>2
    <3>4. f \in Targets(Loc(u), b)
      BY <3>1 DEF Targets
    <3>5. \A e \in Targets(Loc(u), b) : ~(e < f)
      BY <2>3, <3>1, <1>1 DEF PoppedOver
    <3>6. Min(Targets(Loc(u), b)) = f
      <4>1. /\ Min(Targets(Loc(u), b)) \in Targets(Loc(u), b)
            /\ Min(Targets(Loc(u), b)) <= f
        BY <2>1, <3>4, <1>10
      <4>2. Min(Targets(Loc(u), b)) \in Nat /\ f \in Nat
        BY <4>1, <3>4, <1>6 DEF Targets
      <4> QED BY <4>1, <4>2, <3>5
    <3> HIDE DEF arrives
    <3>7. val'[u] = arrives(f)
      BY <2>3, <3>3, <1>1
    <3>8. mem'[Loc(u)] = arrives(f)
      BY <2>1, <3>4, <3>6, <1>1
    <3> QED BY <2>1, <3>7, <3>8
  <2> QED BY <2>1, <2>2, <2>3
<1>13. RunInv'
  <2>1. phase' = "run" /\ pos' = Landing(b)
    BY <1>1, <1>5
  <2>2. ASSUME NEW u \in Vreg \ left'
        PROVE  Start(u)' <= pos' /\ pos' <= Stop(u)' /\ (u \notin hit' => Home(u)' = val'[u])
    <3>1. Start(u)' = Start(u) /\ Stop(u)' = Stop(u) /\ Home(u)' = mem'[Loc(u)]
      BY <1>5 DEF Home
    <3> QED BY <1>12, <2>1, <3>1
  <2> QED BY <2>1, <2>2 DEF RunInv
<1> QED BY <1>5, <1>11, <1>13 DEF SInv

LEMMA ReturnStep == SInv /\ Return => SInv'
<1> SUFFICES ASSUME SInv, Return PROVE SInv'
  OBVIOUS
<1>1. /\ phase = "run" /\ phase' = "done"
      /\ UNCHANGED <<code, def_seq, last_use, first_use, weight, peo, waiting, active, phys_reg, execVars>>
  BY DEF Return, At
<1>2. code \in Programs /\ SsaTypeOK /\ IntervalsApart
  BY DEF SInv
<1>3. IntervalInv' /\ Candidates' = Candidates /\ \A x, y \in Vreg : Meets(x, y)' = Meets(x, y)
  BY <1>1, SameIntervals DEF Early
<1>4. SsaTypeOK'
  BY <1>1, <1>2 DEF SsaTypeOK, execVars
<1>5. \A x \in Vreg : Coloured(x)' = Coloured(x)
  BY <1>1 DEF Coloured
<1>6. ScanInv'
  BY <1>1, <1>3, <1>5 DEF SInv, ScanInv, Early
<1>7. IntervalsApart'
  BY <1>1, <1>2, <1>3 DEF IntervalsApart
<1>8. NumInv' /\ RunInv'
  BY <1>1 DEF SInv, NumInv, RunInv, Early, execVars
<1> QED BY <1>1, <1>2, <1>3, <1>4, <1>6, <1>7, <1>8 DEF SInv

LEMMA StutterStep == SInv /\ UNCHANGED vars => SInv'
<1> SUFFICES ASSUME SInv, UNCHANGED vars PROVE SInv'
  OBVIOUS
<1> USE DEF vars, allocVars, execVars
<1>1. SsaTypeOK'
  BY DEF SInv, SsaTypeOK
<1>2. NumInv' /\ IntervalInv'
  BY DEF SInv, NumInv, IntervalInv, DefPos, Uses, Start, Stop
<1>3. ScanInv'
  BY DEF SInv, ScanInv, Coloured, Candidates, OnStack, DefPos, Start, Stop
<1>4. IntervalsApart'
  BY DEF SInv, IntervalsApart, Meets, Start, Stop
<1>5. RunInv'
  BY DEF SInv, RunInv, Home, Loc, Start, Stop
<1> QED BY <1>1, <1>2, <1>3, <1>4, <1>5 DEF SInv

----------------------------------------------------------------------------
LEMMA Invariance == Spec => []SInv
<1>1. Init => SInv
  BY InitStep
<1>2. SInv /\ [Next]_vars => SInv'
  <2>1. SUFFICES ASSUME SInv, [Next]_vars PROVE SInv'
    OBVIOUS
  <2>2. CASE Number /\ UNCHANGED execVars
    BY <2>1, <2>2, NumberStep
  <2>3. CASE KeepForPhi /\ UNCHANGED execVars
    BY <2>1, <2>3, KeepForPhiStep
  <2>4. CASE KeepForLoops /\ UNCHANGED execVars
    BY <2>1, <2>4, KeepForLoopsStep
  <2>5. CASE Widen /\ UNCHANGED execVars
    BY <2>1, <2>5, WidenStep
  <2>6. ASSUME NEW v \in Vreg, Visit(v), UNCHANGED execVars PROVE SInv'
    BY <2>1, <2>6, VisitStep
  <2>7. CASE EndSearch /\ UNCHANGED execVars
    BY <2>1, <2>7, EndSearchStep
  <2>8. CASE Color /\ UNCHANGED execVars
    BY <2>1, <2>8, ColorStep
  <2>9. CASE GiveUp /\ UNCHANGED execVars
    BY <2>1, <2>9, GiveUpStep
  <2>10. ASSUME NEW v \in Vreg, ScanNext(v), UNCHANGED execVars PROVE SInv'
    BY <2>1, <2>10, ScanStep
  <2>11. CASE Allocated /\ UNCHANGED execVars
    BY <2>1, <2>11, AllocatedStep
  <2>12. CASE Compute
    BY <2>1, <2>12, ComputeStep
  <2>13. CASE CompareFloat
    BY <2>1, <2>13, CompareFloatStep
  <2>14. CASE Call
    BY <2>1, <2>14, CallStep
  <2>15. ASSUME NEW b \in Blocks, Jump(b) PROVE SInv'
    BY <2>1, <2>15, JumpStep
  <2>16. CASE Return
    BY <2>1, <2>16, ReturnStep
  <2>17. CASE UNCHANGED vars
    BY <2>1, <2>17, StutterStep
  <2> QED BY <2>1, <2>2, <2>3, <2>4, <2>5, <2>6, <2>7, <2>8, <2>9, <2>10, <2>11, <2>12, <2>13,
             <2>14, <2>15, <2>16, <2>17 DEF Next, Allocate, Execute
<1> QED BY <1>1, <1>2, PTL DEF Spec

----------------------------------------------------------------------------
(* What execution leaves behind.  Paths are counted in blocks: a block is   *)
(* reached without passing b if every set that holds the first block and    *)
(* each successor but b holds it.                                           *)
Avoiding(b) ==
  {S \in SUBSET (Blocks \ {b}) :
     /\ code[1].block \in S \cup {b}
     /\ \A p \in DOMAIN code : code[p].block \in S => code[p].to \subseteq S \cup {b}}

(* Position p comes before the definition at d on some path.                *)
NotYet(d, p) == \/ code[p].block = code[d].block /\ p <= d /\ code[d].op # "phi"
                \/ \A S \in Avoiding(code[d].block) : code[p].block \in S

(* The interval ends before the branch from the block of p to itself.       *)
RoundAgain(v, p) == /\ code[p].block \in Preds(code[p].block)
                    /\ \E t \in Block(code[p].block) : p <= t /\ Stop(v) < t

(* Why a register may be left at p.                                         *)
Lost(v, p) == \A d \in DefPos(v) : NotYet(d, p) \/ Stop(v) < p \/ RoundAgain(v, p)

LeftInv == /\ phase \notin {"run", "done"} => pos = 1
           /\ phase = "run" => \A v \in left : Lost(v, pos)

(* An interval contains every use; it goes on to the end of the code if a   *)
(* use precedes the definition, or if it reaches a loop it was defined      *)
(* before.                                                                  *)
Extended(d, e) ==
  \A b \in Blocks : LoopHeader(b) /\ d < First(Block(b)) /\ First(Block(b)) <= e => e = Len(code)

StopInv ==
  /\ phase = "widen" => \A v \in Vreg : \A d \in DefPos(v) : Extended(d, last_use[v])
  /\ phase \notin Early => \A v \in Vreg : \A d \in DefPos(v) :
       /\ Extended(d, Stop(v))
       /\ \A u \in Uses(v) : u <= Stop(v) /\ (u < d => Stop(v) = Len(code))

LInv == SInv /\ StopInv /\ LeftInv

(* Blocks stand in the order of their numbers, each ended by a terminator.  *)
LEMMA BlockOrder ==
  ASSUME code \in Programs
  PROVE  /\ Blocks \subseteq Nat
         /\ \A p, q \in DOMAIN code : p < q => code[p].block <= code[q].block
         /\ \A p, q \in DOMAIN code : p < q /\ code[p].op \in Terminators => code[p].block < code[q].block
<1>1. WellFormed(code)
  BY ProgramAssumption
<1>2. Len(code) \in Nat /\ DOMAIN code = 1 .. Len(code) /\ \A p \in DOMAIN code : code[p].block \in Nat
  BY CodeFacts DEF IsInstr
<1>3. \A p \in 1 .. Len(code) - 1 : IF code[p].op \in Terminators
                                    THEN code[p + 1].block > code[p].block
                                    ELSE code[p + 1].block = code[p].block
  BY <1>1 DEF WellFormed
<1>4. ASSUME NEW p \in DOMAIN code, NEW q \in DOMAIN code, p < q
      PROVE  code[p].block <= code[q].block
  <2> DEFINE S == {r \in DOMAIN code : p < r /\ code[r].block < code[p].block}
  <2>1. SUFFICES ASSUME ~(code[p].block <= code[q].block) PROVE FALSE
    OBVIOUS
  <2>2. S \in SUBSET Nat /\ S # {}
    <3>1. q \in S
      BY <2>1, <1>2, <1>4
    <3> QED BY <3>1, <1>2
  <2>3. PICK r \in S : \A y \in S : r <= y
    BY <2>2, MinFact
  <2>4. r \in 1 .. Len(code) /\ p \in 1 .. Len(code) /\ p < r /\ code[r].block < code[p].block
    BY <1>2, <2>3
  <2>5. r - 1 \in 1 .. Len(code) - 1 /\ r - 1 \in DOMAIN code /\ r - 1 \notin S
    BY <1>2, <2>3, <2>4
  <2>6. code[r].block >= code[r - 1].block /\ code[r].block \in Nat /\ code[r - 1].block \in Nat
        /\ code[p].block \in Nat
    <3>1. (r - 1) + 1 = r
      BY <2>4
    <3> QED BY <3>1, <1>2, <1>3, <2>4, <2>5
  <2>7. CASE p < r - 1
    BY <2>4, <2>5, <2>6, <2>7
  <2>8. CASE p = r - 1
    BY <2>4, <2>6, <2>8
  <2> QED BY <2>4, <2>7, <2>8
<1>5. ASSUME NEW p \in DOMAIN code, NEW q \in DOMAIN code, p < q, code[p].op \in Terminators
      PROVE  code[p].block < code[q].block
  <2>1. p \in 1 .. Len(code) - 1 /\ p + 1 \in DOMAIN code /\ p \in Nat /\ q \in Nat
    BY <1>2, <1>5
  <2>2. code[p].block < code[p + 1].block
    BY <1>3, <1>5, <2>1
  <2>3. code[p + 1].block <= code[q].block
    <3>1. CASE p + 1 = q
      BY <3>1, <1>2, <2>1
    <3>2. CASE p + 1 < q
      BY <3>2, <1>4, <2>1
    <3> QED BY <3>1, <3>2, <2>1, <1>5
  <2>4. code[p].block \in Nat /\ code[p + 1].block \in Nat /\ code[q].block \in Nat
    BY <1>2, <2>1
  <2> QED BY <2>2, <2>3, <2>4
<1>6. Blocks \subseteq Nat
  BY <1>2 DEF Blocks
<1> QED BY <1>4, <1>5, <1>6

(* A definition: the only one of its register, never a terminator.          *)
LEMMA DefFacts ==
  ASSUME code \in Programs, NEW v \in Vreg, NEW d \in DefPos(v)
  PROVE  /\ d \in DOMAIN code /\ d \in Nat /\ code[d].dst = v /\ DefPos(v) = {d}
         /\ code[d].op \notin Terminators /\ code[d].block \in Blocks
<1>1. d \in DOMAIN code /\ code[d].dst = v
  BY DEF DefPos
<1>2. v # NoVreg
  BY SsaAssumption
<1>3. DefPos(v) = {d}
  BY <1>1, <1>2, CodeFacts DEF DefPos
<1>4. code[d].op \notin Terminators
  <2>1. WellFormed(code)
    BY ProgramAssumption
  <2> QED BY <2>1, <1>1, <1>2 DEF WellFormed
<1> QED BY <1>1, <1>3, <1>4, CodeFacts DEF Blocks

(* Breadth-first order: what stands in front of b is reached without b.     *)
LEMMA InFront ==
  ASSUME code \in Programs, NEW b \in Blocks, NEW S \in Avoiding(b), NEW c \in Blocks, c < b
  PROVE  c \in S
<1> DEFINE M == {x \in Blocks : x < b /\ x \notin S}
<1>1. SUFFICES ASSUME c \notin S PROVE FALSE
  OBVIOUS
<1>2. Blocks \subseteq Nat
  BY BlockOrder
<1>3. M \in SUBSET Nat /\ M # {}
  BY <1>1, <1>2
<1>4. PICK x \in M : \A y \in M : x <= y
  BY <1>3, MinFact
<1>5. x \in Blocks /\ x < b /\ x \notin S /\ x \in Nat /\ b \in Nat
  BY <1>2, <1>4
<1>6. x # code[1].block
  BY <1>5 DEF Avoiding
<1>7. PICK q \in DOMAIN code : code[q].block < x /\ x \in code[q].to
  <2>1. Strict(code)
    BY ProgramAssumption
  <2>2. PICK u \in DOMAIN code : code[u].block = x
    BY <1>5 DEF Blocks
  <2> QED BY <2>1, <2>2, <1>6 DEF Strict
<1>8. code[q].block \in Blocks /\ code[q].block \in Nat
  BY <1>2 DEF Blocks
<1>9. code[q].block \in S
  <2>1. code[q].block < b /\ ~(x <= code[q].block)
    BY <1>5, <1>7, <1>8
  <2> QED BY <2>1, <1>4, <1>8
<1>10. x \in S \cup {b}
  BY <1>7, <1>9 DEF Avoiding
<1> QED BY <1>5, <1>10

(* What an instruction reads is defined on every path there.                *)
LEMMA ReadsDefined ==
  ASSUME code \in Programs, NEW u \in DOMAIN code,
         NEW v \in code[u].src \cup UNION {{code[f].from[code[u].block] : f \in Phis(b)} : b \in code[u].to}
  PROVE  \E d \in DefPos(v) : ~ \A S \in Avoiding(code[d].block) : code[u].block \in S
<1>1. Strict(code)
  BY ProgramAssumption
<1>2. PICK d \in DOMAIN code : code[d].dst = v /\ Dominates(code, code[d].block, code[u].block)
  <2>1. CASE v \in code[u].src
    BY <2>1, <1>1 DEF Strict
  <2>2. ASSUME NEW b \in code[u].to, NEW f \in Phis(b), v = code[f].from[code[u].block]
        PROVE  \E d \in DOMAIN code : code[d].dst = v /\ Dominates(code, code[d].block, code[u].block)
    <3>1. f \in DOMAIN code /\ code[f].op = "phi" /\ code[f].block \in code[u].to
      BY <2>2 DEF Phis, Block
    <3> QED BY <3>1, <2>2, <1>1 DEF Strict
  <2> QED BY <2>1, <2>2
<1>3. d \in DefPos(v)
  BY <1>2 DEF DefPos
<1> DEFINE b == code[d].block
<1>4. CASE b = code[u].block
  <2> DEFINE S == Blocks \ {b}
  <2>1. \A p \in DOMAIN code : code[p].to \subseteq Blocks
    <3>1. WellFormed(code)
      BY ProgramAssumption
    <3> QED BY <3>1 DEF WellFormed, Blocks
  <2>2. code[1].block \in Blocks
    BY CodeFacts DEF Blocks
  <2>3. S \in Avoiding(b)
    BY <2>1, <2>2 DEF Avoiding
  <2>4. code[u].block \notin S
    BY <1>4
  <2> QED BY <1>3, <2>3, <2>4
<1>5. CASE b # code[u].block
  <2>1. \E S \in Avoiding(b) : code[u].block \notin S
    BY <1>2, <1>5 DEF Dominates, Avoiding, Blocks
  <2> QED BY <1>3, <2>1
<1> QED BY <1>4, <1>5

(* Liveness: what the passes over the intervals establish.                  *)
LEMMA LoopsExtended == ASSUME SInv, KeepForLoops PROVE StopInv'
<1> USE DEF KeepForLoops
<1>1. code \in Programs /\ SsaTypeOK /\ NumInv
  BY DEF SInv
<1>2. ASSUME NEW v \in Vreg, NEW d \in DefPos(v), NEW b \in Blocks, LoopHeader(b),
             d < First(Block(b)), First(Block(b)) <= last_use'[v]
      PROVE  last_use'[v] = Len(code)
  <2>1. d \in DOMAIN code /\ DefPos(v) = {d} /\ d \in Nat
    BY <1>1, DefFacts
  <2>2. def_seq[v] = d /\ d # None
    <3>1. def_seq[v] = Last({d})
      BY <1>1, <2>1 DEF NumInv
    <3>2. Last({d}) \in {d}
      BY <1>1, <2>1, EndsFact
    <3>3. d # None
      BY <1>1, <2>1, CodeFacts DEF None
    <3> QED BY <3>1, <3>2, <3>3
  <2>3. last_use'[v] = IF \E c \in Blocks : /\ LoopHeader(c)
                                            /\ def_seq[v] # None /\ def_seq[v] < First(Block(c))
                                            /\ last_use[v] >= First(Block(c))
                       THEN Len(code) ELSE last_use[v]
    OBVIOUS
  <2>4. CASE last_use'[v] = last_use[v]
    <3>1. First(Block(b)) \in Nat /\ last_use[v] \in Nat
      <4>1. Block(b) \in SUBSET DOMAIN code /\ Len(code) \in Nat
        BY <1>1, CodeFacts DEF Block
      <4>2. First(Block(b)) \in None .. Len(code)
        BY <1>1, <4>1, EndsFact
      <4> QED BY <4>1, <4>2, <1>1 DEF SsaTypeOK, None
    <3>2. last_use[v] >= First(Block(b))
      BY <3>1, <1>2, <2>4
    <3> QED BY <3>2, <1>2, <2>2, <2>3
  <2> QED BY <2>3, <2>4
<1>3. \A v \in Vreg : \A d \in DefPos(v) : Extended(d, last_use'[v])
  BY <1>2 DEF Extended
<1>4. \A v \in Vreg : DefPos(v)' = DefPos(v)
  BY DEF DefPos
<1>5. \A v \in Vreg : \A d \in DefPos(v) : Extended(d, last_use[v])' = Extended(d, last_use'[v])
  BY DEF Extended, Blocks, LoopHeader, Preds, Block
<1> QED BY <1>3, <1>4, <1>5 DEF StopInv, Early

LEMMA WidenStops == ASSUME SInv, StopInv, Widen PROVE StopInv'
<1> DEFINE last(v)  == def_seq[v] # None /\ last_use[v] # None /\ last_use[v] < def_seq[v]
           first(v) == def_seq[v] # None /\ first_use[v] # None /\ first_use[v] < def_seq[v]
<1>1. /\ phase = "widen" /\ phase' \in {"search", "give_up"}
      /\ def_seq' = [v \in Vreg |-> IF last(v) THEN last_use[v]
                                    ELSE IF first(v) THEN first_use[v] ELSE def_seq[v]]
      /\ last_use' = [v \in Vreg |-> IF last(v) \/ first(v) THEN Len(code) ELSE last_use[v]]
      /\ code' = code
  BY DEF Widen
<1>2. code \in Programs /\ SsaTypeOK /\ NumInv /\ Len(code) \in Nat \ {0} /\ DOMAIN code = 1 .. Len(code)
  BY CodeFacts DEF SInv
<1>3. ASSUME NEW v \in Vreg, NEW d \in DefPos(v), NEW e, e = Stop(v)'
      PROVE  /\ Extended(d, e)
             /\ \A u \in Uses(v) : u <= e /\ (u < d => e = Len(code))
  <2>1. d \in DOMAIN code /\ DefPos(v) = {d} /\ d \in Nat /\ d # None
    BY <1>2, DefFacts DEF None
  <2>2. def_seq[v] = d
    <3>1. def_seq[v] = Last({d})
      BY <2>1, <1>1, <1>2 DEF NumInv
    <3>2. Last({d}) \in {d}
      BY <2>1, <1>2, EndsFact
    <3> QED BY <3>1, <3>2
  <2>3. /\ Uses(v) \in SUBSET DOMAIN code /\ first_use[v] = First(Uses(v))
        /\ last_use[v] \in {Last(Uses(v)), Len(code)} /\ last_use[v] \in Nat
    BY <1>1, <1>2 DEF NumInv, Uses, SsaTypeOK, None
  <2>4. e = IF last_use'[v] # None THEN last_use'[v] ELSE def_seq'[v]
    BY <1>3 DEF Stop
  <2>5. CASE last(v) \/ first(v)
    <3>1. e = Len(code)
      BY <2>4, <2>5, <1>1, <1>2 DEF None
    <3>2. \A u \in Uses(v) : u <= e
      BY <2>3, <3>1, <1>2
    <3> QED BY <3>1, <3>2 DEF Extended
  <2>6. CASE ~last(v) /\ ~first(v)
    <3>1. e = IF last_use[v] # None THEN last_use[v] ELSE d
      BY <2>2, <2>4, <2>6, <1>1
    <3>2. \A u \in Uses(v) : u <= e
      <4>1. TAKE u \in Uses(v)
      <4>2. u <= Last(Uses(v)) /\ u \in 1 .. Len(code) /\ Last(Uses(v)) \in DOMAIN code
        BY <2>3, <1>2, EndsFact
      <4>3. last_use[v] # None /\ u <= last_use[v]
        BY <2>3, <4>2, <1>2 DEF None
      <4> QED BY <3>1, <4>3
    <3>3. \A u \in Uses(v) : ~(u < d)
      <4>1. SUFFICES ASSUME NEW u \in Uses(v), u < d PROVE FALSE
        OBVIOUS
      <4>2. First(Uses(v)) <= u /\ First(Uses(v)) \in DOMAIN code /\ u \in DOMAIN code
        BY <2>3, <1>2, EndsFact
      <4>3. first_use[v] # None /\ first_use[v] < d
        BY <4>1, <4>2, <2>1, <2>3, <1>2 DEF None
      <4> QED BY <4>3, <2>1, <2>2, <2>6
    <3>4. Extended(d, e)
      <4>1. CASE last_use[v] # None
        BY <4>1, <3>1, <1>1 DEF StopInv
      <4>2. CASE last_use[v] = None
        <5>1. \A b \in Blocks : First(Block(b)) \in Nat
          <6>1. \A b \in Blocks : Block(b) \in SUBSET DOMAIN code
            BY DEF Block
          <6> QED BY <6>1, <1>2, EndsFact DEF None
        <5>2. e = d
          BY <4>2, <3>1
        <5> QED BY <5>1, <5>2, <2>1 DEF Extended
      <4> QED BY <4>1, <4>2
    <3> QED BY <3>2, <3>3, <3>4
  <2> QED BY <2>5, <2>6
<1>4. \A v \in Vreg : DefPos(v)' = DefPos(v) /\ Uses(v)' = Uses(v)
  BY <1>1 DEF DefPos, Uses
<1>5. ASSUME NEW v \in Vreg, NEW d \in DefPos(v)
      PROVE  /\ Extended(d, Stop(v))'
             /\ \A u \in Uses(v) : u <= Stop(v)' /\ (u < d => Stop(v)' = Len(code))
  <2>1. PICK e : e = Stop(v)'
    OBVIOUS
  <2>2. Extended(d, e) /\ \A u \in Uses(v) : u <= e /\ (u < d => e = Len(code))
    BY <2>1, <1>3
  <2>3. Extended(d, Stop(v))' = Extended(d, e)
    BY <2>1, <1>1 DEF Extended, Blocks, LoopHeader, Preds, Block, Stop
  <2> QED BY <2>1, <2>2, <2>3
<1> QED BY <1>1, <1>4, <1>5 DEF StopInv, Early

(* Later on the intervals stand.                                            *)
LEMMA StopsStay ==
  ASSUME StopInv, phase \notin Early, phase' \notin Early, UNCHANGED <<code, def_seq, last_use>>
  PROVE  StopInv'
<1>1. /\ Blocks' = Blocks /\ \A b : Block(b)' = Block(b) /\ (LoopHeader(b)' <=> LoopHeader(b))
      /\ Len(code)' = Len(code)
  BY DEF Blocks, Block, LoopHeader, Preds
<1>2. \A v \in Vreg : DefPos(v)' = DefPos(v) /\ Uses(v)' = Uses(v) /\ Stop(v)' = Stop(v)
  BY DEF DefPos, Uses, Stop
<1>3. ASSUME NEW v \in Vreg, NEW d \in DefPos(v)
      PROVE  /\ Extended(d, Stop(v))'
             /\ \A u \in Uses(v) : u <= Stop(v)' /\ (u < d => Stop(v)' = Len(code))
  <2> PICK e : e = Stop(v)
    OBVIOUS
  <2>1. Extended(d, e) /\ \A u \in Uses(v) : u <= e /\ (u < d => e = Len(code))
    BY <1>3 DEF StopInv
  <2>2. Stop(v)' = e
    BY <1>2
  <2>3. Extended(d, Stop(v))' <=> Extended(d, e)
    BY <1>1, <2>2 DEF Extended
  <2> QED BY <2>1, <2>2, <2>3
<1> QED BY <1>1, <1>2, <1>3 DEF StopInv, Early

(* A register that is left stays explained.                                 *)
LEMMA LostStays ==
  ASSUME UNCHANGED <<code, def_seq, last_use>>, phase' = "run",
         NEW n, pos' = n, \A v \in left' : Lost(v, n)
  PROVE  LeftInv'
<1>1. \A v : Lost(v, n)' = Lost(v, n)
  BY DEF Lost, NotYet, Avoiding, RoundAgain, Blocks, Block, Preds, DefPos, Stop
<1>2. \A v : Lost(v, pos)' = Lost(v, n)'
  BY DEF Lost, NotYet, RoundAgain
<1> QED BY <1>1, <1>2 DEF LeftInv

LEMMA LostAtEntry ==
  ASSUME code \in Programs, NEW v \in Vreg
  PROVE  Lost(v, 1)
<1>1. SUFFICES ASSUME NEW d \in DefPos(v) PROVE NotYet(d, 1)
  BY DEF Lost
<1>2. /\ WellFormed(code) /\ Len(code) \in Nat \ {0} /\ DOMAIN code = 1 .. Len(code)
      /\ d \in DOMAIN code
  BY ProgramAssumption, CodeFacts, DefFacts
<1>3. CASE code[1].block = code[d].block
  <2>1. code[1].op # "phi"
    BY <1>2 DEF WellFormed
  <2>2. code[d].op # "phi"
    <3>1. SUFFICES ASSUME code[d].op = "phi" PROVE FALSE
      OBVIOUS
    <3>2. 1 < d /\ 1 \in DOMAIN code
      BY <2>1, <3>1, <1>2
    <3> QED BY <2>1, <3>1, <3>2, <1>2, <1>3 DEF WellFormed
  <2> QED BY <2>2, <1>2, <1>3 DEF NotYet
<1>4. CASE code[1].block # code[d].block
  BY <1>4 DEF NotYet, Avoiding
<1> QED BY <1>3, <1>4

LEMMA LostAhead ==
  ASSUME LInv, phase = "run", code[pos].op \notin Terminators,
         NEW v \in (left \ {code[pos].dst}) \cup Outside(pos + 1)
  PROVE  Lost(v, pos + 1)
<1>1. code \in Programs /\ SsaTypeOK /\ RunInv /\ IntervalInv /\ v \in Vreg
  BY DEF LInv, SInv, SsaTypeOK, Outside
<1>2. /\ pos \in DOMAIN code /\ pos \in Nat /\ pos + 1 \in DOMAIN code /\ DOMAIN code = 1 .. Len(code)
      /\ Len(code) \in Nat /\ Start(v) \in Nat /\ Stop(v) \in Nat
  BY <1>1, CodeFacts, IntervalTypes DEF SsaTypeOK, LInv
<1>3. code[pos + 1].block = code[pos].block
  <2>1. WellFormed(code) /\ pos \in 1 .. Len(code) - 1
    BY <1>1, <1>2, ProgramAssumption
  <2> QED BY <2>1 DEF WellFormed
<1>4. SUFFICES ASSUME NEW d \in DefPos(v), ~(Stop(v) < pos + 1)
               PROVE  NotYet(d, pos + 1) \/ RoundAgain(v, pos + 1)
  BY DEF Lost
<1>5. d \in Nat /\ d \in DOMAIN code /\ code[d].dst = v
  BY <1>1, DefFacts
<1>6. v \in left /\ d # pos
  <2>1. Start(v) <= d
    BY <1>1, <1>5 DEF IntervalInv, Early
  <2>2. v \notin left => Start(v) <= pos
    BY <1>1 DEF RunInv
  <2>3. v \in Outside(pos + 1) => ~(Start(v) <= pos + 1)
    BY <1>2, <1>4 DEF Outside
  <2> QED BY <2>1, <2>2, <2>3, <1>2, <1>5
<1>7. NotYet(d, pos) \/ Stop(v) < pos \/ RoundAgain(v, pos)
  BY <1>6 DEF LInv, LeftInv, Lost
<1>8. CASE NotYet(d, pos)
  BY <1>2, <1>3, <1>5, <1>6, <1>8 DEF NotYet
<1>9. CASE RoundAgain(v, pos)
  <2>1. PICK t \in Block(code[pos].block) : pos <= t /\ Stop(v) < t
    BY <1>9 DEF RoundAgain
  <2>2. t \in Nat
    BY <1>2 DEF Block
  <2>3. pos + 1 <= t
    BY <2>1, <2>2, <1>2, <1>4
  <2> QED BY <2>1, <2>3, <1>3, <1>9 DEF RoundAgain
<1> QED BY <1>2, <1>4, <1>7, <1>8, <1>9

LEMMA LostAcross ==
  ASSUME LInv, phase = "run", code[pos].op \in Terminators, NEW b \in code[pos].to,
         NEW v \in ((left \cup Outside(Min(Block(b)))) \ PhiDsts(b)) \cup Outside(Landing(b))
  PROVE  Lost(v, Landing(b))
<1> DEFINE l == Landing(b)
           f == Min(Block(b))
<1>1. code \in Programs /\ SsaTypeOK /\ RunInv /\ IntervalInv /\ v \in Vreg
  BY DEF LInv, SInv, SsaTypeOK, Outside
<1>2. /\ pos \in DOMAIN code /\ pos \in 1 .. Len(code) /\ Len(code) \in Nat
      /\ Start(v) \in Nat /\ Stop(v) \in Nat /\ DOMAIN code = 1 .. Len(code)
  BY <1>1, CodeFacts, IntervalTypes DEF SsaTypeOK, LInv
<1>3. /\ Block(b) # {} /\ f \in Block(b) /\ \A q \in Block(b) : f <= q
      /\ l \in Block(b) \ Phis(b) /\ \A g \in Phis(b) : g < l
  BY <1>1, <1>2, TargetFacts
<1>4. f \in Nat /\ l \in Nat /\ l \in DOMAIN code /\ code[l].block = b /\ f <= l /\ b \in Blocks
      /\ b \in Nat /\ code[pos].block \in Blocks /\ f = First(Block(b)) /\ code[f].block = b
      /\ f \in DOMAIN code
  BY <1>1, <1>2, <1>3, BlockOrder DEF Block, Blocks, First
<1>5. SUFFICES ASSUME NEW d \in DefPos(v), ~(Stop(v) < l)
               PROVE  NotYet(d, l) \/ RoundAgain(v, l)
  BY DEF Lost
<1>6. /\ d \in Nat /\ d \in DOMAIN code /\ code[d].dst = v /\ code[d].op \notin Terminators
      /\ code[d].block \in Blocks /\ code[d].block \in Nat
  BY <1>1, DefFacts, BlockOrder
<1>7. Start(v) <= d
  BY <1>1, <1>6 DEF IntervalInv, Early
<1>8. d \notin Phis(b) /\ v \notin PhiDsts(b)
  <2>1. SUFFICES ASSUME v \in PhiDsts(b) PROVE FALSE
    BY <1>6 DEF PhiDsts
  <2>2. d \in Phis(b)
    BY <2>1, <1>1, DefFacts DEF PhiDsts, DefPos, Phis, Block
  <2>3. Start(v) <= l
    BY <2>2, <1>2, <1>3, <1>4, <1>6, <1>7
  <2> QED BY <2>1, <2>3, <1>2, <1>4, <1>5 DEF Outside
<1>9. CASE b < code[d].block
  <2>1. \A S \in Avoiding(code[d].block) : b \in S
    BY <1>1, <1>4, <1>6, <1>9, InFront
  <2> QED BY <2>1, <1>4 DEF NotYet
<1>10. CASE b = code[d].block
  <2>1. d \in Block(b) \ Phis(b)
    BY <1>6, <1>8, <1>10 DEF Block
  <2>2. l <= d
    <3>1. Block(b) \ Phis(b) \in SUBSET Nat
      BY <1>2 DEF Block
    <3> QED BY <2>1, <3>1, MinFact DEF Landing
  <2> QED BY <2>1, <2>2, <1>4, <1>10 DEF NotYet, Phis
<1>11. CASE code[d].block < b
  <2>1. d < f
    <3>1. f < d => b <= code[d].block
      BY <1>1, <1>4, <1>6, BlockOrder
    <3> QED BY <3>1, <1>4, <1>6, <1>11
  <2>2. v \in left
    <3>1. SUFFICES ASSUME v \notin left PROVE FALSE
      OBVIOUS
    <3>2. Start(v) <= f /\ f <= Stop(v) /\ Start(v) <= l /\ l <= Stop(v)
      BY <2>1, <1>2, <1>4, <1>5, <1>6, <1>7
    <3> QED BY <3>1, <3>2 DEF Outside
  <2>3. NotYet(d, pos) \/ Stop(v) < pos \/ RoundAgain(v, pos)
    BY <2>2 DEF LInv, LeftInv, Lost
  <2>4. \A t \in DOMAIN code : pos < t => code[pos].block < code[t].block
    BY <1>1, <1>2, BlockOrder
  <2>5. CASE NotYet(d, pos)
    <3>1. ~(code[pos].block = code[d].block /\ pos <= d)
      <4>1. SUFFICES ASSUME code[pos].block = code[d].block, pos <= d PROVE FALSE
        OBVIOUS
      <4>2. pos < d
        BY <4>1, <1>2, <1>6
      <4> QED BY <4>1, <4>2, <2>4, <1>6
    <3>2. ASSUME NEW S \in Avoiding(code[d].block) PROVE b \in S
      <4>1. code[pos].block \in S
        BY <2>5, <3>1 DEF NotYet
      <4>2. b \in S \cup {code[d].block}
        BY <4>1, <1>2 DEF Avoiding
      <4> QED BY <4>2, <1>4, <1>6, <1>11
    <3> QED BY <3>2, <1>4 DEF NotYet
  <2>6. CASE Stop(v) < pos \/ RoundAgain(v, pos)
    <3>1. Stop(v) < pos
      <4>1. SUFFICES ASSUME RoundAgain(v, pos) PROVE Stop(v) < pos
        BY <2>6
      <4>2. PICK t \in Block(code[pos].block) : pos <= t /\ Stop(v) < t
        BY <4>1 DEF RoundAgain
      <4>3. t \in DOMAIN code /\ t \in Nat /\ code[t].block = code[pos].block /\ code[pos].block \in Nat
        BY <1>1, <1>2, BlockOrder DEF Block, Blocks
      <4>4. ~(pos < t)
        BY <2>4, <4>3
      <4> QED BY <4>2, <4>3, <4>4, <1>2
    <3>2. l < pos /\ b <= code[pos].block
      <4>1. l < pos
        BY <3>1, <1>2, <1>4, <1>5
      <4> QED BY <4>1, <1>1, <1>2, <1>4, BlockOrder
    <3>3. code[pos].block \in Preds(b)
      BY <1>2 DEF Preds
    <3>4. b = code[pos].block
      <4>1. SUFFICES ASSUME b # code[pos].block PROVE FALSE
        OBVIOUS
      <4>2. code[pos].block > b
        <5>1. code[pos].block \in Nat
          BY <1>1, <1>4, BlockOrder
        <5> QED BY <4>1, <5>1, <3>2, <1>4
      <4>3. LoopHeader(b)
        BY <3>3, <4>2 DEF LoopHeader
      <4>4. Extended(d, Stop(v))
        BY <1>1 DEF LInv, StopInv, Early
      <4>5. f <= Stop(v)
        BY <1>2, <1>4, <1>5
      <4>6. Stop(v) = Len(code)
        BY <4>3, <4>4, <4>5, <2>1, <1>4 DEF Extended
      <4> QED BY <4>6, <3>1, <1>2
    <3>5. pos \in Block(code[l].block) /\ l <= pos
      BY <3>2, <3>4, <1>2, <1>4 DEF Block
    <3> QED BY <3>1, <3>3, <3>4, <3>5, <1>4 DEF RoundAgain
  <2> QED BY <2>3, <2>5, <2>6
<1> QED BY <1>4, <1>6, <1>9, <1>10, <1>11

LEMMA LostStep == LInv /\ SInv' /\ [Next]_vars => LInv'
<1> SUFFICES ASSUME LInv, SInv', [Next]_vars PROVE LInv'
  OBVIOUS
<1>1. code \in Programs /\ SInv /\ StopInv /\ LeftInv /\ RunInv
  BY DEF LInv, SInv
<1>2. ASSUME UNCHANGED execVars, phase \notin {"run", "done"}, phase' \notin {"run", "done"}
      PROVE  LeftInv'
  BY <1>1, <1>2 DEF LeftInv, execVars
<1>3. ASSUME phase = "run", UNCHANGED allocVars, code[pos].op \notin Terminators, pos' = pos + 1,
             left' = (left \ {code[pos].dst}) \cup Outside(pos + 1)
      PROVE  LInv'
  <2>1. \A v \in left' : Lost(v, pos + 1)
    BY <1>3, LostAhead
  <2>2. LeftInv'
    BY <2>1, <1>3, LostStays DEF allocVars
  <2>3. StopInv'
    BY <1>1, <1>3, StopsStay DEF allocVars, Early
  <2> QED BY <2>2, <2>3 DEF LInv
<1>4. ASSUME UNCHANGED <<code, def_seq, last_use, execVars>>, phase \notin Early \cup {"run", "done"},
             phase' = "run"
      PROVE  LInv'
  <2>1. pos = 1 /\ pos' = 1
    BY <1>1, <1>4 DEF LeftInv, execVars
  <2>2. left' \subseteq Vreg
    BY DEF SInv, SsaTypeOK
  <2>3. LeftInv'
    BY <2>1, <2>2, <1>1, <1>4, LostAtEntry, LostStays
  <2>4. StopInv'
    BY <1>1, <1>4, StopsStay DEF Early
  <2> QED BY <2>3, <2>4 DEF LInv
<1>5. CASE (Number \/ KeepForPhi) /\ UNCHANGED execVars
  <2>1. StopInv'
    BY <1>5 DEF StopInv, Number, KeepForPhi, Early
  <2> QED BY <2>1, <1>2, <1>5 DEF LInv, Number, KeepForPhi
<1>6. CASE KeepForLoops /\ UNCHANGED execVars
  BY <1>1, <1>2, <1>6, LoopsExtended DEF LInv, KeepForLoops
<1>7. CASE Widen /\ UNCHANGED execVars
  <2>1. phase = "widen" /\ phase' \in {"give_up", "search"}
    BY <1>7 DEF Widen
  <2> QED BY <2>1, <1>1, <1>2, <1>7, WidenStops DEF LInv
<1>8. CASE UNCHANGED execVars /\ (EndSearch \/ Color \/ \E v \in Vreg : Visit(v) \/ ScanNext(v))
  <2>1. /\ phase \notin Early \cup {"run", "done"} /\ phase' \notin Early \cup {"run", "done"}
        /\ UNCHANGED <<code, def_seq, last_use>>
    BY <1>8 DEF EndSearch, Color, Visit, ScanNext, Early
  <2> QED BY <2>1, <1>1, <1>2, <1>8, StopsStay DEF LInv
<1>9. CASE UNCHANGED execVars /\ (GiveUp \/ Allocated)
  <2>1. /\ phase \notin Early \cup {"run", "done"} /\ phase' \in {"run", "scan"}
        /\ UNCHANGED <<code, def_seq, last_use>>
    BY <1>9 DEF GiveUp, Allocated, Early
  <2>2. CASE phase' = "run"
    BY <2>1, <2>2, <1>4, <1>9
  <2>3. CASE phase' = "scan"
    BY <2>1, <2>3, <1>1, <1>2, <1>9, StopsStay DEF LInv, Early
  <2> QED BY <2>1, <2>2, <2>3
<1>10. CASE Compute
  BY <1>3, <1>10 DEF Compute, At, Step, Terminators
<1>11. CASE CompareFloat
  BY <1>3, <1>11 DEF CompareFloat, At, Step, Terminators
<1>12. CASE Call
  BY <1>3, <1>12 DEF Call, At, Terminators
<1>13. ASSUME NEW b \in Blocks, Jump(b) PROVE LInv'
  <2>1. /\ phase = "run" /\ code[pos].op \in Terminators /\ b \in code[pos].to /\ UNCHANGED allocVars
        /\ pos' = Landing(b)
        /\ left' = ((left \cup Outside(Min(Block(b)))) \ PhiDsts(b)) \cup Outside(Landing(b))
    BY <1>13 DEF Jump, At, Terminators
  <2>2. \A v \in left' : Lost(v, Landing(b))
    BY <2>1, LostAcross
  <2>3. PICK n : n = Landing(b)
    OBVIOUS
  <2>4. LeftInv'
    BY <2>1, <2>2, <2>3, LostStays DEF allocVars
  <2>5. StopInv'
    BY <2>1, <1>1, StopsStay DEF allocVars, Early
  <2> QED BY <2>4, <2>5 DEF LInv
<1>14. CASE Return
  <2>1. phase = "run" /\ phase' = "done" /\ UNCHANGED <<code, def_seq, last_use>>
    BY <1>14 DEF Return, At
  <2> QED BY <2>1, <1>1, StopsStay DEF LInv, LeftInv, Early
<1>15. CASE UNCHANGED vars
  <2>1. UNCHANGED <<code, def_seq, last_use, phase, pos, left>>
    BY <1>15 DEF vars, allocVars, execVars
  <2>2. StopInv'
    <3>1. CASE phase \notin Early
      BY <3>1, <2>1, <1>1, StopsStay DEF Early
    <3>2. CASE phase \in Early
      <4>1. \A v, d : Extended(d, last_use[v])' = Extended(d, last_use[v])
        BY <2>1 DEF Extended, Blocks, LoopHeader, Preds, Block
      <4>2. \A v : DefPos(v)' = DefPos(v)
        BY <2>1 DEF DefPos
      <4> QED BY <4>1, <4>2, <3>2, <2>1, <1>1 DEF StopInv, Early
    <3> QED BY <3>1, <3>2
  <2>3. LeftInv'
    BY <2>1, <1>1 DEF LeftInv, Lost, NotYet, Avoiding, RoundAgain, Blocks, Block, Preds, DefPos, Stop
  <2> QED BY <2>2, <2>3 DEF LInv
<1> QED BY <1>5, <1>6, <1>7, <1>8, <1>9, <1>10, <1>11, <1>12, <1>13, <1>14, <1>15
        DEF Next, Allocate, Execute

(* Along every path a register is left only before its definition, behind   *)
(* its interval, or inside a block that branches to itself.                 *)
LEMMA LostInvariance == Spec => []LInv
<1>1. Init => LInv
  <2>1. Init => SInv
    BY InitStep
  <2>2. Init => StopInv /\ LeftInv
    BY DEF Init, StopInv, LeftInv, Early
  <2> QED BY <2>1, <2>2 DEF LInv
<1>2. LInv /\ SInv' /\ [Next]_vars => LInv'
  BY LostStep
<1> QED BY <1>1, <1>2, Invariance, PTL DEF Spec

(* A node that reads a register left before stands in a block that branches *)
(* to itself, or hands a phi to a phi of the same block.                    *)
LEMMA ReadsLost ==
  ASSUME LInv, phase = "run", NEW v \in left, v \in ReadsNext, ~ OnItself
  PROVE  OwnPhi(v)
<1>1. code \in Programs /\ SsaTypeOK /\ v \in Vreg /\ Lost(v, pos) /\ WellFormed(code)
  BY ProgramAssumption DEF LInv, SInv, SsaTypeOK, LeftInv
<1>2. pos \in DOMAIN code /\ pos \in 1 .. Len(code) /\ Len(code) \in Nat /\ Stop(v) \in Nat
      /\ DOMAIN code = 1 .. Len(code) /\ code[pos].block \in Nat
  BY <1>1, CodeFacts, IntervalTypes DEF SsaTypeOK, LInv, IsInstr
<1>3. PICK d \in DefPos(v) : ~ \A S \in Avoiding(code[d].block) : code[pos].block \in S
  BY <1>1, <1>2, ReadsDefined DEF ReadsNext, EdgeReads
<1>4. /\ d \in DOMAIN code /\ d \in Nat /\ code[d].dst = v /\ code[d].block \in Nat
      /\ code[d].op \notin Terminators
  BY <1>1, DefFacts, CodeFacts DEF IsInstr
<1>5. /\ \A u \in Uses(v) : u <= Stop(v) /\ (u < d => Stop(v) = Len(code))
      /\ Extended(d, Stop(v))
  BY <1>1 DEF LInv, StopInv, Early
<1>6. ~ RoundAgain(v, pos)
  BY DEF RoundAgain, OnItself
<1>7. (code[pos].block = code[d].block /\ pos <= d) \/ Stop(v) < pos
  BY <1>1, <1>3, <1>6 DEF Lost, NotYet
<1>8. v \notin code[pos].src
  <2>1. SUFFICES ASSUME v \in code[pos].src PROVE FALSE
    OBVIOUS
  <2>2. d < pos
    BY <2>1, <1>1, <1>2, <1>4, CodeFacts
  <2>3. pos \in Uses(v)
    BY <2>1, <1>2 DEF Uses, Reads
  <2> QED BY <2>2, <2>3, <1>2, <1>4, <1>5, <1>7
<1>9. PICK b \in code[pos].to : v \in EdgeReads(b)
  BY <1>8 DEF ReadsNext
<1>10. code[pos].op \in Terminators
  BY <1>1, <1>2, <1>9 DEF WellFormed, Terminators
<1>11. Stop(v) < pos
  <2>1. SUFFICES ASSUME code[pos].block = code[d].block, pos <= d PROVE FALSE
    BY <1>7
  <2>2. pos < d
    BY <2>1, <1>2, <1>4, <1>10
  <2> QED BY <2>1, <2>2, <1>1, <1>2, <1>4, <1>10, BlockOrder
<1>12. PICK f \in Phis(b) : v = code[f].from[code[pos].block]
  BY <1>9 DEF EdgeReads
<1>13. f \in DOMAIN code /\ f \in Nat /\ code[f].op = "phi" /\ code[f].block = b
  BY <1>2, <1>12 DEF Phis, Block
<1>14. f \in Uses(v)
  <2>1. code[pos].block \in DOMAIN code[f].from
    BY <1>1, <1>2, <1>9, <1>13 DEF WellFormed
  <2> QED BY <2>1, <1>12, <1>13 DEF Uses, Reads
<1>15. b # code[pos].block /\ code[pos].block \in Preds(b)
  BY <1>2, <1>9 DEF OnItself, Preds
<1>16. LoopHeader(b) /\ b \in Nat /\ f < pos /\ f <= Stop(v)
  <2>1. f < pos /\ f <= Stop(v)
    BY <1>2, <1>5, <1>11, <1>13, <1>14
  <2>2. b <= code[pos].block /\ b \in Nat
    BY <2>1, <1>1, <1>2, <1>13, BlockOrder, CodeFacts DEF IsInstr
  <2> QED BY <2>1, <2>2, <1>2, <1>15 DEF LoopHeader
<1>17. CASE d \in Phis(b)
  <2>1. v \in PhiDsts(b)
    BY <1>4, <1>17 DEF PhiDsts
  <2> QED BY <2>1, <1>9 DEF OwnPhi
<1>18. CASE d \notin Phis(b)
  <2>1. ~ (f < d)
    BY <1>2, <1>5, <1>11, <1>14
  <2>2. d < f
    <3>1. f # d
      BY <1>12, <1>18
    <3> QED BY <2>1, <3>1, <1>4, <1>13
  <2>3. code[d].block # b
    BY <2>2, <1>1, <1>4, <1>13, <1>18 DEF WellFormed, Phis, Block
  <2>4. \A q \in Block(b) : d < q
    <3>1. TAKE q \in Block(b)
    <3>2. q \in DOMAIN code /\ q \in Nat /\ code[q].block = b
      BY <1>2 DEF Block
    <3>3. code[d].block <= b
      BY <2>2, <1>1, <1>4, <1>13, BlockOrder
    <3>4. q < d => b <= code[d].block
      BY <3>2, <1>1, <1>4, BlockOrder
    <3>5. q # d
      BY <2>3, <3>2
    <3> QED BY <3>2, <3>3, <3>4, <3>5, <2>3, <1>4, <1>16
  <2>5. d < First(Block(b)) /\ First(Block(b)) <= f
    <3>1. f \in Block(b) /\ Block(b) \in SUBSET DOMAIN code
      BY <1>13 DEF Block
    <3>2. First(Block(b)) \in Block(b) /\ First(Block(b)) <= f
      BY <3>1, <1>1, EndsFact
    <3> QED BY <3>2, <2>4
  <2>6. First(Block(b)) <= Stop(v)
    <3>1. First(Block(b)) \in Nat
      <4>1. Block(b) \in SUBSET DOMAIN code
        BY DEF Block
      <4> QED BY <4>1, <1>1, <1>2, EndsFact DEF None
    <3> QED BY <3>1, <2>5, <1>2, <1>13, <1>16
  <2>7. Stop(v) = Len(code)
    <3>1. b \in Blocks
      BY <1>13 DEF Blocks
    <3> QED BY <3>1, <2>5, <2>6, <1>5, <1>16 DEF Extended
  <2> QED BY <2>7, <1>2, <1>11
<1> QED BY <1>17, <1>18

----------------------------------------------------------------------------
(* Allocation and execution keep their types.                               *)
THEOREM SsaTypeCorrect == Spec => []SsaTypeOK
<1>1. SInv => SsaTypeOK
  BY DEF SInv
<1> QED BY <1>1, Invariance, PTL

(* For every body and every number of registers, by colouring as by linear  *)
(* scan: a physical register never stands for two virtual registers whose   *)
(* intervals have a position in common.                                     *)
THEOREM Apart == Spec => []IntervalsApart
<1>1. SInv => IntervalsApart
  BY DEF SInv
<1> QED BY <1>1, Invariance, PTL

(* Every read of the emitted code that does not find the value last         *)
(* defined is explained, for every strict body and every number of          *)
(* registers: the register was overwritten inside its interval, or a phi of *)
(* the same loop takes it over, or the block branches to itself.  The order *)
(* of the blocks, loops, merges reached from behind and widened intervals   *)
(* lose no other value.                                                     *)
THEOREM LossesExplained == Spec => []MisreadsExplained
<1>1. LInv => MisreadsExplained
  <2>1. SUFFICES ASSUME LInv, NEW v \in Vreg, Misread(v), v \notin hit
                 PROVE  v \in left /\ (OwnPhi(v) \/ OnItself)
    BY DEF MisreadsExplained
  <2>2. v \in left
    BY <2>1 DEF LInv, SInv, RunInv, Misread
  <2> QED BY <2>1, <2>2, ReadsLost DEF Misread
<1> QED BY <1>1, LostInvariance, PTL
=============================================================================
