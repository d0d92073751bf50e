--------------------------- MODULE RegAllocProofs ---------------------------
(***************************************************************************)
(* Proofs about RegAlloc for every node list, every number of temporaries   *)
(* and every number of colours.                                             *)
(***************************************************************************)
EXTENDS RegAlloc, FiniteSetTheorems, SequenceTheorems, WellFoundedInduction, TLAPS

(* The graph that select colours is the one build_intervals found.          *)
GraphInv ==
  /\ pc = "build" => ivs = {} /\ stack = <<>>
  /\ pc # "build" => /\ ivs = Referenced(code)
                     /\ adj = {e \in ivs \X ivs : Interferes(code, e[1], e[2])}

(* Colours appear only in select, only on removed nodes, and never twice    *)
(* across an edge.                                                          *)
ColorInv ==
  /\ \A t \in Temp : color[t] # NoColor => pc \in {"select", "assign", "done"} /\ t \in removed
  /\ \A e \in adj : color[e[1]] # NoColor => color[e[1]] # color[e[2]]

(* Assignment copies the colours.                                           *)
AssignInv ==
  \A t \in Temp : assigned[t] =
    IF pc = "done" /\ t \in ivs /\ color[t] # NoColor
    THEN [float |-> IsFloat(code, t), color |-> color[t]] ELSE NoReg

IInv == /\ TypeOK
        /\ CoalescingNeverFires
        /\ GraphInv
        /\ ColorInv
        /\ AssignInv

(* The interference relation is symmetric, so the matrix is.                *)
LEMMA InterferesSym ==
  ASSUME NEW c, NEW t, NEW u, Interferes(c, t, u)
  PROVE  Interferes(c, u, t)
BY DEF Interferes, Overlap

(* A copy refers to both its operands at its own position, so Briggs' test  *)
(* finds the two adjacent.                                                  *)
LEMMA CopyEndsNotMergeable ==
  ASSUME IInv, pc = "coalesce", at \in DOMAIN code, IsTempCopy(code[at])
  PROVE  ~Mergeable(alias[code[at].dst], alias[code[at].src1])
<1> DEFINE u == code[at].dst
           v == code[at].src1
<1>1. u \in Temp /\ v \in Temp /\ alias[u] = u /\ alias[v] = v
  BY DEF IsTempCopy, IInv, CoalescingNeverFires
<1>2. at \in Refs(code, u) /\ at \in Refs(code, v)
  BY DEF Refs, Mentions
<1>3. u \in ivs /\ v \in ivs
  BY <1>1, <1>2 DEF IInv, GraphInv, Referenced
<1>4. at \in Nat
  BY DEF IInv, TypeOK
<1>5. Overlap(code, u, v)
  BY <1>2, <1>4 DEF Overlap
<1>6. SUFFICES ASSUME u # v, IsFloat(code, u) = IsFloat(code, v), <<u, v>> \notin adj
               PROVE  FALSE
  BY <1>1 DEF Mergeable
<1>7. Interferes(code, u, v)
  BY <1>5, <1>6 DEF Interferes
<1>8. <<u, v>> \in adj
  BY <1>3, <1>7 DEF IInv, GraphInv
<1> QED
  BY <1>6, <1>8

LEMMA InitInv == Init => IInv
<1> SUFFICES ASSUME Init PROVE IInv
  OBVIOUS
<1> USE DEF Init
<1>1. TypeOK
  BY RegAllocAssumption DEF TypeOK, Phase
<1>2. CoalescingNeverFires /\ GraphInv /\ ColorInv /\ AssignInv
  BY DEF CoalescingNeverFires, GraphInv, ColorInv, AssignInv
<1> QED
  BY <1>1, <1>2 DEF IInv

LEMMA BuildInv == IInv /\ Build => IInv'
<1> SUFFICES ASSUME IInv, Build PROVE IInv'
  OBVIOUS
<1> USE DEF Build
<1>1. ivs' \subseteq Temp /\ ivs' = Referenced(code)
  BY DEF Referenced
<1>2. TypeOK'
  <2>1. adj' \subseteq ivs' \X ivs'
    OBVIOUS
  <2>2. degree' \in [Temp -> Int]
    <3> SUFFICES ASSUME NEW t \in Temp
                 PROVE  Cardinality({u \in ivs' : <<t, u>> \in adj'}) \in Int
      OBVIOUS
    <3>1. IsFiniteSet({u \in ivs' : <<t, u>> \in adj'})
      BY <1>1, RegAllocAssumption, FS_Subset
    <3> QED
      BY <3>1, FS_CardinalityType
  <2>3. ivs = {} /\ removed = {} /\ stack = <<>> /\ spillCands = {}
    BY DEF IInv, GraphInv, TypeOK
  <2>4. /\ UNCHANGED <<code, removed, stack, spillCands, alias, color, assigned, used>>
        /\ at' = at /\ pc' \in {"done", "coalesce"}
    OBVIOUS
  <2>5. code \in Seq(Node) /\ at' \in 1 .. Len(code) + 1 /\ pc' \in Phase
    BY <2>4 DEF IInv, TypeOK, Phase
  <2>6. removed' \subseteq ivs' /\ stack' \in Seq(ivs') /\ spillCands' \subseteq ivs'
    BY <2>3, <2>4
  <2>7. /\ alias \in [Temp -> Temp]
        /\ color \in [Temp -> (0 .. GprK - 1) \cup (0 .. FloatK - 1) \cup {NoColor}]
        /\ assigned \in [Temp -> Reg \cup {NoReg}] /\ used \subseteq Reg
    BY DEF IInv, TypeOK
  <2> HIDE DEF Build
  <2> QED
    BY <1>1, <2>1, <2>2, <2>4, <2>5, <2>6, <2>7 DEF TypeOK
<1>3. GraphInv'
  BY <1>1 DEF GraphInv
<1>4. ColorInv'
  <2>1. \A t \in Temp : color[t] = NoColor
    BY DEF IInv, ColorInv
  <2>2. \A e \in adj' : e[1] \in Temp
    BY <1>1
  <2> QED
    BY <2>1, <2>2 DEF ColorInv
<1>5. AssignInv'
  BY DEF IInv, AssignInv, ColorInv
<1>6. CoalescingNeverFires'
  BY DEF IInv, CoalescingNeverFires
<1> QED
  BY <1>2, <1>3, <1>4, <1>5, <1>6 DEF IInv

LEMMA ScanCopyInv == IInv /\ ScanCopy => IInv'
<1> SUFFICES ASSUME IInv, ScanCopy PROVE IInv'
  OBVIOUS
<1>1. at \in DOMAIN code /\ at \in Nat /\ Len(code) \in Nat
  BY DEF IInv, TypeOK, ScanCopy
<1>2. UNCHANGED <<adj, degree, removed, alias>>
  BY <1>1, CopyEndsNotMergeable DEF ScanCopy
<1>3. TypeOK'
  BY <1>1, <1>2 DEF IInv, TypeOK, ScanCopy, Phase
<1>4. GraphInv' /\ CoalescingNeverFires'
  BY <1>2 DEF IInv, GraphInv, CoalescingNeverFires, ScanCopy
<1>5. ColorInv' /\ AssignInv'
  BY <1>2 DEF IInv, ColorInv, AssignInv, ScanCopy
<1> QED
  BY <1>3, <1>4, <1>5 DEF IInv

(* Simplify and PushSpillCandidate: both push a remaining node.             *)
LEMMA PushType ==
  ASSUME IInv, NEW t \in Remaining, Push(t)
  PROVE  /\ removed' \subseteq ivs
         /\ stack' \in Seq(ivs)
         /\ degree' \in [Temp -> Int]
  BY DEF IInv, TypeOK, Push, Remaining

LEMMA SimplifyInv == IInv /\ (Simplify \/ PushSpillCandidate) => IInv'
<1> SUFFICES ASSUME IInv, Simplify \/ PushSpillCandidate PROVE IInv'
  OBVIOUS
<1>1. PICK t \in Remaining : Push(t) /\ spillCands' \in {spillCands, spillCands \cup {t}}
  BY DEF Simplify, PushSpillCandidate, Low
<1>2. /\ pc = "simplify" /\ UNCHANGED <<code, pc, at, ivs, adj, alias, color, assigned, used>>
  BY DEF Simplify, PushSpillCandidate
<1>3. TypeOK'
  BY <1>1, <1>2, PushType DEF IInv, TypeOK, Remaining
<1>4. GraphInv' /\ CoalescingNeverFires'
  BY <1>2 DEF IInv, GraphInv, CoalescingNeverFires
<1>5. ColorInv' /\ AssignInv'
  BY <1>2 DEF IInv, ColorInv, AssignInv
<1> QED
  BY <1>3, <1>4, <1>5 DEF IInv

LEMMA StartSelectInv == IInv /\ StartSelect => IInv'
<1> SUFFICES ASSUME IInv, StartSelect PROVE IInv'
  OBVIOUS
<1> USE DEF StartSelect
<1>1. TypeOK'
  BY DEF IInv, TypeOK, Phase
<1>2. GraphInv' /\ CoalescingNeverFires'
  BY DEF IInv, GraphInv, CoalescingNeverFires
<1>3. ColorInv' /\ AssignInv'
  BY DEF IInv, ColorInv, AssignInv
<1> QED
  BY <1>1, <1>2, <1>3 DEF IInv

LEMMA SelectInv == IInv /\ Select => IInv'
<1> SUFFICES ASSUME IInv, Select PROVE IInv'
  OBVIOUS
<1> DEFINE t == stack[Len(stack)]
<1>1. stack \in Seq(ivs) /\ stack # <<>> /\ Len(stack) \in Nat \ {0} /\ t \in ivs /\ t \in Temp
  BY EmptySeq DEF IInv, TypeOK, Select
<1>2. PICK c \in Colors(t) \cup {NoColor} :
        FirstFree(c, Colors(t) \ UsedColors(t)) /\ color' = [color EXCEPT ![t] = c]
  BY DEF Select
<1>3. removed' = removed \cup {t} /\ stack' = SubSeq(stack, 1, Len(stack) - 1)
  BY DEF Select
<1>4. pc = "select" /\ pc' \in {"select", "assign"}
      /\ UNCHANGED <<code, at, ivs, adj, degree, alias, assigned, used, spillCands>>
  BY DEF Select
<1>5. TypeOK'
  <2>1. color' \in [Temp -> (0 .. GprK - 1) \cup (0 .. FloatK - 1) \cup {NoColor}]
    BY <1>1, <1>2 DEF IInv, TypeOK, Colors
  <2>2. stack' \in Seq(ivs)
    BY <1>1, <1>3, SubSeqProperties
  <2> QED
    BY <1>1, <1>3, <1>4, <2>1, <2>2 DEF IInv, TypeOK, Phase
<1>6. GraphInv' /\ CoalescingNeverFires'
  BY <1>4 DEF IInv, GraphInv, CoalescingNeverFires
<1>7. ColorInv'
  <2>1. \A u \in Temp : color'[u] # NoColor => u \in removed'
    BY <1>1, <1>2, <1>3, <1>4 DEF IInv, ColorInv, TypeOK
  <2>2. \A e \in adj : <<e[2], e[1]>> \in adj /\ e[1] \in ivs /\ e[2] \in ivs
                       /\ e[1] # e[2] /\ e = <<e[1], e[2]>>
    BY <1>4, InterferesSym DEF IInv, GraphInv, Interferes
  <2>3. ASSUME NEW u \in ivs, <<t, u>> \in adj, c # NoColor PROVE color[u] # c
    <3>1. u \in Neighbours(t) /\ alias[u] = u /\ u \in Temp
      BY <2>3 DEF Neighbours, IInv, CoalescingNeverFires, TypeOK
    <3>2. c \notin UsedColors(t)
      BY <1>2, <2>3 DEF FirstFree
    <3>3. CASE u \in removed
      BY <3>1, <3>2, <3>3 DEF UsedColors
    <3>4. CASE u \notin removed
      BY <3>1, <3>4, <2>3 DEF IInv, ColorInv
    <3> QED
      BY <3>3, <3>4
  <2>4. ASSUME NEW e \in adj, color'[e[1]] # NoColor PROVE color'[e[1]] # color'[e[2]]
    <3>1. e[1] \in Temp /\ e[2] \in Temp /\ e[1] # e[2]
      BY <2>2 DEF IInv, TypeOK
    <3>2. CASE e[1] = t
      BY <1>1, <1>2, <2>2, <2>3, <2>4, <3>1, <3>2 DEF IInv, TypeOK
    <3>3. CASE e[2] = t
      BY <1>1, <1>2, <2>2, <2>3, <2>4, <3>1, <3>3 DEF IInv, TypeOK
    <3>4. CASE e[1] # t /\ e[2] # t
      BY <1>1, <1>2, <2>4, <3>1, <3>4 DEF IInv, TypeOK, ColorInv
    <3> QED
      BY <3>2, <3>3, <3>4
  <2> QED
    BY <1>4, <2>1, <2>4 DEF ColorInv
<1>8. AssignInv'
  BY <1>4 DEF IInv, AssignInv
<1> QED
  BY <1>5, <1>6, <1>7, <1>8 DEF IInv

LEMMA AssignStepInv == IInv /\ Assign => IInv'
<1> SUFFICES ASSUME IInv, Assign PROVE IInv'
  OBVIOUS
<1> USE DEF Assign
<1>1. \A t \in Temp : alias[t] = t
  BY DEF IInv, CoalescingNeverFires
<1>2. \A t \in Temp : color[t] # NoColor => color[t] \in Nat
  BY RegAllocAssumption DEF IInv, TypeOK
<1>3. \A t \in Temp : assigned'[t] = IF t \in ivs /\ color[t] # NoColor
                                     THEN [float |-> IsFloat(code, t), color |-> color[t]]
                                     ELSE NoReg
  BY <1>1
<1>4. \A t \in Temp : assigned'[t] \in Reg \cup {NoReg}
  BY <1>2, <1>3 DEF Reg, IsFloat
<1>5. TypeOK'
  BY <1>4 DEF IInv, TypeOK, Phase
<1>6. GraphInv' /\ CoalescingNeverFires'
  BY DEF IInv, GraphInv, CoalescingNeverFires
<1>7. ColorInv' /\ AssignInv'
  BY <1>3 DEF IInv, ColorInv, AssignInv
<1> QED
  BY <1>5, <1>6, <1>7 DEF IInv

LEMMA StepInv == IInv /\ [Next]_vars => IInv'
<1> SUFFICES ASSUME IInv, [Next]_vars PROVE IInv'
  OBVIOUS
<1>1. CASE UNCHANGED vars
  BY <1>1 DEF vars, IInv, TypeOK, CoalescingNeverFires, GraphInv, ColorInv, AssignInv
<1> QED
  BY <1>1, BuildInv, ScanCopyInv, SimplifyInv, StartSelectInv, SelectInv, AssignStepInv
  DEF Next

(* Two temporaries in one register are coloured alike and of one class, so  *)
(* they have no edge, and a common position would be one.                   *)
LEMMA InvNoInterference == IInv => NoInterference
<1> SUFFICES ASSUME IInv, pc = "done",
                    NEW t \in ivs, NEW u \in ivs, t # u,
                    assigned[t] # NoReg, assigned[t] = assigned[u],
                    NEW p \in DOMAIN code, InInterval(code, t, p), InInterval(code, u, p)
             PROVE  FALSE
  BY DEF NoInterference
<1>1. t \in Temp /\ u \in Temp /\ p \in Nat
  BY DEF IInv, TypeOK
<1>2. /\ color[t] # NoColor /\ color[t] = color[u]
      /\ IsFloat(code, t) = IsFloat(code, u)
  <2> DEFINE R(x) == [float |-> IsFloat(code, x), color |-> color[x]]
  <2>1. color[t] # NoColor /\ color[u] # NoColor
    BY <1>1 DEF IInv, AssignInv
  <2>2. R(t) = R(u)
    BY <1>1, <2>1 DEF IInv, AssignInv
  <2>3. R(t).float = R(u).float /\ R(t).color = R(u).color
    BY <2>2
  <2> QED
    BY <2>1, <2>3
<1>3. \A q \in DOMAIN code : q \in Nat
  BY DEF IInv, TypeOK
<1>4. Overlap(code, t, u)
  BY <1>1, <1>3 DEF InInterval, Overlap, Refs
<1>5. <<t, u>> \in adj
  BY <1>2, <1>4 DEF Interferes, IInv, GraphInv
<1> QED
  BY <1>2, <1>5 DEF IInv, ColorInv

THEOREM InductiveInvariant == Spec => []IInv
BY InitInv, StepInv, PTL DEF Spec

(* Type correctness of the allocator for every program.                     *)
THEOREM TypeCorrect == Spec => []TypeOK
<1>1. IInv => TypeOK
  BY DEF IInv
<1> QED
  BY <1>1, InductiveInvariant, PTL

(* No two temporaries whose intervals share a position share a register.    *)
THEOREM Coloring == Spec => []NoInterference
BY InductiveInvariant, InvNoInterference, PTL

(* The coalescing loop of chaitin_briggs merges nothing, for any program.   *)
THEOREM CoalescingIsDead == Spec => []CoalescingNeverFires
<1>1. IInv => CoalescingNeverFires
  BY DEF IInv
<1> QED
  BY <1>1, InductiveInvariant, PTL

-----------------------------------------------------------------------------
(* The optimistic colouring argument: a node pushed with degree below K has *)
(* fewer than K neighbours among those pushed after it, and these are the   *)
(* only neighbours that are coloured when it is popped.                     *)

Stacked == {stack[i] : i \in DOMAIN stack}

(* The neighbours of the i-th node on the stack that were pushed after it   *)
(* or are still in the graph.                                               *)
Later(i) == {u \in ivs : <<stack[i], u>> \in adj /\ \A j \in 1 .. i : stack[j] # u}

LiveNeighbours(t) == {u \in ivs \ removed : <<t, u>> \in adj}

OptimismInv ==
  /\ pc \in {"build", "coalesce"} => stack = <<>> /\ removed = {}
  /\ \A i, j \in DOMAIN stack : stack[i] = stack[j] => i = j
  /\ pc = "simplify" => removed = Stacked
  /\ pc = "select" => removed = ivs \ Stacked
  /\ pc \in {"assign", "done"} => ivs \subseteq removed
  /\ pc \in {"coalesce", "simplify"} =>
        \A t \in ivs \ removed : degree[t] = Cardinality(LiveNeighbours(t))
  /\ \A i \in DOMAIN stack : stack[i] \notin spillCands => Cardinality(Later(i)) < GprK
  /\ pc \in {"select", "assign", "done"} =>
        \A t \in removed \ spillCands : color[t] # NoColor

(* Everything the allocator counts is finite.                               *)
LEMMA FiniteParts ==
  ASSUME IInv, NEW S \in SUBSET ivs
  PROVE  IsFiniteSet(S) /\ Cardinality(S) \in Nat
<1>1. S \in SUBSET Temp
  BY DEF IInv, TypeOK
<1> QED
  BY <1>1, RegAllocAssumption, FS_Subset, FS_CardinalityType

LEMMA AdjSym ==
  ASSUME IInv, NEW t, NEW u, <<t, u>> \in adj
  PROVE  <<u, t>> \in adj /\ t # u
<1>1. pc # "build"
  BY DEF IInv, TypeOK, GraphInv
<1>2. t \in ivs /\ u \in ivs /\ Interferes(code, t, u)
  BY <1>1 DEF IInv, GraphInv
<1>3. Interferes(code, u, t) /\ t # u
  BY <1>2, InterferesSym DEF Interferes
<1> QED
  BY <1>1, <1>2, <1>3 DEF IInv, GraphInv

LEMMA OptimismInit == Init => OptimismInv
BY DEF Init, OptimismInv

LEMMA OptimismBuild == IInv /\ OptimismInv /\ Build => OptimismInv'
<1> SUFFICES ASSUME IInv, OptimismInv, Build PROVE OptimismInv'
  OBVIOUS
<1> USE DEF Build
<1>1. stack' = <<>> /\ removed' = {} /\ pc' \in {"done", "coalesce"}
  BY DEF OptimismInv
<1>2. DOMAIN stack' = {}
  BY <1>1
<1>3. \A t \in ivs' \ removed' : degree'[t] = Cardinality(LiveNeighbours(t)')
  <2> SUFFICES ASSUME NEW t \in ivs'
               PROVE  degree'[t] = Cardinality(LiveNeighbours(t)')
    BY <1>1
  <2>1. LiveNeighbours(t)' = {u \in ivs' : <<t, u>> \in adj'}
    BY <1>1 DEF LiveNeighbours
  <2>2. t \in Temp
    BY DEF Referenced
  <2> QED
    BY <2>1, <2>2
<1>4. pc' = "done" => ivs' = {}
  OBVIOUS
<1> QED
  BY <1>1, <1>2, <1>3, <1>4 DEF OptimismInv

LEMMA OptimismScanCopy == IInv /\ OptimismInv /\ ScanCopy => OptimismInv'
<1> SUFFICES ASSUME IInv, OptimismInv, ScanCopy PROVE OptimismInv'
  OBVIOUS
<1>1. at \in DOMAIN code
  BY DEF IInv, TypeOK, ScanCopy
<1>2. UNCHANGED <<adj, degree, removed, alias, ivs, stack, color, spillCands>>
  BY <1>1, CopyEndsNotMergeable DEF ScanCopy
<1>3. pc = "coalesce" /\ pc' \in {"coalesce", "simplify"}
  BY DEF ScanCopy
<1>4. stack = <<>> /\ removed = {} /\ Stacked' = {} /\ DOMAIN stack = {}
  BY <1>2, <1>3 DEF OptimismInv, Stacked
<1>5. /\ \A t : LiveNeighbours(t)' = LiveNeighbours(t)
      /\ ivs' = ivs /\ removed' = removed /\ degree' = degree /\ stack' = stack
  BY <1>2 DEF LiveNeighbours
<1> QED
  BY <1>3, <1>4, <1>5, SMTT(60) DEF OptimismInv

(* What a push does to the stack, and to the degrees.                       *)
LEMMA PushStack ==
  ASSUME IInv, OptimismInv, pc = "simplify", UNCHANGED <<ivs, adj>>,
         NEW t \in Remaining, Push(t)
  PROVE  /\ DOMAIN stack' = 1 .. Len(stack) + 1
         /\ \A i \in DOMAIN stack : stack'[i] = stack[i]
         /\ stack'[Len(stack) + 1] = t
         /\ Stacked' = Stacked \cup {t}
         /\ \A i, j \in DOMAIN stack' : stack'[i] = stack'[j] => i = j
         /\ \A n : n = Len(stack) + 1 => Later(n)' = LiveNeighbours(t)
         /\ \A i \in DOMAIN stack : Later(i)' = Later(i)
         /\ \A u \in ivs' \ removed' : degree'[u] = Cardinality(LiveNeighbours(u)')
<1>1. stack \in Seq(ivs) /\ t \in ivs /\ t \in Temp /\ stack' = Append(stack, t)
      /\ Len(stack) \in Nat /\ DOMAIN stack = 1 .. Len(stack)
  BY DEF IInv, TypeOK, Push, Remaining
<1>2. /\ DOMAIN stack' = 1 .. Len(stack) + 1
      /\ \A i \in DOMAIN stack : stack'[i] = stack[i]
      /\ stack'[Len(stack) + 1] = t
  BY <1>1, AppendProperties
<1>3. Stacked' = Stacked \cup {t}
  BY <1>1, <1>2 DEF Stacked
<1>4. t \notin Stacked /\ removed = Stacked
  BY DEF OptimismInv, Remaining
<1>5. \A i, j \in DOMAIN stack' : stack'[i] = stack'[j] => i = j
  BY <1>1, <1>2, <1>4 DEF OptimismInv, Stacked
<1>6. ASSUME NEW n, n = Len(stack) + 1 PROVE Later(n)' = LiveNeighbours(t)
  <2>1. \A u : <<t, u>> \in adj => u # t
    BY AdjSym
  <2>2. \A u : (\A j \in 1 .. Len(stack) + 1 : stack'[j] # u) <=> (u \notin Stacked /\ u # t)
    BY <1>1, <1>2 DEF Stacked
  <2>3. Later(n)' = {u \in ivs : <<t, u>> \in adj /\ \A j \in 1 .. n : stack'[j] # u}
    BY <1>2, <1>6 DEF Later
  <2> QED
    BY <1>4, <1>6, <2>1, <2>2, <2>3 DEF LiveNeighbours
<1>7. \A i \in DOMAIN stack : Later(i)' = Later(i)
  BY <1>1, <1>2 DEF Later
<1>8. ASSUME NEW u \in ivs' \ removed'
      PROVE  degree'[u] = Cardinality(LiveNeighbours(u)')
  <2>1. /\ u \in ivs \ removed /\ u # t /\ u \in Temp
        /\ removed' = removed \cup {t}
    BY DEF Push, IInv, TypeOK
  <2>2. degree[u] = Cardinality(LiveNeighbours(u))
    BY <2>1 DEF OptimismInv
  <2>3. LiveNeighbours(u)' = LiveNeighbours(u) \ {t}
    BY <2>1 DEF LiveNeighbours
  <2>4. IsFiniteSet(LiveNeighbours(u)) /\ Cardinality(LiveNeighbours(u)) \in Nat
    BY FiniteParts DEF LiveNeighbours
  <2>5. Cardinality(LiveNeighbours(u)') = IF t \in LiveNeighbours(u)
                                          THEN Cardinality(LiveNeighbours(u)) - 1
                                          ELSE Cardinality(LiveNeighbours(u))
    BY <2>3, <2>4, FS_RemoveElement
  <2>6. t \in LiveNeighbours(u) <=> <<t, u>> \in adj
    BY AdjSym DEF LiveNeighbours, Remaining
  <2>7. degree'[u] = IF <<t, u>> \in adj THEN degree[u] - 1 ELSE degree[u]
    BY <2>1 DEF Push, Remaining
  <2> QED
    BY <2>2, <2>5, <2>6, <2>7
<1> QED
  BY <1>2, <1>3, <1>5, <1>6, <1>7, <1>8

LEMMA OptimismPush ==
  IInv /\ OptimismInv /\ (Simplify \/ PushSpillCandidate) => OptimismInv'
<1> SUFFICES ASSUME IInv, OptimismInv, Simplify \/ PushSpillCandidate PROVE OptimismInv'
  OBVIOUS
<1>1. PICK t \in Remaining : /\ Push(t)
                              /\ \/ t \in Low /\ spillCands' = spillCands
                                 \/ spillCands' = spillCands \cup {t}
  BY DEF Simplify, PushSpillCandidate, Low
<1>2. pc = "simplify" /\ UNCHANGED <<pc, ivs, adj, color>>
  BY DEF Simplify, PushSpillCandidate
<1>3. /\ DOMAIN stack' = 1 .. Len(stack) + 1
      /\ \A i \in DOMAIN stack : stack'[i] = stack[i]
      /\ stack'[Len(stack) + 1] = t
      /\ Stacked' = Stacked \cup {t}
      /\ \A i, j \in DOMAIN stack' : stack'[i] = stack'[j] => i = j
      /\ \A n : n = Len(stack) + 1 => Later(n)' = LiveNeighbours(t)
      /\ \A i \in DOMAIN stack : Later(i)' = Later(i)
      /\ \A u \in ivs' \ removed' : degree'[u] = Cardinality(LiveNeighbours(u)')
  BY <1>1, <1>2, PushStack
<1>4. removed' = Stacked'
  BY <1>1, <1>2, <1>3 DEF Push, OptimismInv
<1>5. ASSUME NEW i \in DOMAIN stack', stack'[i] \notin spillCands'
      PROVE  Cardinality(Later(i)') < GprK
  <2>1. CASE i \in DOMAIN stack
    BY <1>1, <1>3, <1>5, <2>1 DEF OptimismInv
  <2>2. CASE i = Len(stack) + 1
    <3>1. t \in Low
      BY <1>1, <1>3, <1>5, <2>2
    <3>2. degree[t] < GprK /\ degree[t] = Cardinality(LiveNeighbours(t))
      BY <1>2, <3>1 DEF Low, OptimismInv, Remaining
    <3> QED
      BY <1>3, <2>2, <3>2
  <2>3. DOMAIN stack = 1 .. Len(stack) /\ Len(stack) \in Nat
    BY DEF IInv, TypeOK
  <2> QED
    BY <1>3, <2>1, <2>2, <2>3
<1> QED
  BY <1>2, <1>3, <1>4, <1>5 DEF OptimismInv

LEMMA OptimismStartSelect == IInv /\ OptimismInv /\ StartSelect => OptimismInv'
<1> SUFFICES ASSUME IInv, OptimismInv, StartSelect PROVE OptimismInv'
  OBVIOUS
<1>1. UNCHANGED <<stack, ivs, adj, spillCands, color>> /\ removed' = {} /\ pc' = "select"
  BY DEF StartSelect
<1>2. ivs \subseteq Stacked
  BY DEF StartSelect, Remaining, OptimismInv
<1>3. Stacked' = Stacked /\ \A i : Later(i)' = Later(i)
  BY <1>1 DEF Stacked, Later
<1> QED
  BY <1>1, <1>2, <1>3 DEF OptimismInv

(* Fewer coloured neighbours than colours: one is free.                     *)
LEMMA FreeColor ==
  ASSUME IInv, OptimismInv, GprK <= FloatK, pc = "select", stack # <<>>,
         NEW t, t = stack[Len(stack)], t \notin spillCands
  PROVE  Colors(t) \ UsedColors(t) # {}
<1>1. Len(stack) \in DOMAIN stack /\ t \in ivs
  BY EmptySeq DEF IInv, TypeOK
<1>2. Cardinality(Later(Len(stack))) < GprK
  BY <1>1 DEF OptimismInv
<1>3. Neighbours(t) \cap removed = Later(Len(stack))
  <2>1. \A u : (\A j \in 1 .. Len(stack) : stack[j] # u) <=> u \notin Stacked
    BY DEF Stacked, IInv, TypeOK
  <2> QED
    BY <2>1 DEF OptimismInv, Neighbours, Later
<1> DEFINE L == Later(Len(stack))
           f == [u \in L |-> color[alias[u]]]
<1>4. f \in Surjection(L, UsedColors(t))
  BY <1>3 DEF UsedColors, Surjection
<1>5. IsFiniteSet(L) /\ Cardinality(L) \in Nat
  BY FiniteParts DEF Later
<1>6. IsFiniteSet(UsedColors(t)) /\ Cardinality(UsedColors(t)) <= Cardinality(L)
  BY <1>4, <1>5, FS_Surjection
<1>7. Cardinality(Colors(t)) >= GprK /\ Cardinality(Colors(t)) \in Nat
  <2>1. PICK k \in {GprK, FloatK} : Colors(t) = 0 .. k - 1
    BY DEF Colors
  <2>2. k \in Nat \ {0} /\ k >= GprK
    BY RegAllocAssumption
  <2>3. Cardinality(0 .. k - 1) = k
    BY <2>2, FS_Interval
  <2> QED
    BY <2>1, <2>2, <2>3
<1>8. SUFFICES ASSUME Colors(t) \subseteq UsedColors(t) PROVE FALSE
  OBVIOUS
<1>9. Cardinality(Colors(t)) <= Cardinality(UsedColors(t))
  BY <1>6, <1>8, FS_Subset
<1>10. Cardinality(UsedColors(t)) \in Nat
  BY <1>6, FS_CardinalityType
<1> QED
  BY <1>2, <1>5, <1>6, <1>7, <1>9, <1>10, RegAllocAssumption

LEMMA OptimismSelect ==
  ASSUME GprK <= FloatK
  PROVE  IInv /\ OptimismInv /\ Select => OptimismInv'
<1> SUFFICES ASSUME IInv, OptimismInv, Select PROVE OptimismInv'
  OBVIOUS
<1>1. PICK t : t = stack[Len(stack)]
  OBVIOUS
<1>2. /\ stack \in Seq(ivs) /\ stack # <<>> /\ Len(stack) \in Nat \ {0}
      /\ DOMAIN stack = 1 .. Len(stack) /\ t \in ivs /\ t \in Temp
  BY <1>1, EmptySeq DEF IInv, TypeOK, Select
<1>3. PICK c \in Colors(t) \cup {NoColor} :
        FirstFree(c, Colors(t) \ UsedColors(t)) /\ color' = [color EXCEPT ![t] = c]
  BY <1>1 DEF Select
<1>4. /\ removed' = removed \cup {t} /\ UNCHANGED <<ivs, adj, spillCands>>
      /\ pc = "select" /\ pc' = IF Len(stack) = 1 THEN "assign" ELSE "select"
  BY <1>1 DEF Select
<1>5. /\ DOMAIN stack' = 1 .. Len(stack) - 1
      /\ \A i \in DOMAIN stack' : stack'[i] = stack[i]
  <2>1. stack' = SubSeq(stack, 1, Len(stack) - 1)
    BY DEF Select
  <2>2. \A i \in 1 .. Len(stack) - 1 : stack[i] \in ivs
    BY <1>2
  <2>3. /\ stack' \in Seq(ivs) /\ Len(stack') = Len(stack) - 1
        /\ \A i \in 1 .. Len(stack) - 1 : stack'[i] = stack[i]
    BY <1>2, <2>1, <2>2, SubSeqProperties
  <2> QED
    BY <2>3
<1>6. Stacked' = Stacked \ {t}
  <2>1. \A n \in Nat \ {0} : 1 .. n = (1 .. n - 1) \cup {n} /\ n \notin 1 .. n - 1
    OBVIOUS
  <2>2. /\ 1 .. Len(stack) = (1 .. Len(stack) - 1) \cup {Len(stack)}
        /\ Len(stack) \notin 1 .. Len(stack) - 1
    BY <1>2, <2>1
  <2>3. \A i, j \in 1 .. Len(stack) : stack[i] = stack[j] => i = j
    BY <1>2 DEF OptimismInv
  <2>4. Stacked = {stack[i] : i \in 1 .. Len(stack) - 1} \cup {t}
    BY <1>1, <1>2, <2>2 DEF Stacked
  <2>5. Stacked' = {stack[i] : i \in 1 .. Len(stack) - 1}
    BY <1>5 DEF Stacked
  <2>6. t \notin {stack[i] : i \in 1 .. Len(stack) - 1}
    BY <1>1, <2>2, <2>3
  <2> QED
    BY <2>4, <2>5, <2>6
<1>7. removed' = ivs \ Stacked'
  BY <1>2, <1>4, <1>6 DEF OptimismInv, Stacked
<1>8. pc' = "assign" => Stacked' = {}
  BY <1>2, <1>4, <1>5 DEF Stacked
<1>9. \A i \in DOMAIN stack' : Later(i)' = Later(i)
  <2> SUFFICES ASSUME NEW i \in DOMAIN stack' PROVE Later(i)' = Later(i)
    OBVIOUS
  <2>1. i \in Int /\ \A j \in 1 .. i : j \in DOMAIN stack'
    BY <1>2, <1>5
  <2>2. stack'[i] = stack[i] /\ \A j \in 1 .. i : stack'[j] = stack[j]
    BY <1>5, <2>1
  <2> QED
    BY <1>4, <2>2 DEF Later
<1>10. \A i \in DOMAIN stack' : stack'[i] \notin spillCands' => Cardinality(Later(i)') < GprK
  BY <1>2, <1>4, <1>5, <1>9 DEF OptimismInv
<1>11. \A u \in removed' \ spillCands' : color'[u] # NoColor
  <2>1. t \notin spillCands => c # NoColor
    BY <1>1, <1>2, <1>3, <1>4, FreeColor, RegAllocAssumption DEF FirstFree, Colors
  <2>2. \A u \in removed \ spillCands : color[u] # NoColor /\ u \in Temp
    BY <1>4 DEF OptimismInv, IInv, TypeOK
  <2> QED
    BY <1>2, <1>3, <1>4, <2>1, <2>2 DEF IInv, TypeOK
<1>12. \A i, j \in DOMAIN stack' : stack'[i] = stack'[j] => i = j
  BY <1>2, <1>5 DEF OptimismInv
<1> QED
  BY <1>4, <1>7, <1>8, <1>10, <1>11, <1>12 DEF OptimismInv

LEMMA OptimismAssign == IInv /\ OptimismInv /\ Assign => OptimismInv'
<1> SUFFICES ASSUME OptimismInv, Assign PROVE OptimismInv'
  OBVIOUS
<1>1. /\ pc = "assign" /\ pc' = "done"
      /\ UNCHANGED <<ivs, adj, stack, removed, spillCands, color>>
  BY DEF Assign
<1>2. \A i : Later(i)' = Later(i)
  BY <1>1 DEF Later
<1> QED
  BY <1>1, <1>2 DEF OptimismInv

LEMMA OptimismStep ==
  ASSUME GprK <= FloatK
  PROVE  IInv /\ OptimismInv /\ [Next]_vars => OptimismInv'
<1> SUFFICES ASSUME IInv, OptimismInv, [Next]_vars PROVE OptimismInv'
  OBVIOUS
<1>1. CASE UNCHANGED vars
  BY <1>1 DEF vars, OptimismInv, LiveNeighbours, Later, Stacked
<1> QED
  BY <1>1, OptimismBuild, OptimismScanCopy, OptimismPush, OptimismStartSelect,
     OptimismSelect, OptimismAssign
  DEF Next

(* What simplify removes for its low degree is never spilled, provided the  *)
(* float class has at least the GprK colours that simplify counts with      *)
(* (regalloc_config.h gives both classes 7).                                *)
THEOREM Optimism ==
  ASSUME GprK <= FloatK
  PROVE  Spec => []SimplifiedNeverSpills
<1>1. Init => IInv /\ OptimismInv
  BY InitInv, OptimismInit
<1>2. (IInv /\ OptimismInv) /\ [Next]_vars => (IInv /\ OptimismInv)'
  BY StepInv, OptimismStep
<1>3. IInv /\ OptimismInv => SimplifiedNeverSpills
  <2> SUFFICES ASSUME IInv, OptimismInv, pc = "done", NEW t \in ivs \ spillCands
               PROVE  assigned[t] # NoReg
    BY DEF SimplifiedNeverSpills
  <2>1. t \in Temp /\ color[t] # NoColor
    BY DEF IInv, TypeOK, OptimismInv
  <2>2. assigned[t] = [float |-> IsFloat(code, t), color |-> color[t]]
    BY <2>1 DEF IInv, AssignInv
  <2>3. assigned[t] \in Reg
    BY <2>1, <2>2, RegAllocAssumption DEF IInv, TypeOK, Reg, IsFloat
  <2> QED
    BY <2>3, RegAllocAssumption
<1> QED
  BY <1>1, <1>2, <1>3, PTL DEF Spec

-----------------------------------------------------------------------------
(* Interval graphs: among the nodes that remain, the one whose interval ends *)
(* first has all its neighbours alive at that position.                      *)

LEMMA LeastExists ==
  ASSUME NEW S \in SUBSET Nat, S # {}
  PROVE  \E x \in S : \A y \in S : x <= y
<1> DEFINE R == OpToRel(<, Nat)
<1>1. IsWellFoundedOn(R, Nat)
  BY NatLessThanWellFounded
<1>2. \A x, y \in Nat : <<y, x>> \in R <=> y < x
  BY DEF OpToRel
<1> HIDE DEF R
<1>3. PICK x \in S : \A y \in S : ~ (<<y, x>> \in R)
  BY <1>1, WFMin
<1>4. \A y \in S : ~(y < x) /\ x \in Nat /\ y \in Nat
  BY <1>2, <1>3
<1> QED
  BY <1>4

LowPressure == \A p \in DOMAIN code : Pressure(FALSE, p) <= GprK /\ Pressure(TRUE, p) <= FloatK

LEMMA LowExists ==
  ASSUME IInv, OptimismInv, LowPressure, FloatK = GprK, pc = "simplify", Remaining # {}
  PROVE  Low # {}
<1> DEFINE ends == {p \in Nat : \E t \in Remaining : \A q \in Refs(code, t) : q <= p}
<1>1. /\ Len(code) \in Nat /\ DOMAIN code = 1 .. Len(code)
      /\ \A t : Refs(code, t) \subseteq 1 .. Len(code)
  BY DEF IInv, TypeOK, Refs
<1>2. Len(code) \in ends
  BY <1>1
<1>3. PICK e \in ends : \A p \in ends : e <= p
  BY <1>2, LeastExists
<1>4. PICK t \in Remaining : \A q \in Refs(code, t) : q <= e
  OBVIOUS
<1>5. e \in Nat /\ e <= Len(code)
  BY <1>2, <1>3
<1>6. \A u \in Remaining : u \in ivs /\ u \in Temp /\ Refs(code, u) # {}
  BY DEF Remaining, IInv, TypeOK, GraphInv, Referenced
<1>7. ASSUME NEW u \in Remaining PROVE \E last \in Refs(code, u) : e <= last
  <2> SUFFICES ASSUME \A q \in Refs(code, u) : ~(e <= q) PROVE FALSE
    OBVIOUS
  <2>1. PICK r \in Refs(code, u) : r \in 1 .. Len(code)
    BY <1>1, <1>6
  <2>2. e - 1 \in Nat /\ \A q \in Refs(code, u) : q <= e - 1
    BY <1>1, <1>5, <2>1
  <2>3. e - 1 \in ends
    BY <2>2
  <2> QED
    BY <1>3, <1>5, <2>3
<1>8. e \in DOMAIN code
  <2>1. PICK last \in Refs(code, t) : e <= last
    BY <1>7
  <2>2. PICK r \in Refs(code, t) : r \in 1 .. Len(code) /\ r <= e
    BY <1>1, <1>4, <1>6
  <2> QED
    BY <1>1, <1>5, <2>2
<1> DEFINE f == IsFloat(code, t)
           S == {v \in ivs : IsFloat(code, v) = f /\ InInterval(code, v, e)}
           L == LiveNeighbours(t)
<1>9. t \in S
  <2>1. PICK last \in Refs(code, t) : e <= last
    BY <1>7
  <2>2. PICK r \in Refs(code, t) : r <= e
    BY <1>4, <1>6
  <2> QED
    BY <1>6, <2>1, <2>2 DEF InInterval
<1>10. ASSUME NEW u \in L PROVE u \in S
  <2>1. u \in Remaining /\ <<t, u>> \in adj
    BY DEF LiveNeighbours, Remaining
  <2>2. Interferes(code, t, u)
    BY <2>1 DEF IInv, GraphInv
  <2>3. IsFloat(code, u) = f
    BY <2>2 DEF Interferes
  <2>4. PICK s \in Refs(code, u), l \in Refs(code, t) : s <= l
    BY <2>2 DEF Interferes, Overlap
  <2>5. s \in Nat /\ l \in Nat /\ l <= e
    BY <1>1, <1>4
  <2>6. s <= e
    BY <1>5, <2>4, <2>5
  <2>7. PICK last \in Refs(code, u) : e <= last
    BY <1>7, <2>1
  <2>8. InInterval(code, u, e)
    BY <2>6, <2>7 DEF InInterval
  <2> QED
    BY <1>6, <2>1, <2>3, <2>8
<1>11. Cardinality(S) <= GprK
  <2>1. f \in BOOLEAN
    BY DEF IsFloat
  <2>2. Cardinality(S) = Pressure(f, e)
    BY DEF Pressure
  <2> QED
    BY <1>8, <2>1, <2>2 DEF LowPressure
<1>12. t \notin L /\ IsFiniteSet(S) /\ Cardinality(S) \in Nat /\ IsFiniteSet(L)
       /\ Cardinality(L) \in Nat
  <2>1. t \notin L
    BY AdjSym DEF LiveNeighbours
  <2> QED
    BY <2>1, FiniteParts DEF LiveNeighbours
<1>13. Cardinality(L \cup {t}) = Cardinality(L) + 1
  BY <1>12, FS_AddElement
<1>14. Cardinality(L \cup {t}) <= Cardinality(S)
  BY <1>9, <1>10, <1>12, FS_Subset
<1>15. degree[t] = Cardinality(L)
  BY DEF OptimismInv, Remaining
<1> QED
  BY <1>11, <1>12, <1>13, <1>14, <1>15, RegAllocAssumption DEF Low

PeakInv == pc # "build" /\ LowPressure => spillCands = {}

LEMMA PeakStep ==
  ASSUME FloatK = GprK
  PROVE  IInv /\ OptimismInv /\ PeakInv /\ [Next]_vars => PeakInv'
<1> SUFFICES ASSUME IInv, OptimismInv, PeakInv, [Next]_vars PROVE PeakInv'
  OBVIOUS
<1>1. CASE Build
  BY <1>1 DEF Build, IInv, TypeOK, GraphInv, PeakInv
<1>2. CASE PushSpillCandidate
  <2>1. Remaining # {} /\ Low = {} /\ pc = "simplify" /\ UNCHANGED <<code, ivs, pc>>
    BY <1>2 DEF PushSpillCandidate
  <2>2. ~LowPressure
    BY <2>1, LowExists
  <2> QED
    BY <2>1, <2>2 DEF PeakInv, LowPressure, Pressure
<1>3. CASE ScanCopy \/ Simplify \/ StartSelect \/ Select \/ Assign \/ UNCHANGED vars
  <2>1. UNCHANGED <<code, ivs, spillCands>> /\ (pc' # "build" => pc # "build")
    BY <1>3 DEF ScanCopy, Simplify, StartSelect, Select, Assign, vars
  <2> QED
    BY <2>1 DEF PeakInv, LowPressure, Pressure
<1> QED
  BY <1>1, <1>2, <1>3 DEF Next

(* No program needs a stack slot as long as no position has more than K     *)
(* temporaries of a class inside their intervals, when both classes have K   *)
(* colours (regalloc_config.h gives both 7).                                *)
THEOREM NoNeedlessSpill ==
  ASSUME FloatK = GprK
  PROVE  Spec => []NoSpillUnderPressure
<1>0. GprK <= FloatK
  BY RegAllocAssumption
<1>1. Init => IInv /\ OptimismInv /\ PeakInv
  BY InitInv, OptimismInit DEF Init, PeakInv
<1>2. (IInv /\ OptimismInv /\ PeakInv) /\ [Next]_vars => (IInv /\ OptimismInv /\ PeakInv)'
  BY <1>0, StepInv, OptimismStep, PeakStep
<1>3. PeakInv /\ SimplifiedNeverSpills => NoSpillUnderPressure
  BY DEF PeakInv, SimplifiedNeverSpills, NoSpillUnderPressure, LowPressure
<1>4. Spec => []SimplifiedNeverSpills
  BY <1>0, Optimism
<1> QED
  BY <1>1, <1>2, <1>3, <1>4, PTL DEF Spec
=============================================================================
