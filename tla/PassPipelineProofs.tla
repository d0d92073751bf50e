------------------------- MODULE PassPipelineProofs -------------------------
(***************************************************************************)
(* The default pipeline, for every set of functions: the links of the list  *)
(* stay sound while nodes are freed, value numbering stays in its block,    *)
(* what its table holds has been computed on every path, the list that is   *)
(* left has the effects of the source, and value numbering misses nothing   *)
(* while its tables have room.  All but the first rest on the soundness of  *)
(* the dominator sets, the last one on their completeness as well           *)
(* (DominanceProofs).                                                       *)
(***************************************************************************)
EXTENDS PassPipeline, DominanceProofs

(* Where a temporary may be used: behind its definition, or behind the      *)
(* label where the copies that define the result of a "?:" meet.  The       *)
(* theorem that speaks of it holds for every choice that fits the function  *)
(* (SsaForm).                                                               *)
CONSTANT Birth

Places == 0 .. Len(ir)
Operand == Temp \cup {NoTemp}

(* The function as it was handed over, and what has become of it.           *)
SourceInv ==
  /\ source \in Code /\ nodes = Control(source)
  /\ ir \in Seq(IRNode) /\ Len(ir) = Len(source)
  /\ owner \in BOOLEAN
  /\ stage \in {"analyse", "dce", "gvn", "scan", "ccp", "dce2", "run"}
  /\ stage = "analyse" => freed = {}
  /\ stage \in {"analyse", "dce"} => ir = source /\ table = <<>> /\ cong = <<>>
  /\ stage \in {"dce", "gvn"} =>
       \A p \in freed : source[p].dst # NoTemp /\ source[p].op \notin SideEffect

(* A link leads to the next node of the list, also that of a freed node,    *)
(* unless that one was freed afterwards.                                    *)
LinkInv ==
  /\ next \in [Places -> Places] /\ freed \subseteq DOMAIN ir
  /\ \A p \in Places : next[p] = 0 \/ p < next[p]
  /\ \A p \in Places, q \in Listed : p < q => next[p] # 0 /\ next[p] <= q
  /\ \A p \in {0} \cup Listed : next[p] \notin freed
  /\ prev \in Places /\ cur \in Places
  /\ stage \in {"dce", "dce2"} => prev \in {0} \cup Listed /\ cur = next[prev]

Row  == [op : Pure, src1 : Operand, src2 : Operand, dst : Temp]
Pair == [from : Temp, to : Temp]

DataInv ==
  /\ table \in Seq(Row) /\ cong \in Seq(Pair)
  /\ aliases \subseteq [from : Operand, to : Operand]
  /\ consts \in [Temp -> {<<>>} \cup {<<i>> : i \in Imm}]
  /\ again \in BOOLEAN /\ full \in BOOLEAN /\ strayed \in BOOLEAN
  /\ Len(table) <= MaxEntries /\ Len(cong) <= MaxCongs
  /\ stage = "gvn" /\ ~full => Len(table) < MaxEntries

(* The scopes open in the walk are a path down the tree from the entry; a   *)
(* block is on it once, and the scope above it ends where its own begins.   *)
Scope == [block : Nat, entries : Nat, congs : Nat, todo : Seq(Nat)]

Path(i) == walk[i].block

PathInv ==
  /\ \A i \in DOMAIN walk :
       /\ Path(i) \in Block /\ walk[i].todo \in Seq(children[Path(i)])
       /\ i = 1 => Path(i) = 1
       /\ i # 1 => Path(i) # 1 /\ idom[Path(i)] = Path(i - 1)
  /\ \A i, j \in DOMAIN walk : i < j =>
       /\ Path(i) # Path(j) /\ Path(i) \in dom[Path(j)]
       /\ walk[i].entries <= walk[j].entries /\ walk[i].congs <= walk[j].congs

ScopeInv ==
  /\ walk \in Seq(Scope)
  /\ stage # "gvn" => walk = <<>>
  /\ stage = "gvn" => walk # <<>> /\ pc = "done"
  /\ \A i \in DOMAIN walk : walk[i].entries <= Len(table) /\ walk[i].congs <= Len(cong)
  /\ PathInv

(* The tree stays as it was built.                                          *)
KeptTree == pc \in {"tree", "done"} => ChildrenInv

GraphInv == PhasesInv /\ CompleteInv /\ KeptTree
PInv == GraphInv /\ SourceInv /\ LinkInv /\ DataInv /\ ScopeInv
-----------------------------------------------------------------------------
(* The analysis.                                                            *)
LEMMA GraphInit == Init => GraphInv
BY PhasesInit DEF Init, GraphInv, CompleteInv, KeptTree

LEMMA GraphStep ==
  ASSUME PredecessorsFit, GraphInv, [Next]_vars
  PROVE  GraphInv'
<1>1. PhasesInv' /\ CompleteInv'
  BY PhasesStep, CompleteStep DEF GraphInv
<1>2. CASE Split \/ StartWire \/ Wire \/ StartSweep \/ SweepBlock \/ EndSweep \/ ExtractIdom
  <2>1. pc' \notin {"tree", "done"}
    BY <1>2 DEF Split, StartWire, Wire, StartSweep, SweepBlock, EndSweep, ExtractIdom
  <2> QED BY <1>1, <2>1 DEF GraphInv, KeptTree
<1>3. CASE StartTree
  <2>1. WalkInv' /\ pc' = "tree"
    BY <1>3, WalkStarts DEF GraphInv, StartTree
  <2> QED BY <1>1, <2>1 DEF GraphInv, KeptTree, WalkInv
<1>4. CASE Number \/ NumberRest \/ UNCHANGED vars
  <2>1. /\ UNCHANGED <<first, idom, children>>
        /\ pc' \in {"tree", "done"} => pc \in {"tree", "done"}
    BY <1>4 DEF Number, NumberRest, vars
  <2>2. ChildrenInv => ChildrenInv'
    BY <2>1 DEF ChildrenInv, ChildrenFit, Block
  <2> QED BY <1>1, <2>1, <2>2 DEF GraphInv, KeptTree
<1> QED BY <1>2, <1>3, <1>4 DEF Next

LEMMA NodesFixed ==
  ASSUME [Next]_vars PROVE nodes' = nodes
BY DEF Next, vars, Split, StartWire, Wire, StartSweep, SweepBlock, EndSweep, ExtractIdom,
       StartTree, Number, NumberRest

(* Only the first stage moves the analysis.                                 *)
LEMMA PassesKeepGraph ==
  ASSUME [PipeNext]_pipeVars
  PROVE  [Next]_vars /\ source' = source /\ owner' = owner
<1>1. CASE Analyse
  BY <1>1 DEF Analyse, fixed
<1>2. CASE StartDce \/ DceDelete \/ DceKeep \/ DceAgain \/ StartGvn \/ StartRun \/ Run
  BY <1>2 DEF StartDce, DceDelete, DceKeep, DceAgain, StartGvn, StartRun, Run, fixed
<1>3. CASE GvnNode \/ GvnDescend \/ GvnLeave \/ ScanNode \/ EndScan \/ CcpNode \/ EndCcp
  BY <1>3 DEF GvnNode, GvnDescend, GvnLeave, ScanNode, EndScan, CcpNode, EndCcp, fixed
<1>4. CASE UNCHANGED pipeVars
  BY <1>4 DEF pipeVars, fixed
<1> QED BY <1>1, <1>2, <1>3, <1>4 DEF PipeNext

-----------------------------------------------------------------------------
(* Following links twice keeps to a set that links do not leave.            *)
LEMMA TwiceStays ==
  ASSUME NEW S, NEW T \in SUBSET S, NEW f \in [S -> S], \A u \in T : f[u] \in T
  PROVE  Twice(f) \in [S -> S] /\ \A u \in T : Twice(f)[u] \in T
BY DEF Twice

(* Congruences lead from a set that they do not leave to no other place.    *)
LEMMA LeaderStays ==
  ASSUME DataInv, NEW T \in SUBSET Operand, \A i \in DOMAIN cong : cong[i].from \in T => cong[i].to \in T,
         NEW t \in T
  PROVE  Leader(t) \in T
<1> DEFINE known(u) == {i \in DOMAIN cong : cong[i].from = u}
           hop == [u \in Operand |-> IF known(u) = {} THEN u ELSE cong[Least(known(u))].to]
           h1 == Twice(hop)
           h2 == Twice(h1)
           h3 == Twice(h2)
           h4 == Twice(h3)
<1>1. hop \in [Operand -> Operand] /\ \A u \in T : hop[u] \in T
  <2>1. ASSUME NEW u, known(u) # {}
        PROVE  /\ cong[Least(known(u))].to \in Operand
               /\ u \in T => cong[Least(known(u))].to \in T
    <3>1. known(u) \in SUBSET Nat
      BY DEF DataInv
    <3>2. Least(known(u)) \in known(u)
      BY <2>1, <3>1, LeastExists DEF Least
    <3>3. \A i \in DOMAIN cong : cong[i] \in Pair
      BY DEF DataInv
    <3> QED BY <3>2, <3>3 DEF Pair, Operand
  <2> HIDE DEF known
  <2>2. \A u \in Operand : hop[u] \in Operand /\ (u \in T => hop[u] \in T)
    BY <2>1
  <2>3. hop = [u \in Operand |-> hop[u]]
    OBVIOUS
  <2> HIDE DEF hop
  <2> QED BY <2>2, <2>3
<1>2. Leader(t) = h4[t]
  BY DEF Leader, Operand
<1> HIDE DEF hop
<1>4. h1 \in [Operand -> Operand] /\ \A u \in T : h1[u] \in T
  BY <1>1, TwiceStays
<1> HIDE DEF h1
<1>5. h2 \in [Operand -> Operand] /\ \A u \in T : h2[u] \in T
  BY <1>4, TwiceStays
<1> HIDE DEF h2
<1>6. h3 \in [Operand -> Operand] /\ \A u \in T : h3[u] \in T
  BY <1>5, TwiceStays
<1> HIDE DEF h3
<1>7. h4 \in [Operand -> Operand] /\ \A u \in T : h4[u] \in T
  BY <1>6, TwiceStays
<1> QED BY <1>2, <1>7

LEMMA LeaderType ==
  ASSUME DataInv, NEW t \in Operand
  PROVE  Leader(t) \in Operand /\ (t \in Temp => Leader(t) \in Temp)
<1>1. \A i \in DOMAIN cong : cong[i].to \in Temp
  <2>1. \A i \in DOMAIN cong : cong[i] \in Pair
    BY DEF DataInv
  <2> QED BY <2>1 DEF Pair
<1>2. Temp \in SUBSET Operand /\ Operand \in SUBSET Operand
  BY DEF Operand
<1> QED BY <1>1, <1>2, LeaderStays

(* The same of the copies.                                                  *)
LEMMA ResolveStays ==
  ASSUME DataInv, NEW T \in SUBSET Operand, \A a \in aliases : a.from \in T => a.to \in T, NEW t \in T
  PROVE  Resolve(t) \in T
<1> DEFINE known(u) == {a \in aliases : a.from = u}
           hop == [u \in Operand |-> IF known(u) = {} THEN u ELSE (CHOOSE a \in known(u) : TRUE).to]
           h1 == Twice(hop)
           h2 == Twice(h1)
           h3 == Twice(h2)
           h4 == Twice(h3)
           h5 == Twice(h4)
           h6 == Twice(h5)
<1>1. hop \in [Operand -> Operand] /\ \A u \in T : hop[u] \in T
  <2>1. ASSUME NEW u, known(u) # {}
        PROVE  /\ (CHOOSE a \in known(u) : TRUE).to \in Operand
               /\ u \in T => (CHOOSE a \in known(u) : TRUE).to \in T
    <3>1. (CHOOSE a \in known(u) : TRUE) \in known(u)
      BY <2>1
    <3> QED BY <3>1 DEF DataInv
  <2> HIDE DEF known
  <2>2. \A u \in Operand : hop[u] \in Operand /\ (u \in T => hop[u] \in T)
    BY <2>1
  <2>3. hop = [u \in Operand |-> hop[u]]
    OBVIOUS
  <2> HIDE DEF hop
  <2> QED BY <2>2, <2>3
<1>2. Resolve(t) = h6[t]
  BY DEF Resolve, Operand
<1> HIDE DEF hop
<1>4. h1 \in [Operand -> Operand] /\ \A u \in T : h1[u] \in T
  BY <1>1, TwiceStays
<1> HIDE DEF h1
<1>5. h2 \in [Operand -> Operand] /\ \A u \in T : h2[u] \in T
  BY <1>4, TwiceStays
<1> HIDE DEF h2
<1>6. h3 \in [Operand -> Operand] /\ \A u \in T : h3[u] \in T
  BY <1>5, TwiceStays
<1> HIDE DEF h3
<1>7. h4 \in [Operand -> Operand] /\ \A u \in T : h4[u] \in T
  BY <1>6, TwiceStays
<1> HIDE DEF h4
<1>8. h5 \in [Operand -> Operand] /\ \A u \in T : h5[u] \in T
  BY <1>7, TwiceStays
<1> HIDE DEF h5
<1>9. h6 \in [Operand -> Operand] /\ \A u \in T : h6[u] \in T
  BY <1>8, TwiceStays
<1> QED BY <1>2, <1>9

LEMMA ResolveType ==
  ASSUME DataInv, NEW t \in Operand
  PROVE  Resolve(t) \in Operand
<1>1. \A a \in aliases : a.to \in Operand
  BY DEF DataInv
<1> QED BY <1>1, ResolveStays
-----------------------------------------------------------------------------
(* The nodes.                                                               *)
LEMMA SizeFacts ==
  ASSUME SourceInv
  PROVE  /\ Len(ir) \in Nat \ {0} /\ DOMAIN ir = 1 .. Len(ir) /\ DOMAIN ir \subseteq Places
         /\ \A p \in DOMAIN ir : ir[p] \in IRNode
         /\ Len(nodes) = Len(ir) /\ DOMAIN nodes = DOMAIN ir /\ DOMAIN source = DOMAIN ir
         /\ \A p \in DOMAIN ir : source[p] \in IRNode /\ (nodes[p].op = "label" <=> source[p].op = "label")
<1>1. source \in Seq(IRNode) /\ source # <<>>
  BY PipelineAssumption DEF SourceInv
<1>2. Len(source) \in Nat \ {0} /\ DOMAIN source = 1 .. Len(source)
  BY <1>1, EmptySeq
<1>3. ir \in Seq(IRNode) /\ Len(ir) = Len(source) /\ nodes = Control(source)
  BY DEF SourceInv
<1>4. DOMAIN ir = 1 .. Len(ir) /\ \A p \in DOMAIN ir : ir[p] \in IRNode
  BY <1>3
<1>5. nodes = [p \in 1 .. Len(source) |->
                 [op |-> IF source[p].op \in Branching THEN source[p].op ELSE "op",
                  label |-> source[p].label]]
  BY <1>2, <1>3 DEF Control
<1>6. DOMAIN nodes = 1 .. Len(source) /\ Len(nodes) = Len(source)
  BY <1>2, <1>5
<1>7. \A p \in 1 .. Len(source) : nodes[p].op = "label" <=> source[p].op = "label"
  BY <1>5 DEF Branching
<1>8. \A p \in 1 .. Len(source) : source[p] \in IRNode
  BY <1>1, <1>2
<1> QED BY <1>2, <1>3, <1>4, <1>6, <1>7, <1>8 DEF Places

LEMMA ReplaceNode ==
  ASSUME SourceInv, cur \in DOMAIN ir, NEW x \in IRNode, ir' = [ir EXCEPT ![cur] = x]
  PROVE  ir' \in Seq(IRNode) /\ Len(ir') = Len(ir)
BY SizeFacts DEF SourceInv

LEMMA CanonType ==
  ASSUME DataInv, NEW n, Known(n) # {}
  PROVE  /\ Least(Known(n)) \in DOMAIN table
         /\ table[Least(Known(n))].dst \in Temp
<1>1. Known(n) \in SUBSET Nat /\ Known(n) \subseteq DOMAIN table
  BY DEF DataInv, Known
<1>2. Least(Known(n)) \in Known(n)
  BY <1>1, LeastExists DEF Least
<1>3. \A i \in DOMAIN table : table[i] \in Row
  BY DEF DataInv
<1> QED BY <1>1, <1>2, <1>3 DEF Row

LEMMA CongruentType ==
  ASSUME DataInv, NEW a \in Temp, NEW b \in Temp
  PROVE  Congruent(a, b) \in Seq(Pair) /\ Len(Congruent(a, b)) \in Nat
         /\ Len(cong) <= Len(Congruent(a, b)) /\ Len(Congruent(a, b)) <= MaxCongs
<1>1. Leader(b) \in Temp
  BY LeaderType DEF Operand
<1>2. cong \in Seq(Pair) /\ Len(cong) \in Nat /\ Len(cong) <= MaxCongs /\ MaxCongs \in Nat
  BY PipelineAssumption DEF DataInv
<1> DEFINE new == [from |-> a, to |-> Leader(b)]
           over == [i \in DOMAIN cong |-> IF cong[i].from = a THEN new ELSE cong[i]]
<1>3. new \in Pair
  BY <1>1 DEF Pair
<1> HIDE DEF new
<1>4. over \in Seq(Pair) /\ Len(over) = Len(cong)
  <2>1. \A i \in 1 .. Len(cong) : cong[i] \in Pair /\ DOMAIN cong = 1 .. Len(cong)
    BY <1>2
  <2> QED BY <1>2, <1>3, <2>1
<1>5. Append(cong, new) \in Seq(Pair) /\ Len(Append(cong, new)) = Len(cong) + 1
  BY <1>2, <1>3
<1>6. CASE a = b
  BY <1>2, <1>6 DEF Congruent
<1>7. CASE a # b /\ \E i \in DOMAIN cong : cong[i].from = a
  <2>1. Congruent(a, b) = over
    BY <1>7 DEF Congruent, new
  <2> QED BY <1>2, <1>4, <2>1
<1>8. CASE a # b /\ (~ \E i \in DOMAIN cong : cong[i].from = a) /\ Len(cong) < MaxCongs
  <2>1. Congruent(a, b) = Append(cong, new)
    BY <1>8 DEF Congruent, new
  <2> HIDE DEF over
  <2> QED BY <1>2, <1>5, <1>8, <2>1
<1>9. CASE a # b /\ (~ \E i \in DOMAIN cong : cong[i].from = a) /\ ~(Len(cong) < MaxCongs)
  BY <1>2, <1>9 DEF Congruent
<1> QED BY <1>6, <1>7, <1>8, <1>9

(* What value numbering and propagation write are nodes.                    *)
LEMMA NumberingWrites ==
  ASSUME SourceInv, LinkInv, DataInv, GvnNode \/ ScanNode
  PROVE  /\ ir' \in Seq(IRNode) /\ Len(ir') = Len(ir)
         /\ \A p \in DOMAIN ir : /\ ir'[p].dst = ir[p].dst
                                 /\ ir[p].op \notin SideEffect => ir'[p].op \notin SideEffect
<1> DEFINE n == ir[cur]
           m == Forward(n, table[Least(Known(n))].dst)
<1>1. cur \in DOMAIN ir /\ n \in IRNode
  BY SizeFacts DEF LinkInv, GvnNode, ScanNode, Places
<1>2. ir' = ir \/ (Known(n) # {} /\ ir' = [ir EXCEPT ![cur] = m])
  BY DEF GvnNode, ScanNode
<1>3. CASE ir' = ir
  BY <1>3 DEF SourceInv
<1>4. CASE Known(n) # {} /\ ir' = [ir EXCEPT ![cur] = m]
  <2>1. table[Least(Known(n))].dst \in Temp
    BY <1>4, CanonType
  <2>2. m \in IRNode /\ m.dst = n.dst /\ m.op \notin SideEffect
    BY <1>1, <2>1 DEF Forward, IRNode, SideEffect
  <2> HIDE DEF m
  <2>3. ir' \in Seq(IRNode) /\ Len(ir') = Len(ir)
    BY <1>1, <1>4, <2>2, ReplaceNode
  <2> QED BY <1>1, <1>4, <2>2, <2>3
<1> QED BY <1>2, <1>3, <1>4

LEMMA PropagationWrites ==
  ASSUME SourceInv, LinkInv, DataInv, CcpNode
  PROVE  ir' \in Seq(IRNode) /\ Len(ir') = Len(ir)
<1> DEFINE n == ir[cur]
<1>1. cur \in DOMAIN ir /\ n \in IRNode
  BY SizeFacts DEF LinkInv, CcpNode, Places
<1>2. CASE CcpLabel \/ CcpConst(n)
  BY <1>2 DEF CcpLabel, CcpConst, SourceInv
<1>3. CASE Constant(n.src1) /\ CcpConstCopy(n)
  <2> DEFINE x == [n EXCEPT !.op = "const", !.imm = consts[n.src1][1], !.src1 = NoTemp, !.src2 = NoTemp]
  <2>1. n.src1 \in Temp
    BY <1>1, <1>3 DEF Constant, IRNode
  <2>2. PICK i \in Imm : consts[n.src1] = <<i>>
    BY <1>3, <2>1 DEF Constant, DataInv
  <2>3. x \in IRNode
    <3>1. consts[n.src1][1] = i
      BY <2>2
    <3> QED BY <1>1, <3>1 DEF IRNode
  <2>4. ir' = [ir EXCEPT ![cur] = x]
    BY <1>3 DEF CcpConstCopy
  <2> HIDE DEF x
  <2> QED BY <1>1, <2>3, <2>4, ReplaceNode
<1>4. CASE CcpUse(n)
  <2> DEFINE d == IF n.op = "store" THEN Resolve(n.dst) ELSE n.dst
             e == IF IsCopy(n) THEN n.src2 ELSE Resolve(n.src2)
             x == [n EXCEPT !.src1 = Resolve(n.src1), !.src2 = e, !.dst = d]
  <2>1. Resolve(n.src1) \in Operand /\ Resolve(n.src2) \in Operand /\ Resolve(n.dst) \in Operand
    BY <1>1, ResolveType DEF IRNode, Operand
  <2>2. x \in IRNode
    <3>1. d \in Operand /\ e \in Operand
      BY <1>1, <2>1 DEF IRNode, Operand
    <3> HIDE DEF d, e
    <3> QED BY <1>1, <2>1, <3>1 DEF IRNode, Operand
  <2>3. ir' = [ir EXCEPT ![cur] = x]
    BY <1>1, <1>4 DEF CcpUse
  <2> HIDE DEF x
  <2> QED BY <1>1, <2>2, <2>3, ReplaceNode
<1> QED BY <1>2, <1>3, <1>4 DEF CcpNode

LEMMA SourceInit == PipeInit => SourceInv
<1> SUFFICES ASSUME PipeInit PROVE SourceInv
  OBVIOUS
<1>1. source \in Code /\ Control(source) = nodes /\ ir = source /\ owner \in BOOLEAN
      /\ freed = {} /\ stage = "analyse" /\ table = <<>> /\ cong = <<>>
  BY DEF PipeInit
<1>2. source \in Seq(IRNode)
  BY <1>1, PipelineAssumption
<1> QED BY <1>1, <1>2 DEF SourceInv

LEMMA SourceStep ==
  ASSUME SourceInv, LinkInv, DataInv, [PipeNext]_pipeVars
  PROVE  SourceInv'
<1>1. source' = source /\ owner' = owner /\ nodes' = nodes
  BY PassesKeepGraph, NodesFixed
<1> USE <1>1 DEF SourceInv
<1>2. CASE Analyse
  BY <1>2 DEF Analyse, listVars, gvnVars
<1>3. CASE StartDce
  BY <1>3 DEF StartDce, StartSweepAt, listVars, gvnVars
<1>4. CASE DceDelete
  <2>1. stage = "dce" => ir[cur].dst # NoTemp /\ ir[cur].op \notin SideEffect
    BY <1>4 DEF DceDelete, Dead
  <2> QED BY <1>4, <2>1 DEF DceDelete, gvnVars
<1>5. CASE DceKeep \/ DceAgain
  BY <1>5 DEF DceKeep, DceAgain, StartSweepAt, listVars, gvnVars
<1>6. CASE StartGvn
  BY <1>6 DEF StartGvn, listVars
<1>7. CASE GvnNode \/ ScanNode
  <2>1. ir' \in Seq(IRNode) /\ Len(ir') = Len(ir)
    BY <1>7, NumberingWrites
  <2> QED BY <1>7, <2>1 DEF GvnNode, ScanNode
<1>8. CASE GvnDescend
  BY <1>8 DEF GvnDescend, listVars
<1>9. CASE GvnLeave \/ EndScan
  BY <1>9 DEF GvnLeave, EndScan, StartSweepAt, listVars
<1>10. CASE CcpNode
  <2>1. ir' \in Seq(IRNode) /\ Len(ir') = Len(ir)
    BY <1>10, PropagationWrites
  <2> QED BY <1>10, <2>1 DEF CcpNode
<1>11. CASE EndCcp \/ StartRun \/ Run
  BY <1>11 DEF EndCcp, StartRun, Run, StartSweepAt, listVars
<1>12. CASE UNCHANGED pipeVars
  BY <1>12 DEF pipeVars, listVars, gvnVars
<1> QED BY <1>2, <1>3, <1>4, <1>5, <1>6, <1>7, <1>8, <1>9, <1>10, <1>11, <1>12 DEF PipeNext
-----------------------------------------------------------------------------
(* The links.                                                               *)
LEMMA LinkInit == PipeInit => LinkInv
<1> SUFFICES ASSUME PipeInit PROVE LinkInv
  OBVIOUS
<1>1. SourceInv /\ ir = source /\ freed = {} /\ prev = 0 /\ cur = 0 /\ stage = "analyse"
  BY SourceInit DEF PipeInit
<1>2. /\ Len(ir) \in Nat \ {0} /\ DOMAIN ir = 1 .. Len(ir)
      /\ next = [p \in 0 .. Len(ir) |-> IF p = Len(ir) THEN 0 ELSE p + 1]
  BY <1>1, SizeFacts DEF PipeInit
<1>3. Places = 0 .. Len(ir) /\ Listed = 1 .. Len(ir)
  BY <1>1, <1>2 DEF Places, Listed
<1> DEFINE N == Len(ir)
<1>4. N \in Nat \ {0} /\ \A p \in 0 .. N : next[p] = IF p = N THEN 0 ELSE p + 1
  BY <1>2
<1>5. next = [p \in 0 .. N |-> next[p]]
  BY <1>2
<1>6. Places = 0 .. N /\ Listed = 1 .. N /\ DOMAIN ir = 1 .. N
  BY <1>2, <1>3
<1> HIDE DEF N
<1>7. \A p \in 0 .. N : next[p] \in 0 .. N /\ (next[p] = 0 \/ p < next[p])
  BY <1>4
<1>8. next \in [0 .. N -> 0 .. N]
  BY <1>5, <1>7
<1>9. \A p \in 0 .. N, q \in 1 .. N : p < q => next[p] # 0 /\ next[p] <= q
  BY <1>4
<1>10. 0 \in 0 .. N
  BY <1>4
<1> QED BY <1>1, <1>6, <1>7, <1>8, <1>9, <1>10 DEF LinkInv

(* Taking out the node a cursor stands on keeps the rest linked.            *)
LEMMA Unlink ==
  ASSUME SourceInv, LinkInv, DceDelete
  PROVE  LinkInv'
<1> DEFINE N == Len(ir)
<1>1. /\ N \in Nat \ {0} /\ DOMAIN ir = 1 .. N /\ Places = 0 .. N
  BY SizeFacts DEF Places
<1>2. /\ next \in [Places -> Places] /\ freed \subseteq DOMAIN ir
      /\ \A p \in Places : next[p] = 0 \/ p < next[p]
      /\ \A p \in Places, q \in Listed : p < q => next[p] # 0 /\ next[p] <= q
      /\ \A p \in {0} \cup Listed : next[p] \notin freed
      /\ prev \in {0} \cup Listed /\ cur = next[prev] /\ cur \in Places
  BY DEF LinkInv, DceDelete
<1>3. /\ cur # 0 /\ next' = [next EXCEPT ![prev] = next[cur]]
      /\ freed' = freed \cup {cur} /\ cur' = next[cur] /\ prev' = prev /\ ir' = ir
      /\ stage' = stage
  BY DEF DceDelete
<1>4. Listed' = Listed \ {cur} /\ Places' = Places /\ Listed \subseteq 1 .. N
  BY <1>1, <1>3 DEF Listed, Places
<1>5. cur \in Listed /\ prev < cur /\ prev \in Places
  BY <1>1, <1>2, <1>3, <1>4 DEF Listed
<1>12. cur \in Nat /\ prev \in Nat /\ \A p \in Places : p \in Nat /\ next[p] \in Nat
  BY <1>1, <1>2, <1>5
<1>6. next' \in [Places -> Places] /\ freed' \subseteq DOMAIN ir
  BY <1>1, <1>2, <1>3, <1>5
<1>7. \A p \in Places : next'[p] = IF p = prev THEN next[cur] ELSE next[p]
  BY <1>2, <1>3, <1>5
<1>8. ASSUME NEW p \in Places PROVE next'[p] = 0 \/ p < next'[p]
  <2>1. next[cur] = 0 \/ cur < next[cur]
    BY <1>2
  <2>2. next[cur] \in Nat /\ cur \in Nat /\ prev \in Nat
    BY <1>2, <1>12
  <2>3. CASE p = prev
    BY <1>5, <1>7, <2>1, <2>2, <2>3
  <2> QED BY <1>2, <1>7, <2>3
<1>9. ASSUME NEW p \in Places, NEW q \in Listed', p < q PROVE next'[p] # 0 /\ next'[p] <= q
  <2>1. q \in Listed /\ q # cur
    BY <1>4
  <2>2. CASE p = prev
    <3>1. cur <= q
      BY <1>2, <2>1, <2>2, <1>9
    <3>2. cur < q
      <4>1. q \in Nat
        BY <1>1, <1>4, <2>1
      <4> QED BY <1>12, <2>1, <3>1, <4>1
    <3> QED BY <1>2, <1>5, <1>7, <2>1, <2>2, <3>2
  <2> QED BY <1>2, <1>7, <1>9, <2>1, <2>2
<1>10. ASSUME NEW p \in {0} \cup Listed' PROVE next'[p] \notin freed'
  <2>1. p \in {0} \cup Listed /\ p \in Places /\ p # cur
    BY <1>1, <1>3, <1>4
  <2>2. CASE p = prev
    <3>1. next[cur] \notin freed /\ next[cur] # cur
      BY <1>1, <1>2, <1>3, <1>5
    <3> QED BY <1>3, <1>7, <2>1, <2>2, <3>1
  <2>3. CASE p # prev
    <3>1. next[p] \notin freed
      BY <1>2, <2>1
    <3>2. next[p] # cur
      <4>1. CASE p < prev
        <5>1. prev \in Listed
          BY <1>1, <1>2, <2>1, <4>1
        <5>2. next[p] <= prev
          BY <1>2, <2>1, <4>1, <5>1
        <5> QED BY <1>1, <1>2, <1>5, <2>1, <5>2
      <4>2. CASE prev < p /\ p < cur
        <5>1. p \in Listed
          BY <1>1, <2>1, <4>2, <1>5
        <5> QED BY <1>1, <1>2, <1>5, <2>1, <4>2, <5>1
      <4>3. CASE cur < p
        <5>1. (next[p] = 0 \/ p < next[p]) /\ p \in Nat /\ next[p] \in Nat /\ cur \in Nat
          BY <1>2, <1>12, <2>1
        <5> QED BY <1>3, <4>3, <5>1
      <4>4. p \in Nat
        BY <1>1, <2>1
      <4> QED BY <1>12, <2>1, <2>3, <4>1, <4>2, <4>3, <4>4
    <3> QED BY <1>3, <1>7, <2>1, <2>3, <3>1, <3>2
  <2> QED BY <2>2, <2>3
<1>11. prev' \in {0} \cup Listed' /\ cur' = next'[prev'] /\ prev' \in Places' /\ cur' \in Places'
  BY <1>1, <1>2, <1>3, <1>4, <1>5, <1>7
<1> QED BY <1>1, <1>3, <1>4, <1>6, <1>8, <1>9, <1>10, <1>11 DEF LinkInv

(* The other steps move cursors only.                                       *)
LEMMA LinksKept ==
  ASSUME SourceInv, LinkInv, next' = next, freed' = freed, Len(ir') = Len(ir),
         DOMAIN ir' = DOMAIN ir, prev' \in Places, cur' \in Places,
         stage' \in {"dce", "dce2"} => prev' \in {0} \cup Listed /\ cur' = next[prev']
  PROVE  LinkInv'
<1>1. Places' = Places /\ Listed' = Listed
  BY DEF Places, Listed
<1> QED BY <1>1 DEF LinkInv

LEMMA JumpsAreInside ==
  ASSUME SourceInv, NEW p \in DOMAIN ir
  PROVE  Jumps(p) \subseteq Places
<1>1. Jumps(p) \subseteq DOMAIN nodes
  BY DEF Jumps
<1> QED BY <1>1, SizeFacts

LEMMA LinkStep ==
  ASSUME GraphInv, SourceInv, LinkInv, DataInv, ScopeInv, [PipeNext]_pipeVars
  PROVE  LinkInv'
<1>1. /\ Len(ir) \in Nat \ {0} /\ DOMAIN ir = 1 .. Len(ir) /\ Places = 0 .. Len(ir)
      /\ next \in [Places -> Places] /\ prev \in Places /\ cur \in Places /\ 0 \in Places
      /\ next[0] \in Places /\ next[cur] \in Places
      /\ stage \in {"dce", "dce2"} => prev \in {0} \cup Listed /\ cur = next[prev]
  BY SizeFacts DEF LinkInv, Places
<1>2. CASE Analyse
  BY <1>1, <1>2, LinksKept DEF Analyse, listVars
<1>3. CASE StartDce \/ DceAgain
  BY <1>1, <1>3, LinksKept DEF StartDce, DceAgain, StartSweepAt, listVars
<1>4. CASE DceDelete
  BY <1>4, Unlink
<1>5. CASE DceKeep
  <2>1. cur \in Listed
    <3>1. next[prev] \notin freed
      BY <1>1, <1>5 DEF LinkInv, DceKeep
    <3> QED BY <1>1, <1>5, <3>1 DEF DceKeep, Listed
  <2> QED BY <1>1, <1>5, <2>1, LinksKept DEF DceKeep, listVars
<1>6. ASSUME NEW b \in Block PROVE first[b] \in Places
  <2>1. first[b] \in 1 .. Len(nodes)
    BY NodesType DEF GraphInv, PhasesInv
  <2> QED BY <1>1, <2>1, SizeFacts
<1>7. CASE StartGvn
  <2>1. first[1] \in Places
    <3>1. 1 \in Block
      BY NodesType DEF GraphInv, PhasesInv, Block
    <3> QED BY <1>6, <3>1
  <2> QED BY <1>1, <1>7, <2>1, LinksKept DEF StartGvn, listVars
<1>8. CASE GvnNode \/ ScanNode
  <2>1. Len(ir') = Len(ir) /\ ir' \in Seq(IRNode)
    BY <1>8, NumberingWrites
  <2>2. DOMAIN ir' = DOMAIN ir
    BY <1>1, <2>1
  <2>3. cur' \in Places
    BY <1>1, <1>8 DEF GvnNode, ScanNode, AfterNode
  <2> QED BY <1>1, <1>8, <2>1, <2>2, <2>3, LinksKept DEF GvnNode, ScanNode
<1>9. CASE GvnDescend
  <2>1. Head(Top.todo) \in Block
    <3>1. walk \in Seq(Scope) /\ walk # <<>>
      BY <1>9 DEF ScopeInv, GvnDescend
    <3>2. Len(walk) \in DOMAIN walk
      BY <3>1, EmptySeq
    <3>3. Top.todo \in Seq(children[Top.block]) /\ Top.block \in Block /\ Top.todo # <<>>
      BY <1>9, <3>2 DEF ScopeInv, PathInv, Path, Top, GvnDescend
    <3>4. children \in [Block -> SUBSET Block]
      BY <1>9 DEF GraphInv, KeptTree, ChildrenInv, ScopeInv, GvnDescend
    <3>5. Head(Top.todo) \in children[Top.block]
      BY <3>3
    <3> QED BY <3>3, <3>4, <3>5
  <2>2. cur' \in Places
    BY <1>6, <1>9, <2>1 DEF GvnDescend
  <2> QED BY <1>1, <1>9, <2>2, LinksKept DEF GvnDescend, listVars
<1>10. CASE GvnLeave \/ EndScan \/ EndCcp
  BY <1>1, <1>10, LinksKept DEF GvnLeave, EndScan, EndCcp, StartSweepAt, listVars
<1>11. CASE CcpNode
  <2>1. Len(ir') = Len(ir) /\ ir' \in Seq(IRNode)
    BY <1>11, PropagationWrites
  <2>2. DOMAIN ir' = DOMAIN ir
    BY <1>1, <2>1
  <2> QED BY <1>1, <1>11, <2>1, <2>2, LinksKept DEF CcpNode
<1>12. CASE StartRun
  BY <1>1, <1>12, LinksKept DEF StartRun, listVars
<1>13. CASE Run
  <2>1. Jumps(cur) \subseteq Places
    BY <1>1, <1>13, JumpsAreInside DEF Run
  <2>2. cur' \in Places
    BY <1>1, <1>13, <2>1 DEF Run
  <2> QED BY <1>1, <1>13, <2>2, LinksKept DEF Run, listVars
<1>14. CASE UNCHANGED pipeVars
  BY <1>1, <1>14, LinksKept DEF pipeVars, listVars
<1> QED BY <1>2, <1>3, <1>4, <1>5, <1>7, <1>8, <1>9, <1>10, <1>11, <1>12, <1>13, <1>14 DEF PipeNext
-----------------------------------------------------------------------------
(* The tables.                                                              *)
LEMMA DataInit == PipeInit => DataInv
<1>1. MaxEntries \in Nat \ {0} /\ MaxCongs \in Nat \ {0} /\ Len(<<>>) = 0
  BY PipelineAssumption
<1> QED BY <1>1 DEF PipeInit, DataInv, NoConst

(* What one node of value numbering does to the tables.                     *)
LEMMA NumberingRecords ==
  ASSUME SourceInv, LinkInv, DataInv, GvnNode \/ ScanNode
  PROVE  /\ table' \in Seq(Row) /\ cong' \in Seq(Pair)
         /\ Len(table') <= MaxEntries /\ Len(cong') <= MaxCongs
         /\ GvnNode => /\ Len(cong') >= Len(cong)
                       /\ \/ table' = table
                          \/ \E r \in Row : table' = Append(table, r) /\ r.dst = ir[cur].dst
                                             /\ ir[cur].op \in Pure
<1> DEFINE n == ir[cur]
           canon == table[Least(Known(n))].dst
<1>1. n \in IRNode
  BY SizeFacts DEF LinkInv, GvnNode, ScanNode, Places
<1>2. /\ table \in Seq(Row) /\ cong \in Seq(Pair) /\ Len(cong) \in Nat /\ Len(table) \in Nat
      /\ Len(table) <= MaxEntries /\ Len(cong) <= MaxCongs
      /\ MaxEntries \in Nat \ {0} /\ MaxCongs \in Nat
  BY PipelineAssumption DEF DataInv
<1>3. ASSUME n.op \in Pure, n.dst # NoTemp PROVE Entry(n) \in Row /\ Entry(n).dst = n.dst
  <2>1. n.src1 \in Operand /\ n.src2 \in Operand /\ n.dst \in Temp
    BY <1>1, <1>3 DEF IRNode, Operand
  <2>2. Leader(n.src1) \in Operand /\ Leader(n.src2) \in Operand
    BY <2>1, LeaderType
  <2> QED BY <1>3, <2>1, <2>2 DEF Entry, Row
<1>9. ASSUME n.op \in Pure, n.dst # NoTemp
      PROVE  /\ Inserted(n) \in Seq(Row) /\ Len(Inserted(n)) <= MaxEntries
             /\ Inserted(n) \in {table, Append(table, Entry(n))}
  BY <1>2, <1>3, <1>9 DEF Inserted
<1>4. ASSUME Known(n) # {} PROVE canon \in Temp
  BY <1>4, CanonType
<1>5. ASSUME NEW t \in Temp, n.dst # NoTemp
      PROVE  /\ Congruent(n.dst, t) \in Seq(Pair) /\ Len(Congruent(n.dst, t)) >= Len(cong)
             /\ Len(Congruent(n.dst, t)) <= MaxCongs
  <2>1. n.dst \in Temp
    BY <1>1, <1>5 DEF IRNode
  <2> QED BY <1>2, <2>1, CongruentType
<1>6. n.src1 # NoTemp => n.src1 \in Temp
  BY <1>1 DEF IRNode
<1> HIDE DEF canon
<1>7. CASE GvnNode
  <2>1. CASE n.dst # NoTemp /\ n.src1 # NoTemp /\ cong' = Congruent(n.dst, n.src1) /\ table' = table
    BY <1>2, <1>5, <1>6, <2>1
  <2>2. CASE Known(n) # {} /\ n.dst # NoTemp /\ cong' = Congruent(n.dst, canon) /\ table' = table
    BY <1>2, <1>4, <1>5, <2>2
  <2>3. CASE n.op \in Pure /\ n.dst # NoTemp /\ table' = Inserted(n) /\ cong' = cong
    <3>1. /\ table' \in Seq(Row) /\ Len(table') <= MaxEntries
          /\ table' \in {table, Append(table, Entry(n))}
      BY <1>9, <2>3
    <3> QED BY <1>2, <1>3, <2>3, <3>1
  <2>4. CASE table' = table /\ cong' = cong
    BY <1>2, <2>4
  <2> QED BY <1>7, <2>1, <2>2, <2>3, <2>4 DEF GvnNode, canon, IsCopy
<1>8. CASE ScanNode
  <2>1. cong' = cong
    BY <1>8 DEF ScanNode
  <2>2. \/ table' \in {<<>>, table}
        \/ n.op \in Pure /\ n.dst # NoTemp /\ table' = Inserted(n)
    BY <1>8 DEF ScanNode
  <2>3. table' \in Seq(Row) /\ Len(table') <= MaxEntries
    <3>1. CASE table' = <<>>
      BY <1>2, <3>1, EmptySeq
    <3>3. CASE table' = table
      BY <1>2, <3>3
    <3>2. CASE n.op \in Pure /\ n.dst # NoTemp /\ table' = Inserted(n)
      BY <1>9, <3>2
    <3> QED BY <2>2, <3>1, <3>2, <3>3
  <2>4. ~GvnNode
    BY <1>8 DEF ScanNode, GvnNode
  <2> QED BY <1>2, <2>1, <2>3, <2>4
<1> QED BY <1>7, <1>8

LEMMA PropagationRecords ==
  ASSUME SourceInv, LinkInv, DataInv, CcpNode
  PROVE  /\ aliases' \subseteq [from : Operand, to : Operand]
         /\ consts' \in [Temp -> {<<>>} \cup {<<i>> : i \in Imm}]
         /\ again' \in BOOLEAN
<1> DEFINE n == ir[cur]
           Found == {<<>>} \cup {<<i>> : i \in Imm}
<1>1. n \in IRNode
  BY SizeFacts DEF LinkInv, CcpNode, Places
<1>2. /\ aliases \subseteq [from : Operand, to : Operand] /\ consts \in [Temp -> Found]
      /\ again \in BOOLEAN
  BY DEF DataInv
<1>3. CASE CcpLabel
  BY <1>2, <1>3 DEF CcpLabel, NoConst
<1>4. CASE CcpConst(n)
  <2>1. <<n.imm>> \in Found
    BY <1>1 DEF IRNode
  <2> HIDE DEF Found
  <2>2. consts' \in [Temp -> Found]
    BY <1>2, <1>4, <2>1 DEF CcpConst, ConstantOf
  <2> QED BY <1>2, <1>4, <2>2 DEF CcpConst, Found
<1>5. CASE Constant(n.src1) /\ CcpConstCopy(n)
  <2>1. n.src1 \in Temp
    BY <1>1, <1>5 DEF Constant, IRNode
  <2>2. consts[n.src1] \in Found /\ <<consts[n.src1][1]>> \in Found
    <3>1. PICK i \in Imm : consts[n.src1] = <<i>>
      BY <1>2, <1>5, <2>1 DEF Constant
    <3> QED BY <3>1
  <2> HIDE DEF Found
  <2>3. consts' \in [Temp -> Found] /\ again' = TRUE /\ aliases' = aliases
    BY <1>2, <1>5, <2>2 DEF CcpConstCopy, ConstantOf
  <2> QED BY <1>2, <2>3 DEF Found
<1>6. CASE CcpUse(n)
  <2>1. n.dst \in Operand /\ Resolve(n.src1) \in Operand
    BY <1>1, ResolveType DEF IRNode, Operand
  <2>2. AliasOf(n.dst, Resolve(n.src1)) \subseteq [from : Operand, to : Operand]
    BY <1>2, <2>1 DEF AliasOf
  <2>3. aliases' \in {aliases, AliasOf(n.dst, Resolve(n.src1))} /\ consts' = consts
        /\ again' = (again \/ ir' # ir)
    BY <1>6 DEF CcpUse
  <2>4. again' \in BOOLEAN
    BY <2>3
  <2> QED BY <1>2, <2>2, <2>3, <2>4
<1> QED BY <1>3, <1>4, <1>5, <1>6 DEF CcpNode

LEMMA DataStep ==
  ASSUME GraphInv, SourceInv, LinkInv, DataInv, ScopeInv, [PipeNext]_pipeVars
  PROVE  DataInv'
<1> USE DEF DataInv, gvnVars, ccpVars, execVars
<1>0. MaxEntries \in Nat \ {0} /\ MaxCongs \in Nat \ {0} /\ Len(<<>>) = 0
  BY PipelineAssumption
<1>1. CASE Analyse \/ StartDce \/ DceDelete \/ DceKeep \/ DceAgain \/ StartRun \/ Run
  BY <1>1 DEF Analyse, StartDce, DceDelete, DceKeep, DceAgain, StartRun, Run, StartSweepAt
<1>7. CASE StartGvn
  <2>1. table = <<>> /\ cong = <<>>
    BY <1>7 DEF StartGvn, SourceInv
  <2> QED BY <1>0, <1>7, <2>1 DEF StartGvn
<1>2. CASE GvnNode \/ ScanNode
  <2>1. /\ table' \in Seq(Row) /\ cong' \in Seq(Pair)
        /\ Len(table') <= MaxEntries /\ Len(cong') <= MaxCongs
    BY <1>2, NumberingRecords
  <2>2. full' \in BOOLEAN
    BY <1>2 DEF GvnNode, ScanNode
  <2>3. stage' = "gvn" /\ ~full' => Len(table') < MaxEntries
    <3>1. stage' = "gvn" /\ ~full' => Len(table') # MaxEntries
      <4>1. CASE GvnNode
        <5>1. full' = (full \/ Len(table') = MaxEntries)
          BY <4>1 DEF GvnNode
        <5> QED BY <5>1
      <4>2. CASE ScanNode
        BY <4>2 DEF ScanNode
      <4> QED BY <1>2, <4>1, <4>2
    <3>2. Len(table') \in Nat
      BY <2>1
    <3> QED BY <1>0, <2>1, <3>1, <3>2
  <2> QED BY <1>2, <2>1, <2>2, <2>3 DEF GvnNode, ScanNode
<1>3. CASE GvnDescend \/ EndScan \/ UNCHANGED pipeVars
  BY <1>3 DEF GvnDescend, EndScan, StartSweepAt, pipeVars
<1>4. CASE GvnLeave
  <2>1. walk \in Seq(Scope) /\ walk # <<>>
    BY <1>4 DEF ScopeInv, GvnLeave
  <2>2. Len(walk) \in DOMAIN walk
    BY <2>1, EmptySeq
  <2>3. Top \in Scope /\ Top.entries <= Len(table) /\ Top.congs <= Len(cong)
    BY <2>1, <2>2 DEF Top, ScopeInv
  <2>4. Top.entries \in Nat /\ Top.congs \in Nat
    BY <2>3 DEF Scope
  <2>5. /\ table' \in Seq(Row) /\ cong' \in Seq(Pair)
        /\ Len(table') <= Len(table) /\ Len(cong') <= Len(cong) /\ Len(table') \in Nat /\ Len(cong') \in Nat
    BY <1>4, <2>3, <2>4 DEF GvnLeave
  <2>6. full' = full /\ stage = "gvn" /\ aliases' = aliases /\ consts' = consts /\ again' \in BOOLEAN
        /\ strayed' = strayed
    BY <1>4 DEF GvnLeave, StartSweepAt
  <2>7. Len(table) \in Nat /\ Len(cong) \in Nat
    OBVIOUS
  <2> QED BY <1>0, <2>5, <2>6, <2>7
<1>5. CASE CcpNode
  BY <1>5, PropagationRecords DEF CcpNode
<1>6. CASE EndCcp
  BY <1>6 DEF EndCcp, StartSweepAt, NoConst
<1> QED BY <1>1, <1>2, <1>3, <1>4, <1>5, <1>6, <1>7 DEF PipeNext
-----------------------------------------------------------------------------
(* The scopes.                                                              *)
LEMMA ScopeInit == PipeInit => ScopeInv
BY DEF PipeInit, ScopeInv, PathInv

(* The innermost scope.                                                     *)
LEMMA TopFacts ==
  ASSUME ScopeInv, stage = "gvn"
  PROVE  /\ Len(walk) \in Nat \ {0} /\ Len(walk) \in DOMAIN walk /\ DOMAIN walk = 1 .. Len(walk)
         /\ Top = walk[Len(walk)] /\ Top.block = Path(Len(walk)) /\ Top \in Scope
         /\ Top.block \in Block /\ Top.todo \in Seq(children[Top.block]) /\ pc = "done"
<1>1. walk \in Seq(Scope) /\ walk # <<>> /\ pc = "done"
  BY DEF ScopeInv
<1>2. Len(walk) \in Nat \ {0} /\ Len(walk) \in DOMAIN walk /\ DOMAIN walk = 1 .. Len(walk)
  BY <1>1, EmptySeq
<1>3. walk[Len(walk)] \in Scope
  BY <1>1, <1>2
<1> QED BY <1>1, <1>2, <1>3 DEF ScopeInv, PathInv, Path, Top

(* The finished tree: a child has its idom for a parent.                    *)
LEMMA TreeFacts ==
  ASSUME GraphInv, pc = "done"
  PROVE  /\ Computed /\ CompleteInv /\ Partition /\ BlocksInv /\ Block \subseteq Nat /\ 1 \in Block
         /\ \A b \in Block : /\ children[b] \subseteq Block /\ IsFiniteSet(children[b])
                             /\ Ascending(children[b]) \in Seq(children[b])
                             /\ \A c \in children[b] : c # 1 /\ idom[c] = b /\ b \in dom[c]
<1>1. Computed /\ CompleteInv /\ Partition /\ BlocksInv /\ ChildrenInv
  BY DEF GraphInv, Computed, Partition, PhasesInv, KeptTree
<1>2. /\ dom \in [Block -> SUBSET Block] /\ \A b \in Block : idom[b] = IF b = 1 THEN 0 ELSE Closest(b)
  BY DEF GraphInv, PhasesInv, SweepInv, IdomInv
<1>3. Block \subseteq Nat /\ 1 \in Block /\ 0 \notin Block
  BY <1>1, NodesType DEF Block
<1>4. ASSUME NEW b \in Block
      PROVE  /\ children[b] \subseteq Block /\ IsFiniteSet(children[b])
             /\ Ascending(children[b]) \in Seq(children[b])
  <2>1. children[b] \subseteq Block
    BY <1>1 DEF ChildrenInv
  <2>2. IsFiniteSet(children[b])
    BY <1>1, <2>1, SetsOfBlocks
  <2> QED BY <1>3, <2>1, <2>2, AscendingLists
<1>5. ASSUME NEW b \in Block, NEW c \in children[b]
      PROVE  c # 1 /\ idom[c] = b /\ b \in dom[c]
  <2>1. c \in Block /\ c # 1 /\ idom[c] = b
    BY <1>1, <1>4 DEF ChildrenInv
  <2>2. Closest(c) = b /\ b # 0
    BY <1>2, <1>3, <2>1
  <2> QED BY <1>1, <1>2, <2>1, <2>2, ClosestIsStrict
<1> QED BY <1>1, <1>3, <1>4, <1>5

LEMMA ScopesKept ==
  ASSUME ScopeInv, walk' = walk, UNCHANGED vars, stage' = stage,
         Len(table') >= Len(table), Len(cong') >= Len(cong),
         Len(table) \in Nat, Len(cong) \in Nat, Len(table') \in Nat, Len(cong') \in Nat
  PROVE  ScopeInv'
<1>1. Block' = Block /\ children' = children /\ idom' = idom /\ dom' = dom /\ pc' = pc
  BY DEF vars, Block
<1>2. PathInv'
  BY <1>1 DEF ScopeInv, PathInv, Path
<1>3. walk \in Seq(Scope)
  BY DEF ScopeInv
<1>4. ASSUME NEW i \in DOMAIN walk
      PROVE  walk[i].entries <= Len(table') /\ walk[i].congs <= Len(cong')
  <2>1. walk[i] \in Scope
    BY <1>3
  <2>2. walk[i].entries \in Nat /\ walk[i].congs \in Nat
    BY <2>1 DEF Scope
  <2>3. walk[i].entries <= Len(table) /\ walk[i].congs <= Len(cong)
    BY DEF ScopeInv
  <2> QED BY <2>2, <2>3
<1> QED BY <1>1, <1>2, <1>3, <1>4 DEF ScopeInv

LEMMA NoScopes ==
  ASSUME walk' = <<>>, stage' # "gvn" PROVE ScopeInv'
BY DEF ScopeInv, PathInv

LEMMA ScopeOpens ==
  ASSUME GraphInv, SourceInv, DataInv, ScopeInv, StartGvn, stage' = "gvn"
  PROVE  ScopeInv'
<1>1. walk' = <<Frame(1)>> /\ pc = "done" /\ UNCHANGED vars /\ table = <<>> /\ cong = <<>>
      /\ table' = table /\ cong' = cong
  BY DEF StartGvn, SourceInv
<1>2. Block' = Block /\ children' = children /\ pc' = pc
  BY <1>1 DEF vars, Block
<1>3. 1 \in Block /\ Ascending(children[1]) \in Seq(children[1]) /\ children[1] \subseteq Nat
  BY <1>1, TreeFacts
<1> DEFINE f == Frame(1)
<1>4. f.block = 1 /\ f.entries = 0 /\ f.congs = 0 /\ f.todo \in Seq(children[1]) /\ f \in Scope
  BY <1>1, <1>3 DEF Frame, Scope
<1> HIDE DEF f
<1>5. walk' = <<f>> /\ DOMAIN walk' = {1} /\ walk'[1] = f
  BY <1>1 DEF f
<1>6. walk' \in Seq(Scope)
  BY <1>4, <1>5
<1>7. PathInv'
  BY <1>2, <1>3, <1>4, <1>5 DEF PathInv, Path
<1> QED BY <1>1, <1>2, <1>4, <1>5, <1>6, <1>7 DEF ScopeInv

(* A child is below every block of the path, and none of them.              *)
LEMMA ChildIsNew ==
  ASSUME GraphInv, ScopeInv, stage = "gvn", NEW c \in children[Top.block], NEW i \in DOMAIN walk
  PROVE  Path(i) # c /\ Path(i) \in dom[c]
<1> DEFINE n == Len(walk)
<1>1. /\ n \in Nat \ {0} /\ DOMAIN walk = 1 .. n /\ Top.block = Path(n) /\ pc = "done"
      /\ Path(n) \in Block /\ Path(i) \in Block
  BY TopFacts DEF ScopeInv, PathInv
<1> HIDE DEF n
<1>2. Computed /\ CompleteInv /\ c \in Block /\ c # 1 /\ idom[c] = Path(n) /\ Path(n) \in dom[c]
  BY <1>1, TreeFacts
<1>3. Path(i) \in dom[c]
  <2>1. CASE i = n
    BY <1>2, <2>1
  <2>2. CASE i # n
    <3>1. i < n /\ n \in DOMAIN walk
      BY <1>1, <2>2
    <3>2. Path(i) \in dom[Path(n)]
      BY <3>1 DEF ScopeInv, PathInv
    <3> QED BY <1>1, <1>2, <3>2, DominanceIsTransitive
  <2> QED BY <2>1, <2>2
<1>4. SUFFICES ASSUME Path(i) = c PROVE FALSE
  BY <1>3
<1>5. i # 1 /\ idom[c] = Path(i - 1)
  BY <1>2, <1>4 DEF ScopeInv, PathInv
<1>6. i - 1 \in DOMAIN walk /\ n \in DOMAIN walk /\ i - 1 < n
  BY <1>1, <1>5
<1>7. Path(i - 1) # Path(n)
  BY <1>6 DEF ScopeInv, PathInv
<1> QED BY <1>2, <1>5, <1>7

(* The walk after a step down to child c: the path, and c below it.         *)
LEMMA Descent ==
  ASSUME GraphInv, DataInv, ScopeInv, GvnDescend, NEW n, n = Len(walk), NEW c, c = Head(Top.todo)
  PROVE  /\ n \in Nat \ {0} /\ DOMAIN walk = 1 .. n /\ c \in children[Path(n)]
         /\ Path(n) \in Block /\ Top.block = Path(n)
         /\ c \in Block /\ c # 1 /\ idom[c] = Path(n) /\ Ascending(children[c]) \in Seq(children[c])
         /\ walk' \in Seq(Scope) /\ DOMAIN walk' = 1 .. n + 1 /\ Len(walk') = n + 1
         /\ Block' = Block /\ children' = children /\ idom' = idom /\ dom' = dom /\ pc' = pc
         /\ \A i \in 1 .. n :
              /\ Path(i)' = Path(i) /\ walk'[i].todo \in Seq(children[Path(i)])
              /\ walk'[i].entries = walk[i].entries /\ walk'[i].congs = walk[i].congs
         /\ Path(n + 1)' = c /\ walk'[n + 1].entries = Len(table) /\ walk'[n + 1].congs = Len(cong)
         /\ walk'[n + 1].todo = Ascending(children[c])
<1> DEFINE t == Tail(Top.todo)
           f == Frame(c)
           top == [walk[n] EXCEPT !.todo = t]
<1>1. /\ n \in Nat \ {0} /\ n \in DOMAIN walk /\ DOMAIN walk = 1 .. n /\ Top = walk[n]
      /\ Top.block = Path(n) /\ Top \in Scope /\ Path(n) \in Block /\ Top.todo \in Seq(children[Path(n)])
      /\ pc = "done" /\ Top.todo # <<>> /\ stage = "gvn" /\ walk \in Seq(Scope)
  BY TopFacts DEF GvnDescend, ScopeInv
<1>2. c \in children[Path(n)] /\ t \in Seq(children[Path(n)])
  <2>1. Top.todo \in Seq(children[Path(n)]) /\ Top.todo # <<>>
    BY <1>1
  <2> DEFINE S == children[Path(n)]
             q == Top.todo
  <2>2. q \in Seq(S) /\ q # <<>>
    BY <2>1
  <2>3. c = Head(q) /\ t = Tail(q)
    OBVIOUS
  <2> HIDE DEF S, q, t
  <2>4. Head(q) \in S /\ Tail(q) \in Seq(S)
    BY <2>2, EmptySeq
  <2> QED BY <2>3, <2>4 DEF S
<1>3. /\ c \in Block /\ c # 1 /\ idom[c] = Path(n) /\ Ascending(children[c]) \in Seq(children[c])
      /\ \A b \in Block : children[b] \subseteq Nat /\ b \in Nat
  BY <1>1, <1>2, TreeFacts
<1>4. Len(table) \in Nat /\ Len(cong) \in Nat
  BY DEF DataInv
<1>5. f = [block |-> c, entries |-> Len(table), congs |-> Len(cong), todo |-> Ascending(children[c])]
  BY DEF Frame
<1>6. t \in Seq(Nat) /\ Ascending(children[c]) \in Seq(Nat)
  BY <1>1, <1>2, <1>3
<1>7. f \in Scope
  BY <1>3, <1>4, <1>5, <1>6 DEF Scope
<1>8. top \in Scope /\ top.block = Path(n) /\ top.entries = walk[n].entries /\ top.congs = walk[n].congs
      /\ top.todo = t
  BY <1>1, <1>6 DEF Scope, Path
<1> DEFINE w == [walk EXCEPT ![n] = top]
<1>9. walk' = Append(w, f)
  BY <1>1 DEF GvnDescend
<1> HIDE DEF top, t, f
<1>20. /\ w \in Seq(Scope) /\ Len(w) = n /\ w[n] = top /\ \A i \in 1 .. n : i # n => w[i] = walk[i]
       /\ n \in Nat \ {0}
  BY <1>1, <1>8
<1> HIDE DEF w
<1>10. /\ walk' \in Seq(Scope) /\ DOMAIN walk' = 1 .. n + 1 /\ Len(walk') = n + 1
       /\ walk'[n + 1] = f /\ walk'[n] = top /\ \A i \in 1 .. n : i # n => walk'[i] = walk[i]
  BY <1>7, <1>9, <1>20
<1>11. UNCHANGED vars /\ stage' = stage /\ table' = table /\ cong' = cong
  BY DEF GvnDescend
<1>12. Block' = Block /\ children' = children /\ idom' = idom /\ dom' = dom /\ pc' = pc
  BY <1>11 DEF vars, Block
<1>13. ASSUME NEW i \in 1 .. n
       PROVE  /\ Path(i)' = Path(i) /\ walk'[i].entries = walk[i].entries /\ walk'[i].congs = walk[i].congs
              /\ walk'[i].todo \in Seq(children[Path(i)])
  <2>1. CASE i = n
    BY <1>2, <1>8, <1>10, <2>1 DEF Path
  <2>2. CASE i # n
    BY <1>1, <1>10, <2>2 DEF Path, ScopeInv, PathInv
  <2> QED BY <2>1, <2>2
<1>14. /\ Path(n + 1)' = c /\ walk'[n + 1].entries = Len(table) /\ walk'[n + 1].congs = Len(cong)
       /\ walk'[n + 1].todo = Ascending(children[c])
  BY <1>5, <1>10 DEF Path
<1> QED BY <1>1, <1>2, <1>3, <1>10, <1>12, <1>13, <1>14

LEMMA ScopeDescends ==
  ASSUME GraphInv, DataInv, ScopeInv, GvnDescend
  PROVE  ScopeInv'
<1> PICK n : n = Len(walk)
  OBVIOUS
<1> PICK c : c = Head(Top.todo)
  OBVIOUS
<1>1. /\ n \in Nat \ {0} /\ DOMAIN walk = 1 .. n /\ Path(n) \in Block
      /\ stage = "gvn" /\ pc = "done" /\ stage' = stage /\ table' = table /\ cong' = cong
  BY Descent, TopFacts DEF GvnDescend
<1>2. /\ c \in children[Path(n)] /\ Top.block = Path(n)
      /\ c \in Block /\ c # 1 /\ idom[c] = Path(n) /\ Ascending(children[c]) \in Seq(children[c])
  BY Descent
<1>3. /\ walk' \in Seq(Scope) /\ DOMAIN walk' = 1 .. n + 1 /\ Len(walk') = n + 1
      /\ Block' = Block /\ children' = children /\ idom' = idom /\ dom' = dom /\ pc' = pc
  BY Descent
<1>13. ASSUME NEW i \in 1 .. n
       PROVE  /\ Path(i)' = Path(i) /\ walk'[i].entries = walk[i].entries /\ walk'[i].congs = walk[i].congs
              /\ walk'[i].todo \in Seq(children[Path(i)])
  BY Descent
<1>14. /\ Path(n + 1)' = c /\ walk'[n + 1].entries = Len(table) /\ walk'[n + 1].congs = Len(cong)
       /\ walk'[n + 1].todo = Ascending(children[c])
  BY Descent
<1>4. Len(table) \in Nat /\ Len(cong) \in Nat
  BY DEF DataInv
<1>15. ASSUME NEW i \in 1 .. n + 1
       PROVE  /\ Path(i)' \in Block /\ walk'[i].todo \in Seq(children[Path(i)'])
              /\ i = 1 => Path(i)' = 1
              /\ i # 1 => Path(i)' # 1 /\ idom[Path(i)'] = Path(i - 1)'
  <2>1. CASE i = n + 1
    <3>1. i - 1 = n /\ n \in 1 .. n /\ i # 1
      BY <1>1, <2>1
    <3>2. Path(n)' = Path(n)
      BY <1>13, <3>1
    <3> QED BY <1>2, <1>14, <2>1, <3>1, <3>2
  <2>2. CASE i # n + 1
    <3>1. i \in 1 .. n /\ (i # 1 => i - 1 \in 1 .. n)
      BY <1>1, <2>2
    <3>2. Path(i)' = Path(i) /\ (i # 1 => Path(i - 1)' = Path(i - 1))
      BY <1>13, <3>1
    <3>3. /\ Path(i) \in Block /\ (i = 1 => Path(i) = 1)
          /\ i # 1 => Path(i) # 1 /\ idom[Path(i)] = Path(i - 1)
      BY <1>1, <3>1 DEF ScopeInv, PathInv
    <3> QED BY <1>13, <3>1, <3>2, <3>3
  <2> QED BY <2>1, <2>2
<1>16. ASSUME NEW i \in 1 .. n + 1, NEW j \in 1 .. n + 1, i < j
       PROVE  /\ Path(i)' # Path(j)' /\ Path(i)' \in dom[Path(j)']
              /\ walk'[i].entries <= walk'[j].entries /\ walk'[i].congs <= walk'[j].congs
  <2>1. i \in 1 .. n
    BY <1>1, <1>16
  <2>2. Path(i)' = Path(i) /\ walk'[i].entries = walk[i].entries /\ walk'[i].congs = walk[i].congs
    BY <1>13, <2>1
  <2>3. CASE j = n + 1
    <3>1. Path(i) # c /\ Path(i) \in dom[c]
      BY <1>1, <1>2, <2>1, ChildIsNew
    <3>2. walk[i].entries <= Len(table) /\ walk[i].congs <= Len(cong)
      BY <1>1, <2>1 DEF ScopeInv
    <3> QED BY <1>14, <2>2, <2>3, <3>1, <3>2
  <2>4. CASE j # n + 1
    <3>1. j \in 1 .. n
      BY <1>1, <2>4
    <3>2. Path(j)' = Path(j) /\ walk'[j].entries = walk[j].entries /\ walk'[j].congs = walk[j].congs
      BY <1>13, <3>1
    <3> QED BY <1>1, <1>16, <2>1, <2>2, <3>1, <3>2 DEF ScopeInv, PathInv
  <2> QED BY <2>3, <2>4
<1>17. PathInv'
  BY <1>3, <1>15, <1>16 DEF PathInv, Path
<1>18. ASSUME NEW i \in 1 .. n + 1
       PROVE  walk'[i].entries <= Len(table) /\ walk'[i].congs <= Len(cong)
  <2>1. CASE i = n + 1
    BY <1>4, <1>14, <2>1
  <2>2. CASE i # n + 1
    <3>1. i \in 1 .. n
      BY <1>1, <2>2
    <3> QED BY <1>1, <1>13, <3>1 DEF ScopeInv
  <2> QED BY <2>1, <2>2
<1>19. walk' # <<>>
  BY <1>1, <1>3
<1> QED BY <1>1, <1>3, <1>17, <1>18, <1>19 DEF ScopeInv

LEMMA ScopeCloses ==
  ASSUME GraphInv, DataInv, ScopeInv, GvnLeave
  PROVE  ScopeInv'
<1> DEFINE n == Len(walk)
<1>1. /\ n \in Nat \ {0} /\ n \in DOMAIN walk /\ DOMAIN walk = 1 .. n /\ Top = walk[n]
      /\ Top \in Scope /\ pc = "done" /\ stage = "gvn" /\ walk \in Seq(Scope)
  BY TopFacts DEF GvnLeave, ScopeInv
<1>2. /\ walk' = SubSeq(walk, 1, n - 1) /\ table' = SubSeq(table, 1, Top.entries)
      /\ cong' = SubSeq(cong, 1, Top.congs) /\ UNCHANGED vars
      /\ walk' = <<>> => stage' = "ccp"
      /\ walk' # <<>> => stage' = stage
  BY DEF GvnLeave, StartSweepAt
<1>3. Block' = Block /\ children' = children /\ idom' = idom /\ dom' = dom /\ pc' = pc
  BY <1>2 DEF vars, Block
<1>4. /\ walk' \in Seq(Scope) /\ DOMAIN walk' = 1 .. n - 1 /\ \A i \in 1 .. n - 1 : walk'[i] = walk[i]
  BY <1>1, <1>2
<1>5. Top.entries \in Nat /\ Top.congs \in Nat /\ Top.entries <= Len(table) /\ Top.congs <= Len(cong)
  BY <1>1 DEF Scope, ScopeInv
<1>6. Len(table') = Top.entries /\ Len(cong') = Top.congs
  BY <1>2, <1>5 DEF DataInv
<1> HIDE DEF n
<1>7. \A i \in 1 .. n - 1 : walk[i].entries <= Top.entries /\ walk[i].congs <= Top.congs
  <2>1. \A i \in 1 .. n - 1 : i \in DOMAIN walk /\ i < n
    BY <1>1
  <2> QED BY <1>1, <2>1 DEF ScopeInv, PathInv
<1>8. PathInv'
  <2>1. \A i \in 1 .. n - 1 : i \in 1 .. n /\ (i # 1 => i - 1 \in 1 .. n - 1)
    BY <1>1
  <2>2. \A i \in 1 .. n - 1 : Path(i)' = Path(i)
    BY <1>4 DEF Path
  <2> QED BY <1>1, <1>3, <1>4, <2>1, <2>2 DEF ScopeInv, PathInv
<1> QED BY <1>1, <1>2, <1>3, <1>4, <1>6, <1>7, <1>8 DEF ScopeInv

LEMMA ScopeStep ==
  ASSUME GraphInv, SourceInv, LinkInv, DataInv, ScopeInv, [PipeNext]_pipeVars
  PROVE  ScopeInv'
<1>1. Len(table) \in Nat /\ Len(cong) \in Nat
  BY DEF DataInv
<1>2. CASE Analyse \/ StartDce \/ DceDelete \/ DceKeep \/ DceAgain \/ ScanNode \/ EndScan
           \/ CcpNode \/ EndCcp \/ StartRun \/ Run
  <2>1. stage # "gvn" /\ stage' # "gvn" /\ walk' = walk
    BY <1>2 DEF Analyse, StartDce, DceDelete, DceKeep, DceAgain, ScanNode, EndScan, CcpNode, EndCcp,
                StartRun, Run, StartSweepAt, gvnVars
  <2> QED BY <2>1, NoScopes DEF ScopeInv
<1>3. CASE StartGvn
  <2>1. CASE stage' = "gvn"
    BY <1>3, <2>1, ScopeOpens
  <2>2. CASE stage' # "gvn"
    BY <1>3, <2>2, NoScopes DEF StartGvn, ScopeInv
  <2> QED BY <2>1, <2>2
<1>4. CASE GvnNode
  <2>1. /\ cong' \in Seq(Pair) /\ Len(cong') >= Len(cong)
        /\ table' = table \/ \E r \in Row : table' = Append(table, r)
    BY <1>4, NumberingRecords
  <2>2. table \in Seq(Row)
    BY DEF DataInv
  <2>3. Len(cong') \in Nat /\ Len(table') \in Nat /\ Len(table') >= Len(table)
    BY <1>1, <2>1, <2>2
  <2> QED BY <1>1, <1>4, <2>1, <2>3, ScopesKept DEF GvnNode
<1>5. CASE GvnDescend
  BY <1>5, ScopeDescends
<1>6. CASE GvnLeave
  BY <1>6, ScopeCloses
<1>7. CASE UNCHANGED pipeVars
  BY <1>1, <1>7, ScopesKept DEF pipeVars, gvnVars
<1> QED BY <1>2, <1>3, <1>4, <1>5, <1>6, <1>7 DEF PipeNext
-----------------------------------------------------------------------------
(* The last node of a block, where value numbering stops, is none that dead *)
(* code elimination deletes: a block ends with a branch or return, or with  *)
(* another node that defines nothing.                                       *)
EndsKept ==
  \A f \in Code : \A p \in DOMAIN f :
    (p = Len(f) \/ f[p + 1].op = "label") => f[p].dst = NoTemp \/ f[p].op \in SideEffect

LEMMA LastIsListed ==
  ASSUME EndsKept, GraphInv, SourceInv, pc = "done", stage \in {"dce", "gvn"}, NEW b \in Block
  PROVE  Last(b) \in Listed
<1>1. Partition /\ BlocksInv
  BY TreeFacts
<1>2. Last(b) \in NodesOf(b) /\ NodesOf(b) \subseteq DOMAIN nodes
  BY <1>1, NodesOfBlocks
<1>3. Last(b) \in DOMAIN ir /\ Last(b) \in DOMAIN source /\ Len(source) = Len(nodes)
  BY <1>2, SizeFacts DEF SourceInv
<1>4. Last(b) = Len(source) \/ source[Last(b) + 1].op = "label"
  <2>1. CASE b = Len(first)
    BY <1>3, <2>1 DEF Last
  <2>2. CASE b # Len(first)
    <3>1. b + 1 \in Block /\ b + 1 # 1
      <4>1. Block = 1 .. Len(first) /\ Len(first) \in Nat
        BY <1>1, NodesType DEF Block
      <4> QED BY <2>2, <4>1
    <3>2. nodes[first[b + 1]].op = "label" /\ first[b + 1] \in 1 .. Len(nodes)
      BY <1>1, <3>1, NodesType DEF BlocksInv
    <3>3. Last(b) = first[b + 1] - 1
      BY <2>2 DEF Last
    <3>4. first[b + 1] \in DOMAIN ir
      BY <1>1, <3>2, NodesType, SizeFacts
    <3>5. Last(b) + 1 = first[b + 1]
      BY <3>2, <3>3
    <3> QED BY <3>2, <3>4, <3>5, SizeFacts
  <2> QED BY <2>1, <2>2
<1>5. source \in Code
  BY DEF SourceInv
<1>6. source[Last(b)].dst = NoTemp \/ source[Last(b)].op \in SideEffect
  BY <1>3, <1>4, <1>5 DEF EndsKept
<1>7. Last(b) \notin freed
  BY <1>6 DEF SourceInv
<1> QED BY <1>3, <1>7 DEF Listed

(* The next node that value numbering looks at.                             *)
LEMMA NextInBlock ==
  ASSUME EndsKept, GraphInv, SourceInv, LinkInv, ScopeInv, OwnBlockOnly, GvnNode
  PROVE  /\ cur \in NodesOf(Top.block) /\ Top.block \in Block /\ cur \in DOMAIN ir
         /\ cur' # 0 => cur' \in NodesOf(Top.block) /\ cur < cur'
<1> DEFINE b == Top.block
<1>1. stage = "gvn" /\ cur # 0 /\ cur' = AfterNode
  BY DEF GvnNode
<1>2. b \in Block /\ pc = "done" /\ cur \in NodesOf(b)
  BY <1>1, TopFacts DEF OwnBlockOnly
<1>3. Partition /\ BlocksInv /\ Last(b) \in Listed
  BY <1>1, <1>2, TreeFacts, LastIsListed
<1>4. /\ cur \in DOMAIN ir /\ DOMAIN ir \subseteq Places /\ DOMAIN ir \subseteq Nat
      /\ next \in [Places -> Places] /\ Places \subseteq Nat
  BY <1>1, SizeFacts DEF LinkInv, Places
<1>5. first[b] \in Nat /\ Last(b) \in Nat /\ Last(b) \in Places
  BY <1>2, <1>3, <1>4, NodesType DEF Listed
<1>6. first[b] <= cur /\ cur <= Last(b) /\ cur \in Nat
  BY <1>2, <1>4, <1>5 DEF NodesOf
<1>7. CASE cur = Last(b)
  BY <1>1, <1>2, <1>4, <1>7 DEF AfterNode
<1>8. CASE cur # Last(b)
  <2>1. cur' = next[cur]
    BY <1>1, <1>8 DEF AfterNode
  <2>2. cur < Last(b)
    BY <1>5, <1>6, <1>8
  <2>3. next[cur] # 0 /\ next[cur] <= Last(b) /\ cur < next[cur] /\ next[cur] \in Nat
    BY <1>3, <1>4, <2>2 DEF LinkInv
  <2>4. next[cur] \in NodesOf(b)
    BY <1>5, <1>6, <2>3 DEF NodesOf
  <2> QED BY <1>2, <1>4, <2>1, <2>3, <2>4
<1> QED BY <1>7, <1>8

LEMMA OwnBlockStep ==
  ASSUME EndsKept, GraphInv, SourceInv, LinkInv, DataInv, ScopeInv, OwnBlockOnly, [PipeNext]_pipeVars
  PROVE  OwnBlockOnly'
<1>1. CASE Analyse \/ StartDce \/ DceDelete \/ DceKeep \/ DceAgain \/ ScanNode \/ EndScan
           \/ CcpNode \/ EndCcp \/ StartRun \/ Run
  <2>1. stage' # "gvn"
    BY <1>1 DEF Analyse, StartDce, DceDelete, DceKeep, DceAgain, ScanNode, EndScan, CcpNode, EndCcp,
                StartRun, Run, StartSweepAt
  <2> QED BY <2>1 DEF OwnBlockOnly
<1>2. CASE StartGvn
  <2>1. SUFFICES ASSUME stage' = "gvn" PROVE cur' \in (NodesOf(Top.block))'
    BY DEF OwnBlockOnly
  <2>2. walk' = <<Frame(1)>> /\ cur' = first[1] /\ pc = "done" /\ UNCHANGED vars
    BY <1>2, <2>1 DEF StartGvn
  <2>3. (Top.block)' = 1
    BY <2>2 DEF Top, Frame
  <2>4. first[1] \in NodesOf(1)
    BY <2>2, TreeFacts, NodesOfBlocks
  <2>5. first' = first /\ nodes' = nodes
    BY <2>2 DEF vars
  <2> QED BY <2>2, <2>3, <2>4, <2>5 DEF NodesOf, Last
<1>3. CASE GvnNode
  <2>1. Top' = Top /\ first' = first /\ nodes' = nodes
    BY <1>3 DEF GvnNode, Top, vars
  <2>2. cur' # 0 => cur' \in NodesOf(Top.block)
    BY <1>3, NextInBlock
  <2> QED BY <2>1, <2>2 DEF OwnBlockOnly, NodesOf, Last
<1>4. CASE GvnDescend
  <2> PICK c : c = Head(Top.todo)
    OBVIOUS
  <2>1. cur' = first[c] /\ UNCHANGED vars /\ stage = "gvn"
    BY <1>4 DEF GvnDescend
  <2> PICK n : n = Len(walk)
    OBVIOUS
  <2>2. c \in Block /\ Len(walk') = n + 1 /\ Path(n + 1)' = c
    BY <1>4, Descent
  <2>3. (Top.block)' = c
    BY <2>2 DEF Top, Path
  <2>5. first[c] \in NodesOf(c)
    BY <2>1, <2>2, TopFacts, TreeFacts, NodesOfBlocks
  <2>6. first' = first /\ nodes' = nodes
    BY <2>1 DEF vars
  <2> QED BY <2>1, <2>3, <2>5, <2>6 DEF OwnBlockOnly, NodesOf, Last
<1>5. CASE GvnLeave
  BY <1>5 DEF GvnLeave, StartSweepAt, OwnBlockOnly
<1>6. CASE UNCHANGED pipeVars
  BY <1>6 DEF pipeVars, gvnVars, vars, OwnBlockOnly, Top, NodesOf, Last
<1> QED BY <1>1, <1>2, <1>3, <1>4, <1>5, <1>6 DEF PipeNext
-----------------------------------------------------------------------------
(* Where the entries of the table come from: a node that defines the        *)
(* result, in a block of the path, with all that the scopes above recorded  *)
(* before it; in the block that is being numbered it is behind the cursor.  *)
RecordedAt(i, j, q) ==
  /\ q \in NodesOf(Path(j)) /\ walk[j].entries < i
  /\ ir[q].op \notin SideEffect /\ ir[q].dst = table[i].dst
  /\ j = Len(walk) /\ cur # 0 => q < cur

RecordInv ==
  stage = "gvn" => \A i \in DOMAIN table : \E j \in DOMAIN walk : \E q \in Nat : RecordedAt(i, j, q)

LEMMA RecordNumbers ==
  ASSUME EndsKept, GraphInv, SourceInv, LinkInv, DataInv, ScopeInv, OwnBlockOnly, RecordInv, GvnNode
  PROVE  RecordInv'
<1>1. stage = "gvn" /\ cur # 0 /\ walk' = walk /\ first' = first /\ nodes' = nodes
  BY DEF GvnNode, vars
<1>2. /\ cur \in NodesOf(Top.block) /\ cur \in DOMAIN ir /\ cur \in Nat /\ cur' \in Nat
      /\ cur' # 0 => cur < cur'
  <2>1. cur \in Places /\ next[cur] \in Places /\ Places \subseteq Nat
    BY SizeFacts DEF LinkInv, Places
  <2>2. cur' \in Nat
    BY <2>1 DEF GvnNode, AfterNode
  <2> QED BY <2>1, <2>2, NextInBlock
<1>3. /\ Len(walk) \in DOMAIN walk /\ Top = walk[Len(walk)] /\ Top.block = Path(Len(walk))
      /\ Top \in Scope
  BY <1>1, TopFacts
<1>4. \A p \in DOMAIN ir : /\ ir'[p].dst = ir[p].dst
                           /\ ir[p].op \notin SideEffect => ir'[p].op \notin SideEffect
  BY NumberingWrites
<1>5. table \in Seq(Row) /\ Len(table) \in Nat
  BY DEF DataInv
<1>6. ASSUME NEW i \in DOMAIN table, table'[i] = table[i]
      PROVE  \E j \in DOMAIN walk : \E q \in Nat : RecordedAt(i, j, q)'
  <2>1. PICK j \in DOMAIN walk : \E q \in Nat : RecordedAt(i, j, q)
    BY <1>1 DEF RecordInv
  <2>2. PICK q \in Nat : RecordedAt(i, j, q)
    BY <2>1
  <2>3. q \in DOMAIN ir
    <3>1. Path(j) \in Block /\ pc = "done"
      BY <1>1 DEF ScopeInv, PathInv
    <3>2. NodesOf(Path(j)) \subseteq DOMAIN nodes
      BY <3>1, TreeFacts, NodesOfBlocks
    <3> QED BY <2>2, <3>2, SizeFacts DEF RecordedAt
  <2>4. j = Len(walk) /\ cur' # 0 => q < cur'
    <3>1. j = Len(walk) => q < cur
      BY <1>1, <2>2 DEF RecordedAt
    <3> QED BY <1>2, <3>1
  <2>5. RecordedAt(i, j, q)'
    BY <1>1, <1>4, <1>6, <2>2, <2>3, <2>4 DEF RecordedAt, NodesOf, Last, Path
  <2> QED BY <2>5
<1>7. CASE table' = table
  BY <1>1, <1>6, <1>7 DEF RecordInv, GvnNode
<1>8. ASSUME NEW r \in Row, table' = Append(table, r), r.dst = ir[cur].dst, ir[cur].op \in Pure PROVE RecordInv'
  <2> PICK n : n = Len(table) + 1
    OBVIOUS
  <2> PICK k : k = Len(walk)
    OBVIOUS
  <2>1. DOMAIN table' = DOMAIN table \cup {n} /\ table'[n] = r /\ \A i \in DOMAIN table : table'[i] = table[i]
    BY <1>5, <1>8
  <2>2. walk[k].entries < n
    <3>1. walk[k].entries <= Len(table) /\ walk[k].entries \in Nat
      BY <1>3 DEF ScopeInv, Scope
    <3> QED BY <1>5, <3>1
  <2> PICK p : p = cur
    OBVIOUS
  <2>3. p \in Nat /\ RecordedAt(n, k, p)'
    <3>1. p \in NodesOf(Path(k)) /\ p \in DOMAIN ir /\ (cur' # 0 => p < cur') /\ ir[p].op \notin SideEffect
      BY <1>2, <1>3, <1>8 DEF Pure, Commutative, SideEffect
    <3> QED BY <1>1, <1>2, <1>4, <1>8, <2>1, <2>2, <3>1 DEF RecordedAt, NodesOf, Last, Path
  <2> QED BY <1>1, <1>2, <1>3, <1>6, <2>1, <2>3 DEF RecordInv
<1>9. \/ table' = table
      \/ \E r \in Row : table' = Append(table, r) /\ r.dst = ir[cur].dst /\ ir[cur].op \in Pure
  BY NumberingRecords
<1> QED BY <1>7, <1>8, <1>9

LEMMA RecordDescends ==
  ASSUME GraphInv, SourceInv, DataInv, ScopeInv, RecordInv, GvnDescend
  PROVE  RecordInv'
<1> PICK n : n = Len(walk)
  OBVIOUS
<1> PICK c : c = Head(Top.todo)
  OBVIOUS
<1>1. stage = "gvn" /\ cur = 0 /\ table' = table /\ ir' = ir /\ first' = first /\ nodes' = nodes
  BY DEF GvnDescend, vars, listVars
<1>2. /\ n \in Nat \ {0} /\ DOMAIN walk = 1 .. n /\ DOMAIN walk' = 1 .. n + 1 /\ Len(walk') = n + 1
      /\ \A i \in 1 .. n : Path(i)' = Path(i) /\ walk'[i].entries = walk[i].entries
  BY Descent
<1>3. ASSUME NEW i \in DOMAIN table
      PROVE  \E j \in 1 .. n + 1 : \E q \in Nat : RecordedAt(i, j, q)'
  <2>1. PICK j \in 1 .. n : \E q \in Nat : RecordedAt(i, j, q)
    BY <1>1, <1>2 DEF RecordInv
  <2>2. PICK q \in Nat : RecordedAt(i, j, q)
    BY <2>1
  <2>3. j # n + 1 /\ j \in 1 .. n + 1
    BY <1>2
  <2>4. Path(j)' = Path(j) /\ walk'[j].entries = walk[j].entries
    BY <1>2
  <2>5. NodesOf(Path(j))' = NodesOf(Path(j))
    BY <1>1, <2>4 DEF NodesOf, Last
  <2>6. RecordedAt(i, j, q)'
    BY <1>1, <1>2, <2>2, <2>3, <2>4, <2>5 DEF RecordedAt
  <2> QED BY <2>3, <2>6
<1> QED BY <1>1, <1>2, <1>3 DEF RecordInv

LEMMA RecordLeaves ==
  ASSUME GraphInv, SourceInv, DataInv, ScopeInv, RecordInv, GvnLeave
  PROVE  RecordInv'
<1> PICK n : n = Len(walk)
  OBVIOUS
<1>1. SUFFICES ASSUME stage' = "gvn" PROVE RecordInv'
  BY DEF RecordInv
<1>2. /\ stage = "gvn" /\ ir' = ir /\ first' = first /\ nodes' = nodes
      /\ walk' = SubSeq(walk, 1, n - 1) /\ table' = SubSeq(table, 1, Top.entries) /\ cur = 0
      /\ walk' # <<>> => cur' = cur
      /\ walk' = <<>> => stage' = "ccp"
  BY DEF GvnLeave, vars, listVars, StartSweepAt
<1>3. /\ n \in Nat \ {0} /\ DOMAIN walk = 1 .. n /\ Top = walk[n] /\ Top \in Scope
      /\ walk \in Seq(Scope)
  BY <1>2, TopFacts DEF ScopeInv
<1>4. Top.entries \in Nat /\ Top.entries <= Len(table) /\ table \in Seq(Row)
  BY <1>3 DEF Scope, ScopeInv, DataInv
<1>5. /\ DOMAIN walk' = 1 .. n - 1 /\ \A i \in 1 .. n - 1 : walk'[i] = walk[i]
  BY <1>2, <1>3
<1>6. /\ DOMAIN table' = 1 .. Top.entries /\ \A i \in 1 .. Top.entries : table'[i] = table[i]
      /\ 1 .. Top.entries \subseteq DOMAIN table
  BY <1>2, <1>4
<1>7. cur' = 0
  BY <1>1, <1>2
<1>8. ASSUME NEW i \in 1 .. Top.entries
      PROVE  \E j \in 1 .. n - 1 : \E q \in Nat : RecordedAt(i, j, q)'
  <2>1. PICK j \in 1 .. n : \E q \in Nat : RecordedAt(i, j, q)
    BY <1>2, <1>3, <1>6 DEF RecordInv
  <2>2. PICK q \in Nat : RecordedAt(i, j, q)
    BY <2>1
  <2>3. j # n
    BY <1>3, <1>4, <2>2 DEF RecordedAt
  <2>4. j \in 1 .. n - 1
    BY <1>3, <2>3
  <2>5. walk'[j] = walk[j] /\ table'[i] = table[i]
    BY <1>5, <1>6, <2>4
  <2>6. RecordedAt(i, j, q)'
    BY <1>2, <1>7, <2>2, <2>5 DEF RecordedAt, NodesOf, Last, Path
  <2> QED BY <2>4, <2>6
<1> QED BY <1>5, <1>6, <1>8 DEF RecordInv

LEMMA RecordStep ==
  ASSUME EndsKept, GraphInv, SourceInv, LinkInv, DataInv, ScopeInv, OwnBlockOnly, RecordInv,
         [PipeNext]_pipeVars
  PROVE  RecordInv'
<1>1. CASE Analyse \/ StartDce \/ DceDelete \/ DceKeep \/ DceAgain \/ ScanNode \/ EndScan
           \/ CcpNode \/ EndCcp \/ StartRun \/ Run
  <2>1. stage' # "gvn"
    BY <1>1 DEF Analyse, StartDce, DceDelete, DceKeep, DceAgain, ScanNode, EndScan, CcpNode, EndCcp,
                StartRun, Run, StartSweepAt
  <2> QED BY <2>1 DEF RecordInv
<1>2. CASE StartGvn
  <2>1. table' = <<>>
    BY <1>2 DEF StartGvn, SourceInv
  <2> QED BY <2>1 DEF RecordInv
<1>3. CASE GvnNode
  BY <1>3, RecordNumbers
<1>4. CASE GvnDescend
  BY <1>4, RecordDescends
<1>5. CASE GvnLeave
  BY <1>5, RecordLeaves
<1>6. CASE UNCHANGED pipeVars
  BY <1>6 DEF pipeVars, gvnVars, listVars, vars, RecordInv, RecordedAt, Path, NodesOf, Last
<1> QED BY <1>1, <1>2, <1>3, <1>4, <1>5, <1>6 DEF PipeNext
-----------------------------------------------------------------------------
Reached == ReachAvoiding({})

(* Every path to x, without a hidden branch, has executed b.                *)
Past(b, x) == x # b /\ x \notin ReachAvoiding({b})

Def(t) == {p \in DOMAIN source : Defines(source[p]) /\ source[p].dst = t}

Single(t) == Def(t) = {Birth[t]}

(* Every path to x has given t a value.                                     *)
Assigned(t, x) == x \notin Def(t) /\ x \notin ReachAvoiding(Def(t))

Avail(t, x) == Def(t) # {} /\ Past(Birth[t], x)

(* Several copies define t, none of them on every path to the label behind  *)
(* which t is used, and the label on no path to all of them.                *)
Merged(t) ==
  /\ source[Birth[t]].op = "label" /\ Assigned(t, Birth[t])
  /\ \A q \in Def(t) : /\ source[q].op = "copy"
                       /\ q \in Reached => ~Past(Birth[t], q) /\ ~Past(q, Birth[t])

(* Every temporary that is used has one definition, or it is the result of  *)
(* a "?:": each arm copies its value to it, and the copies meet at a label. *)
(* Every path to a use has passed the definition, or that label.            *)
SsaForm ==
  /\ Birth \in [Temp -> DOMAIN source]
  /\ \A t \in Temp : Def(t) # {} => Single(t) \/ Merged(t)
  /\ \A p \in DOMAIN source :
       /\ source[p].op = "copy" => source[p].src1 # NoTemp /\ source[p].dst # NoTemp
       /\ p \in Reached => \A t \in Uses(source[p]) : Avail(t, p)
-----------------------------------------------------------------------------
LEMMA FlowKept ==
  ASSUME nodes' = nodes, first' = first
  PROVE  /\ Entries' = Entries /\ \A p : Flow(p)' = Flow(p)
         /\ \A S : ReachAvoiding(S)' = ReachAvoiding(S)
BY DEF ReachAvoiding, Reaching, Flow, Inside, Entries, Enders, Jumps, Block, Last

LEMMA ReachKept ==
  ASSUME nodes' = nodes, first' = first, NEW S PROVE ReachAvoiding(S)' = ReachAvoiding(S)
BY FlowKept

LEMMA FormKept ==
  ASSUME nodes' = nodes, first' = first, source' = source
  PROVE  /\ Reached' = Reached
         /\ \A b, x : Past(b, x)' <=> Past(b, x)
         /\ \A t : Def(t)' = Def(t) /\ (Single(t)' <=> Single(t))
         /\ \A t, x : (Assigned(t, x)' <=> Assigned(t, x)) /\ (Avail(t, x)' <=> Avail(t, x))
         /\ SsaForm' <=> SsaForm
<1>1. Reached' = Reached
  BY ReachKept DEF Reached
<1>2. ASSUME NEW b, NEW x PROVE Past(b, x)' <=> Past(b, x)
  BY ReachKept DEF Past
<1>3. ASSUME NEW t PROVE Def(t)' = Def(t) /\ (Single(t)' <=> Single(t))
  BY DEF Def, Single
<1>4. ASSUME NEW t, NEW x PROVE (Assigned(t, x)' <=> Assigned(t, x)) /\ (Avail(t, x)' <=> Avail(t, x))
  <2> PICK D : D = Def(t)
    OBVIOUS
  <2>1. ReachAvoiding(D)' = ReachAvoiding(D) /\ Def(t)' = D
    BY <1>3, ReachKept
  <2>2. (ReachAvoiding(Def(t)))' = ReachAvoiding(D)'
    BY <2>1 DEF ReachAvoiding, Reaching, Flow, Inside, Entries, Enders, Jumps, Block, Last
  <2>3. Assigned(t, x)' <=> Assigned(t, x)
    BY <2>1, <2>2 DEF Assigned
  <2>4. Avail(t, x)' <=> Avail(t, x)
    BY <1>3, <1>2 DEF Avail, Past
  <2> QED BY <2>3, <2>4
<1>5. ASSUME NEW t PROVE Merged(t)' <=> Merged(t)
  <2> PICK b : b = Birth[t]
    OBVIOUS
  <2>1. Assigned(t, b)' <=> Assigned(t, b)
    BY <1>4
  <2>2. \A q : (Past(b, q)' <=> Past(b, q)) /\ (Past(q, b)' <=> Past(q, b))
    BY <1>2
  <2> QED BY <1>1, <1>3, <2>1, <2>2 DEF Merged
<1>6. SsaForm' <=> SsaForm
  BY <1>1, <1>2, <1>3, <1>4, <1>5 DEF SsaForm
<1> QED BY <1>1, <1>2, <1>3, <1>4, <1>6
-----------------------------------------------------------------------------
LEMMA ReachedFacts ==
  ASSUME BlocksInv
  PROVE  /\ 1 \in Reached /\ Reached \subseteq DOMAIN nodes
         /\ \A p \in Reached : Flow(p) \subseteq Reached
         /\ \A S : ReachAvoiding(S) \subseteq Reached
<1>1. 1 \in Reached /\ Reached \subseteq DOMAIN nodes /\ \A p \in Reached : Flow(p) \subseteq Reached
  <2>1. {1} \ {} \subseteq Reached /\ \A p \in Reached : Flow(p) \ {} \subseteq Reached
    BY ReachIsLeast DEF Reached
  <2>2. Reached \subseteq DOMAIN nodes
    BY ReachIsLeast DEF Reached
  <2> QED BY <2>1, <2>2
<1>2. ASSUME NEW S PROVE ReachAvoiding(S) \subseteq Reached
  <2>1. {1} \ S \subseteq Reached /\ \A p \in Reached : Flow(p) \ S \subseteq Reached
    BY <1>1
  <2> QED BY <2>1, ReachIsLeast
<1> QED BY <1>1, <1>2

(* A set that control enters only through the start is all of Reached.      *)
LEMMA ReachedIsLeast ==
  ASSUME BlocksInv, NEW W, 1 \in W, \A p \in W : Flow(p) \subseteq W
  PROVE  Reached \subseteq W
<1>1. {1} \ {} \subseteq W /\ \A p \in W : Flow(p) \ {} \subseteq W
  OBVIOUS
<1> QED BY <1>1, ReachIsLeast DEF Reached

LEMMA PastIsReached ==
  ASSUME BlocksInv, NEW b, NEW x \in Reached, Past(b, x)
  PROVE  b \in Reached
<1>1. SUFFICES ASSUME b \notin Reached PROVE FALSE
  OBVIOUS
<1> DEFINE W == ReachAvoiding({b})
<1>2. 1 # b /\ \A p \in Reached : b \notin Flow(p)
  BY <1>1, ReachedFacts
<1>3. 1 \in W /\ W \subseteq Reached /\ \A p \in W : Flow(p) \ {b} \subseteq W
  BY <1>2, ReachIsLeast, ReachedFacts
<1>4. \A p \in W : Flow(p) \subseteq W
  BY <1>2, <1>3
<1> HIDE DEF W
<1>5. x \in W
  BY <1>3, <1>4, ReachedIsLeast
<1> QED BY <1>5 DEF Past, W

LEMMA PastStep ==
  ASSUME BlocksInv, NEW b, NEW p \in Reached, NEW r \in Flow(p), Past(b, r), p # b
  PROVE  Past(b, p)
BY ReachIsLeast DEF Past

LEMMA NotBothPast ==
  ASSUME BlocksInv, NEW b \in Reached, NEW q, Past(b, q), Past(q, b)
  PROVE  FALSE
<1> DEFINE W == ReachAvoiding({b})
<1>1. W = ReachAvoiding({q})
  BY AvoidingBoth DEF Past
<1>2. b # q /\ b \notin W
  BY ReachIsLeast DEF Past
<1>3. 1 \in W
  BY <1>1, <1>2, ReachIsLeast
<1>4. \A p \in W : Flow(p) \subseteq W
  <2>1. \A p \in W : Flow(p) \ {b} \subseteq W /\ Flow(p) \ {q} \subseteq W
    BY <1>1, ReachIsLeast
  <2> QED BY <1>2, <2>1
<1> HIDE DEF W
<1>5. Reached \subseteq W
  BY <1>3, <1>4, ReachedIsLeast
<1> QED BY <1>2, <1>5

LEMMA PastIsTransitive ==
  ASSUME BlocksInv, NEW b, NEW q, NEW x \in Reached, Past(b, q), Past(q, x)
  PROVE  Past(b, x)
<1>1. ReachAvoiding({b}) \subseteq ReachAvoiding({q})
  BY AvoidingBoth DEF Past
<1>2. x \notin ReachAvoiding({b})
  BY <1>1 DEF Past
<1>3. x # b
  BY NotBothPast
<1> QED BY <1>2, <1>3 DEF Past

(* Of two nodes of which neither is past the other, at most one is on every *)
(* path to a third.                                                         *)
LEMMA PastIsLinear ==
  ASSUME BlocksInv, NEW b, NEW q, NEW x \in Reached, b # q, Past(b, x), Past(q, x)
  PROVE  Past(b, q) \/ Past(q, b)
<1>1. SUFFICES ASSUME q \in ReachAvoiding({b}), b \in ReachAvoiding({q}) PROVE FALSE
  BY DEF Past
<1> DEFINE W == ReachAvoiding({b}) \cup ReachAvoiding({q})
<1>2. 1 \in W
  BY ReachIsLeast
<1>3. \A p \in W : Flow(p) \subseteq W
  <2>1. \A p \in ReachAvoiding({b}) : Flow(p) \ {b} \subseteq ReachAvoiding({b})
    BY ReachIsLeast
  <2>2. \A p \in ReachAvoiding({q}) : Flow(p) \ {q} \subseteq ReachAvoiding({q})
    BY ReachIsLeast
  <2> QED BY <1>1, <2>1, <2>2
<1>4. x \notin W
  BY DEF Past
<1> HIDE DEF W
<1> QED BY <1>2, <1>3, <1>4, ReachedIsLeast

LEMMA NothingBeforeFirst ==
  ASSUME BlocksInv, NEW b PROVE ~Past(b, 1)
BY ReachIsLeast DEF Past

(* What may be used has a value.                                            *)
LEMMA AvailIsAssigned ==
  ASSUME BlocksInv, SsaForm, NEW t \in Temp, NEW x \in Reached, Avail(t, x)
  PROVE  Assigned(t, x)
<1>1. CASE Single(t)
  BY <1>1 DEF Single, Assigned, Avail, Past
<1>2. CASE Merged(t)
  <2> DEFINE b == Birth[t]
             D == Def(t)
             W == ReachAvoiding({b}) \cap ReachAvoiding(D)
  <2>1. b \notin D /\ b \notin ReachAvoiding(D)
    BY <1>2 DEF Merged, Assigned
  <2>2. {1} \ D \subseteq W
    BY <2>1, ReachIsLeast
  <2>3. \A p \in W : Flow(p) \ D \subseteq W
    <3>1. ASSUME NEW p \in W, NEW r \in Flow(p) \ D PROVE r \in W
      <4>1. r \in ReachAvoiding(D)
        BY <3>1, ReachIsLeast
      <4> QED BY <2>1, <3>1, <4>1, ReachIsLeast
    <3> QED BY <3>1
  <2> HIDE DEF W
  <2>4. ReachAvoiding(D) \subseteq W
    BY <2>2, <2>3, ReachIsLeast
  <2>5. x \notin ReachAvoiding(D)
    BY <2>4 DEF W, Avail, Past
  <2>6. x \notin D
    BY <1>2 DEF Merged, Avail
  <2> QED BY <2>5, <2>6 DEF Assigned
<1> QED BY <1>1, <1>2 DEF SsaForm, Avail

(* A temporary may not be used where it is defined.                         *)
LEMMA DefNotAvail ==
  ASSUME BlocksInv, SsaForm, NEW t \in Temp, NEW q \in Def(t), q \in Reached
  PROVE  ~Avail(t, q)
<1>1. CASE Single(t)
  BY <1>1 DEF Single, Avail, Past
<1>2. CASE Merged(t)
  BY <1>2 DEF Merged, Avail
<1> QED BY <1>1, <1>2 DEF SsaForm

-----------------------------------------------------------------------------
(* env gives the temporaries that may be used at x the values that their    *)
(* definitions in the source give them.                                     *)
Found == {"load", "call"}

Models(env, x) ==
  \A t \in Temp : Single(t) /\ Avail(t, x) /\ source[Birth[t]].op \notin Found
                    => env[t] = Result(source[Birth[t]], env, <<>>)

Alike(x, a, b) == \A env : Models(env, x) => Value(env, a) = Value(env, b)

(* Wherever a may be used, b may be used instead.                           *)
Valid(a, b) == \A x \in Reached : Avail(a, x) => Avail(b, x) /\ Alike(x, a, b)

Usable(t, x) == t = NoTemp \/ Avail(t, x)

RowTerm(r, env) == Term(r.op, Value(env, r.src1), Value(env, r.src2))

RowValid(r) ==
  /\ r.src1 \in Operand /\ r.src2 \in Operand /\ Single(r.dst)
  /\ \A x \in Reached : Avail(r.dst, x) =>
       /\ Usable(r.src1, x) /\ Usable(r.src2, x)
       /\ \A env : Models(env, x) => Value(env, r.dst) = RowTerm(r, env)

ConstValid(t, i) ==
  \A x \in Reached : Avail(t, x) => \A env : Models(env, x) => Value(env, t) = <<"imm", i>>

(* Node n does at p what the source does there.                             *)
Stands(n, p) ==
  /\ \A u \in Uses(n) : Avail(u, p)
  /\ IF n.op \in SideEffect
     THEN /\ Alike(p, n.src1, source[p].src1) /\ Alike(p, n.src2, source[p].src2)
          /\ n.op = "store" => Alike(p, n.dst, source[p].dst)
     ELSE \A env, in : Models(env, p) => Result(n, env, in) = Result(source[p], env, in)

(* What the passes may make of node m.                                      *)
Form(n, m) ==
  /\ n.op # m.op => m.op \in Pure \cup {"copy"} /\ n.op \in {"copy", "const"}
  /\ n.op # "store" => n.dst = m.dst
  /\ n.op = "copy" => n.src1 # NoTemp /\ n.dst # NoTemp

LEMMA ValuesKept ==
  ASSUME nodes' = nodes, first' = first, source' = source
  PROVE  /\ \A env, x : Models(env, x)' <=> Models(env, x)
         /\ \A a, b : Valid(a, b)' <=> Valid(a, b)
         /\ \A r : RowValid(r)' <=> RowValid(r)
         /\ \A t, i : ConstValid(t, i)' <=> ConstValid(t, i)
         /\ \A n, p : Stands(n, p)' <=> Stands(n, p)
<1>1. /\ Reached' = Reached
      /\ \A t : Single(t)' <=> Single(t)
      /\ \A t, x : Avail(t, x)' <=> Avail(t, x)
  BY FormKept
<1>2. ASSUME NEW env, NEW x PROVE Models(env, x)' <=> Models(env, x)
  BY <1>1 DEF Models
<1>3. ASSUME NEW x, NEW a, NEW b PROVE Alike(x, a, b)' <=> Alike(x, a, b)
  BY <1>2 DEF Alike
<1>4. ASSUME NEW a, NEW b PROVE Valid(a, b)' <=> Valid(a, b)
  BY <1>1, <1>3 DEF Valid
<1>5. ASSUME NEW r PROVE RowValid(r)' <=> RowValid(r)
  BY <1>1, <1>2 DEF RowValid, Usable
<1>6. ASSUME NEW t, NEW i PROVE ConstValid(t, i)' <=> ConstValid(t, i)
  BY <1>1, <1>2 DEF ConstValid
<1>7. ASSUME NEW n, NEW p PROVE Stands(n, p)' <=> Stands(n, p)
  <2>1. /\ Alike(p, n.src1, source[p].src1)' <=> Alike(p, n.src1, source[p].src1)
        /\ Alike(p, n.src2, source[p].src2)' <=> Alike(p, n.src2, source[p].src2)
        /\ Alike(p, n.dst, source[p].dst)' <=> Alike(p, n.dst, source[p].dst)
    BY <1>2 DEF Alike
  <2>2. (\A env, in : Models(env, p) => Result(n, env, in) = Result(source[p], env, in))' <=>
        (\A env, in : Models(env, p) => Result(n, env, in) = Result(source[p], env, in))
    BY <1>2
  <2> QED BY <1>1, <2>1, <2>2 DEF Stands
<1> QED BY <1>2, <1>4, <1>5, <1>6, <1>7

(* Where a temporary may be used its definition has executed, with the      *)
(* values that its operands still have.                                     *)
LEMMA FromBirth ==
  ASSUME BlocksInv, NEW t \in Temp, NEW x \in Reached, Avail(t, x)
  PROVE  /\ Birth[t] \in Reached
         /\ \A u : Avail(u, Birth[t]) => Avail(u, x)
         /\ \A env : Models(env, x) =>
              /\ Models(env, Birth[t])
              /\ Single(t) /\ source[Birth[t]].op \notin Found
                   => Value(env, t) = Result(source[Birth[t]], env, <<>>)
<1>1. Birth[t] \in Reached
  BY PastIsReached DEF Avail
<1>2. \A u : Avail(u, Birth[t]) => Avail(u, x)
  BY PastIsTransitive DEF Avail
<1>3. t # NoTemp
  BY PipelineAssumption
<1> QED BY <1>1, <1>2, <1>3 DEF Models, Value

LEMMA CopyIsValid ==
  ASSUME BlocksInv, NEW a \in Temp, Single(a), NEW b, source[Birth[a]].op \notin Found,
         Birth[a] \in Reached =>
           /\ Avail(b, Birth[a])
           /\ \A env : Models(env, Birth[a]) => Result(source[Birth[a]], env, <<>>) = Value(env, b)
  PROVE  Valid(a, b)
<1> SUFFICES ASSUME NEW x \in Reached, Avail(a, x) PROVE Avail(b, x) /\ Alike(x, a, b)
  BY DEF Valid
<1>1. Birth[a] \in Reached /\ Avail(b, x)
  BY FromBirth
<1> QED BY <1>1, FromBirth DEF Alike

LEMMA RowIsValid ==
  ASSUME BlocksInv, NEW r, r.dst \in Temp, r.src1 \in Operand, r.src2 \in Operand,
         Single(r.dst), source[Birth[r.dst]].op \notin Found,
         Birth[r.dst] \in Reached =>
           /\ Usable(r.src1, Birth[r.dst]) /\ Usable(r.src2, Birth[r.dst])
           /\ \A env : Models(env, Birth[r.dst]) =>
                Result(source[Birth[r.dst]], env, <<>>) = RowTerm(r, env)
  PROVE  RowValid(r)
<1> SUFFICES ASSUME NEW x \in Reached, Avail(r.dst, x)
             PROVE  /\ Usable(r.src1, x) /\ Usable(r.src2, x)
                    /\ \A env : Models(env, x) => Value(env, r.dst) = RowTerm(r, env)
  BY DEF RowValid
<1>1. Birth[r.dst] \in Reached /\ Usable(r.src1, x) /\ Usable(r.src2, x)
  BY FromBirth DEF Usable
<1> QED BY <1>1, FromBirth

LEMMA ConstIsValid ==
  ASSUME BlocksInv, NEW t \in Temp, NEW i, Single(t), source[Birth[t]].op \notin Found,
         Birth[t] \in Reached =>
           \A env : Models(env, Birth[t]) => Result(source[Birth[t]], env, <<>>) = <<"imm", i>>
  PROVE  ConstValid(t, i)
<1> SUFFICES ASSUME NEW x \in Reached, Avail(t, x), NEW env, Models(env, x)
             PROVE  Value(env, t) = <<"imm", i>>
  BY DEF ConstValid
<1>1. Birth[t] \in Reached
  BY FromBirth
<1> QED BY <1>1, FromBirth

(* Leaders and what copies resolve to.                                      *)
LEMMA LeaderAlike ==
  ASSUME DataInv, NEW x,
         \A i \in DOMAIN cong : Avail(cong[i].from, x) =>
           Avail(cong[i].to, x) /\ Alike(x, cong[i].from, cong[i].to),
         NEW t \in Temp, Avail(t, x)
  PROVE  Leader(t) \in Temp /\ Avail(Leader(t), x) /\ Alike(x, t, Leader(t))
<1> DEFINE T == {u \in Temp : Avail(u, x) /\ Alike(x, t, u)}
<1>1. T \in SUBSET Operand /\ t \in T
  BY DEF Operand, Alike
<1>2. \A i \in DOMAIN cong : cong[i].to \in Temp
  <2>1. \A i \in DOMAIN cong : cong[i] \in Pair
    BY DEF DataInv
  <2> QED BY <2>1 DEF Pair
<1>3. \A i \in DOMAIN cong : cong[i].from \in T => cong[i].to \in T
  BY <1>2 DEF Alike
<1>4. Leader(t) \in T
  <2> HIDE DEF T
  <2> QED BY <1>1, <1>3, LeaderStays
<1> QED BY <1>4

LEMMA ResolveAlike ==
  ASSUME DataInv, NEW x,
         \A a \in aliases : a.from \in Temp /\ a.to \in Temp,
         \A a \in aliases : Avail(a.from, x) => Avail(a.to, x) /\ Alike(x, a.from, a.to),
         NEW t \in Temp, Avail(t, x)
  PROVE  Resolve(t) \in Temp /\ Avail(Resolve(t), x) /\ Alike(x, t, Resolve(t))
<1> DEFINE T == {u \in Temp : Avail(u, x) /\ Alike(x, t, u)}
<1>1. T \in SUBSET Operand /\ t \in T
  BY DEF Operand, Alike
<1>2. \A a \in aliases : a.from \in T => a.to \in T
  BY DEF Alike
<1>3. Resolve(t) \in T
  <2> HIDE DEF T
  <2> QED BY <1>1, <1>2, ResolveStays
<1> QED BY <1>3

LEMMA ResolveKept ==
  ASSUME DataInv, NEW F, \A a \in aliases : a.from \in Temp /\ a.to \in Temp /\ Def(a.to) \cap F = {},
         NEW t \in Temp, Def(t) \cap F = {}
  PROVE  Resolve(t) \in Temp /\ Def(Resolve(t)) \cap F = {}
<1> DEFINE T == {u \in Temp : Def(u) \cap F = {}}
<1>1. T \in SUBSET Operand /\ t \in T
  BY DEF Operand
<1>2. \A a \in aliases : a.from \in T => a.to \in T
  OBVIOUS
<1>3. Resolve(t) \in T
  <2> HIDE DEF T
  <2> QED BY <1>1, <1>2, ResolveStays
<1> QED BY <1>3

LEMMA ResolveNothing ==
  ASSUME DataInv, \A a \in aliases : a.from \in Temp
  PROVE  Resolve(NoTemp) = NoTemp
<1>1. {NoTemp} \in SUBSET Operand
  BY DEF Operand
<1>2. \A a \in aliases : a.from \in {NoTemp} => a.to \in {NoTemp}
  BY PipelineAssumption
<1>3. Resolve(NoTemp) \in {NoTemp}
  BY <1>1, <1>2, ResolveStays
<1> QED BY <1>3
-----------------------------------------------------------------------------
(* The three ways in which a node is rewritten.                             *)
LEMMA ForwardStands ==
  ASSUME NEW n \in IRNode, NEW m, Form(n, m), n.op \in Pure, n.dst # NoTemp, NEW c \in Temp
  PROVE  /\ Form(Forward(n, c), m)
         /\ \A p : /\ Stands(n, p) /\ m = source[p] /\ Avail(c, p)
                   /\ \A env : Models(env, p) => Value(env, c) = RowTerm(n, env)
                   => Stands(Forward(n, c), p)
<1> DEFINE f == Forward(n, c)
<1>1. f.op = "copy" /\ f.src1 = c /\ f.src2 = NoTemp /\ f.dst = n.dst
  BY DEF Forward, IRNode
<1>2. m.op \in Pure /\ n.dst = m.dst
  BY DEF Form, Pure, Commutative
<1>3. Form(f, m)
  BY <1>1, <1>2, PipelineAssumption DEF Form, SideEffect
<1> HIDE DEF f
<1>4. ASSUME NEW p, Stands(n, p), m = source[p], Avail(c, p),
             \A env : Models(env, p) => Value(env, c) = RowTerm(n, env)
      PROVE  Stands(f, p)
  <2>1. \A u \in Uses(f) : Avail(u, p)
    BY <1>1, <1>4 DEF Uses
  <2>2. n.op \notin SideEffect /\ f.op \notin SideEffect
    BY <1>1 DEF Pure, Commutative, SideEffect
  <2>3. ASSUME NEW env, NEW in, Models(env, p) PROVE Result(f, env, in) = Result(source[p], env, in)
    <3>1. Result(n, env, in) = Result(source[p], env, in)
      BY <1>4, <2>2, <2>3 DEF Stands
    <3>2. Result(f, env, in) = Value(env, c)
      BY <1>1 DEF Result
    <3>3. Result(n, env, in) = RowTerm(n, env)
      BY DEF Result, Pure, Commutative, RowTerm
    <3> QED BY <1>4, <2>3, <3>1, <3>2, <3>3
  <2> QED BY <2>1, <2>2, <2>3 DEF Stands
<1> QED BY <1>3, <1>4 DEF f

LEMMA ConstantStands ==
  ASSUME NEW n \in IRNode, NEW p, Form(n, source[p]), n.op = "copy", NEW i,
         NEW f, f.op = "const", f.src1 = NoTemp, f.src2 = NoTemp, f.dst = n.dst, f.imm = i
  PROVE  /\ Form(f, source[p])
         /\ /\ Stands(n, p)
            /\ \A env : Models(env, p) => Value(env, n.src1) = <<"imm", i>>
            => Stands(f, p)
<1> PICK m : m = source[p]
  OBVIOUS
<1>1. f.op = "const" /\ f.src1 = NoTemp /\ f.src2 = NoTemp /\ f.dst = n.dst /\ f.imm = i
  OBVIOUS
<1>2. m.op \in Pure \cup {"copy"} /\ n.dst = m.dst
  BY DEF Form, Pure
<1>3. Form(f, m)
  BY <1>1, <1>2 DEF Form, SideEffect, Pure, Commutative
<1>4. ASSUME Stands(n, p), \A env : Models(env, p) => Value(env, n.src1) = <<"imm", i>>
      PROVE  Stands(f, p)
  <2>1. Uses(f) = {}
    BY <1>1 DEF Uses
  <2>2. n.op \notin SideEffect /\ f.op \notin SideEffect
    BY <1>1 DEF SideEffect
  <2>3. ASSUME NEW env, NEW in, Models(env, p) PROVE Result(f, env, in) = Result(source[p], env, in)
    <3>1. Result(n, env, in) = Result(source[p], env, in)
      BY <1>4, <2>2, <2>3 DEF Stands
    <3>2. Result(f, env, in) = <<"imm", i>>
      BY <1>1 DEF Result
    <3>3. Result(n, env, in) = Value(env, n.src1)
      BY DEF Result
    <3> QED BY <1>4, <2>3, <3>1, <3>2, <3>3
  <2> QED BY <2>1, <2>2, <2>3 DEF Stands
<1> QED BY <1>3, <1>4

(* An operand gives way to one that may be used there and is like it.       *)
Replaces(s, old, p) == s = old \/ (Avail(s, p) /\ Alike(p, old, s))

LEMMA UseStands ==
  ASSUME NEW n \in IRNode, NEW p, Form(n, source[p]),
         NEW f, f.op = n.op, f.imm = n.imm, n.op # "store" => f.dst = n.dst,
         n.op = "copy" => f.src1 # NoTemp
  PROVE  /\ Form(f, source[p])
         /\ /\ Stands(n, p)
            /\ Replaces(f.src1, n.src1, p) /\ Replaces(f.src2, n.src2, p)
            /\ n.op = "store" => Replaces(f.dst, n.dst, p)
            => Stands(f, p)
<1> PICK m : m = source[p]
  OBVIOUS
<1>1. f.op = n.op /\ f.imm = n.imm /\ (n.op # "store" => f.dst = n.dst)
  OBVIOUS
<1>3. Form(f, m)
  BY <1>1 DEF Form
<1>4. ASSUME Stands(n, p), Replaces(f.src1, n.src1, p), Replaces(f.src2, n.src2, p),
             n.op = "store" => Replaces(f.dst, n.dst, p)
      PROVE  Stands(f, p)
  <2>1. \A u \in Uses(f) : Avail(u, p)
    <3>1. \A u \in Uses(n) : Avail(u, p)
      BY <1>4 DEF Stands
    <3> QED BY <1>1, <1>4, <3>1 DEF Uses, Replaces
  <2>2. ASSUME NEW env, Models(env, p)
        PROVE  /\ Value(env, f.src1) = Value(env, n.src1) /\ Value(env, f.src2) = Value(env, n.src2)
               /\ n.op = "store" => Value(env, f.dst) = Value(env, n.dst)
    BY <1>4, <2>2 DEF Replaces, Alike
  <2>3. CASE n.op \in SideEffect
    <3>1. /\ Alike(p, n.src1, source[p].src1) /\ Alike(p, n.src2, source[p].src2)
          /\ n.op = "store" => Alike(p, n.dst, source[p].dst)
      BY <1>4, <2>3 DEF Stands
    <3>2. /\ Alike(p, f.src1, source[p].src1) /\ Alike(p, f.src2, source[p].src2)
          /\ n.op = "store" => Alike(p, f.dst, source[p].dst)
      BY <2>2, <3>1 DEF Alike
    <3> QED BY <1>1, <2>1, <2>3, <3>2 DEF Stands
  <2>4. CASE n.op \notin SideEffect
    <3>1. ASSUME NEW env, NEW in, Models(env, p) PROVE Result(f, env, in) = Result(source[p], env, in)
      <4>1. Result(n, env, in) = Result(source[p], env, in)
        BY <1>4, <2>4, <3>1 DEF Stands
      <4>2. Result(f, env, in) = Result(n, env, in)
        <5>1. Value(env, f.src1) = Value(env, n.src1) /\ Value(env, f.src2) = Value(env, n.src2)
          BY <2>2, <3>1
        <5> QED BY <1>1, <5>1 DEF Result
      <4> QED BY <4>1, <4>2
    <3> QED BY <1>1, <2>1, <2>4, <3>1 DEF Stands
  <2> QED BY <2>3, <2>4
<1> QED BY <1>3, <1>4

-----------------------------------------------------------------------------
Rows  == {table[i] : i \in DOMAIN table}
Congs == {cong[i] : i \in DOMAIN cong}

(* Behind q in the list, without a label between.                           *)
Near(q) == q < cur /\ \A y \in DOMAIN source : q < y /\ y < cur => source[y].op # "label"

(* Every node still does what the source does, dead code elimination frees  *)
(* computations only, and what a listed node uses is computed in the list.  *)
NodesInv ==
  /\ \A p \in DOMAIN ir : \A n : n = ir[p] => Form(n, source[p]) /\ (p \in Reached => Stands(n, p))
  /\ \A p \in freed : source[p].op \notin SideEffect
  /\ stage \in {"scan", "ccp"} /\ cur # 0 => cur \in Listed
  /\ \A p \in Listed : \A u \in Uses(ir[p]) : Def(u) \cap freed = {}

(* What the value table and the congruences say is true wherever their      *)
(* temporary may be used; of a temporary with several definitions, this is  *)
(* nowhere in the scope.                                                    *)
TablesInv ==
  /\ \A r \in Rows : RowValid(r)
  /\ \A c \in Congs : Valid(c.from, c.to) \/ ~Single(c.from)
  /\ stage \in {"gvn", "scan"} => \A r \in Rows : Def(r.dst) \cap freed = {}
  /\ stage = "scan" => cong = <<>>
  /\ stage = "scan" /\ cur # 0 => \A r \in Rows : Near(Birth[r.dst])

CopiesInv ==
  /\ stage # "ccp" => aliases = {} /\ consts = NoConst
  /\ stage = "ccp" => \A a \in aliases : a.from \in Temp /\ a.to \in Temp /\ Def(a.to) \cap freed = {}
  /\ stage = "ccp" /\ cur # 0 =>
       /\ \A a \in aliases : \/ Valid(a.from, a.to)
                             \/ ~Single(a.from) /\ \E q \in Def(a.from) : Near(q)
       /\ \A t \in Temp, i \in Imm : consts[t] = <<i>> =>
            \/ ConstValid(t, i)
            \/ ~Single(t) /\ \E q \in Def(t) : Near(q)
-----------------------------------------------------------------------------
LEMMA BlocksSound == ASSUME PInv PROVE BlocksInv
BY DEF PInv, GraphInv, PhasesInv

(* One of several definitions is on every path to a node: there the         *)
(* temporary may not be used.                                               *)
LEMMA MergedNotAvail ==
  ASSUME BlocksInv, SsaForm, NEW t \in Temp, ~Single(t), NEW q \in Def(t), NEW x \in Reached, Past(q, x)
  PROVE  ~Avail(t, x)
<1>1. Merged(t)
  BY DEF SsaForm
<1>2. q \in Reached
  BY PastIsReached
<1>3. q # Birth[t] /\ ~Past(Birth[t], q) /\ ~Past(q, Birth[t])
  BY <1>1, <1>2 DEF Merged
<1> QED BY <1>3, PastIsLinear DEF Avail

LEMMA NearIsPast ==
  ASSUME SourceInv, BlocksInv, NEW q \in DOMAIN source, NEW x \in DOMAIN source, x = cur, Near(q),
         source[x].op # "label"
  PROVE  Past(q, x)
<1> DEFINE W == {p \in DOMAIN nodes : p < q \/ x < p}
<1>1. /\ DOMAIN nodes = DOMAIN source /\ DOMAIN nodes \subseteq Nat /\ q \in Nat /\ x \in Nat /\ q < x
      /\ \A y \in DOMAIN nodes : q < y /\ y <= x => nodes[y].op # "label"
      /\ 1 \in DOMAIN nodes /\ \A y \in DOMAIN nodes : y >= 1
  <2> PICK N : N = Len(ir)
    OBVIOUS
  <2>1. /\ N \in Nat \ {0} /\ DOMAIN nodes = 1 .. N /\ DOMAIN source = 1 .. N
        /\ \A y \in 1 .. N : nodes[y].op = "label" => source[y].op = "label"
    BY SizeFacts
  <2>2. q \in 1 .. N /\ x \in 1 .. N /\ q < x
        /\ \A y \in 1 .. N : q < y /\ y < x => source[y].op # "label"
    BY <2>1 DEF Near
  <2>3. ASSUME NEW y \in 1 .. N, q < y, y <= x PROVE nodes[y].op # "label"
    <3>1. y = x \/ y < x
      BY <2>1, <2>2, <2>3
    <3> QED BY <2>1, <2>2, <2>3, <3>1
  <2> QED BY <2>1, <2>2, <2>3
<1>2. {1} \ {q} \subseteq W
  BY <1>1
<1>3. ASSUME NEW p \in W, NEW r \in Flow(p) \ {q} PROVE r \in W
  <2>1. r \in DOMAIN nodes /\ p \in DOMAIN nodes /\ (nodes[r].op = "label" \/ r = p + 1)
    BY <1>3 DEF Flow, Jumps, Inside
  <2>2. r \in Nat /\ p \in Nat /\ (p < q \/ x < p) /\ r # q
    BY <1>1, <1>3, <2>1
  <2>3. CASE nodes[r].op = "label"
    BY <1>1, <2>1, <2>2, <2>3
  <2>4. CASE r = p + 1
    BY <1>1, <2>1, <2>2, <2>4
  <2> QED BY <2>1, <2>3, <2>4
<1> HIDE DEF W
<1>4. ReachAvoiding({q}) \subseteq W
  BY <1>2, <1>3, ReachIsLeast
<1>5. x \notin W
  BY <1>1 DEF W
<1> QED BY <1>1, <1>4, <1>5 DEF Past

LEMMA DefFacts ==
  ASSUME SourceInv, NodesInv, NEW p \in DOMAIN ir, ir[p].dst # NoTemp, ir[p].op \notin SideEffect
  PROVE  /\ p \in DOMAIN source /\ ir[p].dst \in Temp /\ p \in Def(ir[p].dst)
         /\ ir[p].op \in Pure \cup {"copy"} => source[p].op \in Pure \cup {"copy"}
         /\ ir[p].op \in Pure => source[p].op = ir[p].op
         /\ Form(ir[p], source[p]) /\ (p \in Reached => Stands(ir[p], p))
<1>1. ir[p] \in IRNode /\ DOMAIN source = DOMAIN ir
  BY SizeFacts
<1>2. Form(ir[p], source[p]) /\ (p \in Reached => Stands(ir[p], p))
  BY DEF NodesInv
<1>3. source[p].dst = ir[p].dst /\ source[p].op \notin SideEffect
  BY <1>2 DEF Form, SideEffect, Pure, Commutative
<1>4. /\ ir[p].op \in Pure \cup {"copy"} => source[p].op \in Pure \cup {"copy"}
      /\ ir[p].op \in Pure => source[p].op = ir[p].op
  BY <1>2 DEF Form, Pure, Commutative
<1> QED BY <1>1, <1>2, <1>3, <1>4 DEF Def, Defines, IRNode

(* At x, leaders stand for what they lead from.                             *)
LeadersFit(x) ==
  \A t \in Temp : Avail(t, x) => Leader(t) \in Temp /\ Avail(Leader(t), x) /\ Alike(x, t, Leader(t))

LEMMA LeaderNothing ==
  ASSUME DataInv PROVE Leader(NoTemp) = NoTemp
<1>1. {NoTemp} \in SUBSET Operand
  BY DEF Operand
<1>2. \A i \in DOMAIN cong : cong[i].from \in {NoTemp} => cong[i].to \in {NoTemp}
  <2>1. \A i \in DOMAIN cong : cong[i] \in Pair
    BY DEF DataInv
  <2> QED BY <2>1, PipelineAssumption DEF Pair
<1>3. Leader(NoTemp) \in {NoTemp}
  BY <1>1, <1>2, LeaderStays
<1> QED BY <1>3

LEMMA LeaderUsable ==
  ASSUME DataInv, NEW x, LeadersFit(x), NEW s \in Operand, Usable(s, x)
  PROVE  Usable(Leader(s), x) /\ Alike(x, s, Leader(s))
<1>1. CASE s = NoTemp
  BY <1>1, LeaderNothing DEF Usable, Alike
<1>2. CASE s # NoTemp
  BY <1>2 DEF Usable, LeadersFit, Operand
<1> QED BY <1>1, <1>2

(* The operands of a node that stands for the source may be used.           *)
LEMMA OperandsUsable ==
  ASSUME NEW n \in IRNode, NEW p, Stands(n, p)
  PROVE  n.src1 \in Operand /\ n.src2 \in Operand /\ Usable(n.src1, p) /\ Usable(n.src2, p)
BY DEF IRNode, Operand, Stands, Uses, Usable

LEMMA SameTerm ==
  ASSUME NEW op, NEW a, NEW b, NEW c, NEW d, SameOperands(op, a, b, c, d), NEW env
  PROVE  Term(op, Value(env, a), Value(env, b)) = Term(op, Value(env, c), Value(env, d))
<1>1. CASE a = c /\ b = d
  BY <1>1
<1>2. CASE op \in Commutative /\ a = d /\ b = c
  <2>1. {Value(env, a), Value(env, b)} = {Value(env, c), Value(env, d)}
    BY <1>2
  <2> QED BY <1>2, <2>1 DEF Term
<1> QED BY <1>1, <1>2 DEF SameOperands

LEMMA PureResult ==
  ASSUME NEW n, n.op \in Pure, NEW env, NEW in PROVE Result(n, env, in) = RowTerm(n, env)
BY DEF Result, Pure, Commutative, RowTerm

(* What numbering makes of the node under the cursor, when leaders stand    *)
(* for what they lead from and the rows have been computed.                 *)
LEMMA ComputedNumbered ==
  ASSUME PInv, SsaForm, NodesInv, TablesInv, cur \in DOMAIN ir, cur \notin freed,
         ir[cur].op \in Pure, ir[cur].dst # NoTemp,
         cur \in Reached => LeadersFit(cur)
  PROVE  /\ Single(ir[cur].dst) /\ Birth[ir[cur].dst] = cur
         /\ RowValid(Entry(ir[cur])) /\ Def(ir[cur].dst) \cap freed = {}
<1> PICK n : n = ir[cur]
  OBVIOUS
<1> PICK c : c = cur
  OBVIOUS
<1>1. SourceInv /\ BlocksInv /\ DataInv
  BY BlocksSound DEF PInv
<1>2. n \in IRNode
  BY <1>1, SizeFacts
<1>3. /\ c \in DOMAIN source /\ n.dst \in Temp /\ c \in Def(n.dst) /\ source[c].op = n.op
      /\ c \in Reached => Stands(n, c)
  BY <1>1, DefFacts DEF Pure, Commutative, SideEffect
<1>4. Single(n.dst) /\ Birth[n.dst] = c
  <2>1. ~Merged(n.dst)
    BY <1>3 DEF Merged, Pure, Commutative
  <2> QED BY <1>3, <2>1 DEF SsaForm, Single
<1>5. n.src1 \in Operand /\ n.src2 \in Operand
  BY <1>2 DEF IRNode, Operand
<1>6. Leader(n.src1) \in Operand /\ Leader(n.src2) \in Operand
  BY <1>1, <1>5, LeaderType
<1> PICK r : r = Entry(n)
  OBVIOUS
<1>7. r.op = n.op /\ r.src1 = Leader(n.src1) /\ r.src2 = Leader(n.src2) /\ r.dst = n.dst
  BY DEF Entry
<1>8. c \in Reached => /\ Usable(r.src1, c) /\ Usable(r.src2, c)
                       /\ \A env : Models(env, c) => Result(source[c], env, <<>>) = RowTerm(r, env)
  <2> SUFFICES ASSUME c \in Reached
               PROVE  /\ Usable(r.src1, c) /\ Usable(r.src2, c)
                      /\ \A env : Models(env, c) => Result(source[c], env, <<>>) = RowTerm(r, env)
    OBVIOUS
  <2>1. Usable(n.src1, c) /\ Usable(n.src2, c)
    BY <1>2, <1>3, OperandsUsable
  <2>2. /\ Usable(r.src1, c) /\ Usable(r.src2, c)
        /\ Alike(c, n.src1, r.src1) /\ Alike(c, n.src2, r.src2)
    BY <1>1, <1>5, <1>7, <2>1, LeaderUsable
  <2>3. ASSUME NEW env, Models(env, c) PROVE Result(source[c], env, <<>>) = RowTerm(r, env)
    <3>1. Result(source[c], env, <<>>) = Result(n, env, <<>>)
      BY <1>3, <2>3 DEF Stands, Pure, SideEffect, Commutative
    <3>2. Result(n, env, <<>>) = RowTerm(n, env)
      BY PureResult
    <3>3. Value(env, n.src1) = Value(env, r.src1) /\ Value(env, n.src2) = Value(env, r.src2)
      BY <2>2, <2>3 DEF Alike
    <3> QED BY <1>7, <3>1, <3>2, <3>3 DEF RowTerm
  <2> QED BY <2>2, <2>3
<1>9. RowValid(r)
  <2>1. source[c].op \notin Found
    BY <1>3 DEF Pure, Commutative, Found
  <2> QED BY <1>1, <1>3, <1>4, <1>6, <1>7, <1>8, <2>1, RowIsValid
<1>10. Def(n.dst) \cap freed = {}
  BY <1>4 DEF Single
<1> QED BY <1>4, <1>9, <1>10

LEMMA CopiedNumbered ==
  ASSUME PInv, SsaForm, NodesInv, TablesInv, stage \in {"gvn", "scan"}, cur \in DOMAIN ir, cur \notin freed,
         ir[cur].op \in Pure, ir[cur].dst # NoTemp, Known(ir[cur]) # {},
         cur \in Reached => LeadersFit(cur),
         cur \in Reached => \A r \in Rows : Avail(r.dst, cur),
         NEW canon, canon = table[Least(Known(ir[cur]))].dst
  PROVE  /\ canon \in Temp /\ Def(canon) \cap freed = {} /\ Valid(ir[cur].dst, Leader(canon))
         /\ Form(Forward(ir[cur], canon), source[cur])
         /\ cur \in Reached => Stands(Forward(ir[cur], canon), cur)
<1> PICK n : n = ir[cur]
  OBVIOUS
<1> PICK c : c = cur
  OBVIOUS
<1> PICK r : r = table[Least(Known(n))]
  OBVIOUS
<1>1. SourceInv /\ BlocksInv /\ DataInv
  BY BlocksSound DEF PInv
<1>2. n \in IRNode
  BY <1>1, SizeFacts
<1>3. /\ c \in DOMAIN source /\ n.dst \in Temp /\ source[c].op = n.op
      /\ c \in Reached => Stands(n, c)
      /\ Form(n, source[c])
  BY <1>1, DefFacts DEF Pure, Commutative, SideEffect
<1>4. Single(n.dst) /\ Birth[n.dst] = c
  BY ComputedNumbered
<1>5. /\ r \in Rows /\ r.op = n.op /\ r.dst = canon /\ canon \in Temp
      /\ SameOperands(n.op, r.src1, r.src2, Leader(n.src1), Leader(n.src2))
  <2>1. Least(Known(n)) \in Known(n)
    <3>1. Known(n) \in SUBSET Nat
      BY <1>1 DEF DataInv, Known
    <3> QED BY <3>1, LeastExists DEF Least
  <2>2. canon \in Temp /\ Least(Known(n)) \in DOMAIN table
    BY <1>1, CanonType
  <2> QED BY <2>1, <2>2 DEF Known, Rows
<1>6. RowValid(r) /\ Def(canon) \cap freed = {}
  BY <1>5 DEF TablesInv
<1>7. n.src1 \in Operand /\ n.src2 \in Operand
  BY <1>2 DEF IRNode, Operand
<1>8. ASSUME c \in Reached
      PROVE  Avail(canon, c) /\ \A env : Models(env, c) => Value(env, canon) = RowTerm(n, env)
  <2>1. Usable(n.src1, c) /\ Usable(n.src2, c)
    BY <1>2, <1>3, <1>8, OperandsUsable
  <2>2. Alike(c, n.src1, Leader(n.src1)) /\ Alike(c, n.src2, Leader(n.src2))
    BY <1>1, <1>7, <1>8, <2>1, LeaderUsable
  <2>3. Avail(canon, c)
    BY <1>5, <1>8
  <2>4. ASSUME NEW env, Models(env, c) PROVE Value(env, canon) = RowTerm(n, env)
    <3>1. Value(env, canon) = RowTerm(r, env)
      BY <1>5, <1>6, <1>8, <2>3, <2>4 DEF RowValid
    <3>2. RowTerm(r, env) = Term(n.op, Value(env, Leader(n.src1)), Value(env, Leader(n.src2)))
      BY <1>5, SameTerm DEF RowTerm
    <3>3. Value(env, n.src1) = Value(env, Leader(n.src1)) /\ Value(env, n.src2) = Value(env, Leader(n.src2))
      BY <2>2, <2>4 DEF Alike
    <3> QED BY <3>1, <3>2, <3>3 DEF RowTerm
  <2> QED BY <2>3, <2>4
<1>9. Form(Forward(n, canon), source[c])
  BY <1>2, <1>3, <1>5, ForwardStands
<1>10. c \in Reached => Stands(Forward(n, canon), c)
  BY <1>2, <1>3, <1>5, <1>8, ForwardStands
<1>11. Valid(n.dst, Leader(canon))
  <2> PICK l : l = Leader(canon)
    OBVIOUS
  <2>1. ASSUME c \in Reached
        PROVE  Avail(l, c) /\ \A env : Models(env, c) => Result(source[c], env, <<>>) = Value(env, l)
    <3>1. Avail(l, c) /\ Alike(c, canon, l)
      BY <1>5, <1>8, <2>1 DEF LeadersFit
    <3>2. ASSUME NEW env, Models(env, c) PROVE Result(source[c], env, <<>>) = Value(env, l)
      <4>1. Result(source[c], env, <<>>) = Result(n, env, <<>>)
        BY <1>3, <2>1, <3>2 DEF Stands, Pure, SideEffect, Commutative
      <4>2. Result(n, env, <<>>) = RowTerm(n, env)
        BY PureResult
      <4> QED BY <1>8, <2>1, <3>1, <3>2, <4>1, <4>2 DEF Alike
    <3> QED BY <3>1, <3>2
  <2>2. source[c].op \notin Found
    BY <1>3 DEF Pure, Commutative, Found
  <2> QED BY <1>1, <1>3, <1>4, <2>1, <2>2, CopyIsValid
<1> QED BY <1>5, <1>6, <1>9, <1>10, <1>11

LEMMA UseNumbered ==
  ASSUME PInv, SsaForm, NodesInv, cur \in DOMAIN ir,
         ir[cur].op = "copy", ir[cur].dst # NoTemp,
         NEW l \in Temp,
         cur \in Reached => Avail(l, cur) /\ Alike(cur, ir[cur].src1, l)
  PROVE  Valid(ir[cur].dst, l) \/ ~Single(ir[cur].dst)
<1> PICK n : n = ir[cur]
  OBVIOUS
<1> PICK c : c = cur
  OBVIOUS
<1>1. SourceInv /\ BlocksInv
  BY BlocksSound DEF PInv
<1>3. /\ c \in DOMAIN source /\ n.dst \in Temp /\ c \in Def(n.dst)
      /\ source[c].op \in Pure \cup {"copy"}
      /\ c \in Reached => Stands(n, c)
  BY <1>1, DefFacts DEF Pure, Commutative, SideEffect
<1> SUFFICES ASSUME Single(n.dst) PROVE Valid(n.dst, l)
  OBVIOUS
<1>4. Birth[n.dst] = c
  BY <1>3 DEF Single
<1>5. ASSUME c \in Reached
      PROVE  Avail(l, c) /\ \A env : Models(env, c) => Result(source[c], env, <<>>) = Value(env, l)
  <2>1. ASSUME NEW env, Models(env, c) PROVE Result(source[c], env, <<>>) = Value(env, l)
    <3>1. Result(source[c], env, <<>>) = Result(n, env, <<>>)
      BY <1>3, <1>5, <2>1 DEF Stands, SideEffect
    <3>2. Result(n, env, <<>>) = Value(env, n.src1)
      BY DEF Result
    <3> QED BY <1>5, <2>1, <3>1, <3>2 DEF Alike
  <2> QED BY <1>5, <2>1
<1>6. source[c].op \notin Found
  BY <1>3 DEF Pure, Commutative, Found
<1> QED BY <1>1, <1>3, <1>4, <1>5, <1>6, CopyIsValid

-----------------------------------------------------------------------------
(* Where the congruences come from: a definition of the temporary that is   *)
(* led from, in a block of the path, behind the cursor.                     *)
Behind(j, q) == q \in NodesOf(Path(j)) /\ (j = Len(walk) /\ cur # 0 => q < cur)

LedAt(i, j, q) == Behind(j, q) /\ walk[j].congs < i /\ q \in Def(cong[i].from)

LedInv ==
  stage = "gvn" => \A i \in DOMAIN cong : \E j \in DOMAIN walk : \E q \in Nat : LedAt(i, j, q)

(* What is behind the cursor is on every path to it.                        *)
LEMMA BehindIsPast ==
  ASSUME \A prog \in Programs : LabelsDistinct(prog), PInv, OwnBlockOnly, stage = "gvn", cur # 0,
         NEW j \in DOMAIN walk, NEW q, Behind(j, q)
  PROVE  Past(q, cur) /\ cur \in DOMAIN ir
<1>1. /\ Top.block = Path(Len(walk)) /\ Top.block \in Block /\ pc = "done"
      /\ Len(walk) \in Nat /\ DOMAIN walk = 1 .. Len(walk) /\ Len(walk) \in DOMAIN walk
      /\ cur \in NodesOf(Top.block)
  BY TopFacts DEF PInv, OwnBlockOnly
<1>2. /\ Computed /\ Partition /\ BlocksInv /\ \A b \in Block : b \in dom[b]
  BY <1>1, TreeFacts DEF PInv, GraphInv, PhasesInv, SweepInv
<1>3. Path(j) \in Block /\ q \in NodesOf(Path(j))
  BY DEF PInv, ScopeInv, PathInv, Behind
<1>4. Path(j) \in dom[Top.block] /\ (Top.block = Path(j) => q < cur)
  <2>1. CASE j = Len(walk)
    BY <1>1, <1>2, <2>1 DEF Behind
  <2>2. CASE j # Len(walk)
    <3>1. j < Len(walk)
      BY <1>1, <2>2
    <3> QED BY <1>1, <3>1 DEF PInv, ScopeInv, PathInv
  <2> QED BY <2>1, <2>2
<1>5. cur \notin ReachAvoiding({q})
  BY <1>1, <1>2, <1>3, <1>4, SetsAreSound
<1>6. cur # q
  <2>1. CASE Top.block = Path(j)
    <3>1. cur \in Nat
      BY SizeFacts DEF PInv, LinkInv, Places
    <3> QED BY <1>4, <2>1, <3>1
  <2>2. CASE Top.block # Path(j)
    BY <1>1, <1>2, <1>3, <2>2, NodesOfBlocks
  <2> QED BY <2>1, <2>2
<1>7. NodesOf(Top.block) \subseteq DOMAIN nodes
  BY <1>1, <1>2, NodesOfBlocks
<1> QED BY <1>1, <1>5, <1>6, <1>7, SizeFacts DEF Past, PInv

(* What is behind the cursor stays behind it.                               *)
LEMMA BehindNumbers ==
  ASSUME EndsKept, PInv, OwnBlockOnly, GvnNode
  PROVE  /\ \A j \in DOMAIN walk, q \in Nat : Behind(j, q) => Behind(j, q)'
         /\ cur \in Nat /\ \A c : c = cur => \A k : k = Len(walk) => k \in DOMAIN walk /\ Behind(k, c)'
<1>1. stage = "gvn" /\ cur # 0 /\ walk' = walk /\ first' = first /\ nodes' = nodes
  BY DEF GvnNode, vars
<1>2. cur \in NodesOf(Top.block) /\ cur \in Nat /\ cur' \in Nat /\ (cur' # 0 => cur < cur')
  <2>1. cur \in Places /\ next[cur] \in Places /\ Places \subseteq Nat
    BY SizeFacts DEF PInv, LinkInv, Places
  <2>2. cur' \in Nat
    BY <2>1 DEF GvnNode, AfterNode
  <2> QED BY <2>1, <2>2, NextInBlock DEF PInv
<1>3. Len(walk) \in DOMAIN walk /\ Top.block = Path(Len(walk))
  BY <1>1, TopFacts DEF PInv
<1>4. ASSUME NEW j \in DOMAIN walk, NEW q \in Nat, q \in NodesOf(Path(j)),
             j = Len(walk) /\ cur' # 0 => q < cur'
      PROVE  Behind(j, q)'
  <2>1. NodesOf(Path(j))' = NodesOf(Path(j))
    BY <1>1 DEF NodesOf, Last, Path
  <2> QED BY <1>1, <1>4, <2>1 DEF Behind
<1>5. ASSUME NEW j \in DOMAIN walk, NEW q \in Nat, Behind(j, q) PROVE Behind(j, q)'
  <2>1. q \in NodesOf(Path(j)) /\ (j = Len(walk) => q < cur)
    BY <1>1, <1>5 DEF Behind
  <2>2. j = Len(walk) /\ cur' # 0 => q < cur'
    BY <1>2, <2>1
  <2> QED BY <1>4, <2>1, <2>2
<1> PICK c : c = cur
  OBVIOUS
<1> PICK k : k = Len(walk)
  OBVIOUS
<1>6. Behind(k, c)'
  BY <1>2, <1>3, <1>4
<1> QED BY <1>2, <1>3, <1>5, <1>6

(* A new congruence leads from the temporary that the node defines.         *)
LEMMA CongruentAdds ==
  ASSUME DataInv, NEW a \in Temp, NEW b \in Temp, cong' = Congruent(a, b)
  PROVE  /\ Len(cong') >= Len(cong) /\ Len(cong') \in Nat /\ Len(cong) \in Nat
         /\ \A i \in DOMAIN cong : cong'[i].from = cong[i].from
         /\ \A i \in DOMAIN cong' \ DOMAIN cong : cong'[i].from = a /\ i = Len(cong) + 1
         /\ \A i \in DOMAIN cong' : \/ i \in DOMAIN cong /\ cong'[i] = cong[i]
                                    \/ cong'[i].from = a /\ cong'[i].to = Leader(b)
<1>1. cong \in Seq(Pair) /\ Len(cong) \in Nat /\ DOMAIN cong = 1 .. Len(cong)
  BY DEF DataInv
<1> DEFINE new == [from |-> a, to |-> Leader(b)]
           over == [i \in DOMAIN cong |-> IF cong[i].from = a THEN new ELSE cong[i]]
<1>2. new.from = a /\ new.to = Leader(b)
  OBVIOUS
<1> HIDE DEF new
<1>3. CASE cong' = cong
  BY <1>1, <1>3
<1>4. CASE cong' = over
  <2>1. Len(over) = Len(cong) /\ DOMAIN over = DOMAIN cong
    BY <1>1
  <2>2. \A i \in DOMAIN cong : over[i] = IF cong[i].from = a THEN new ELSE cong[i]
    OBVIOUS
  <2> HIDE DEF over
  <2> QED BY <1>1, <1>2, <1>4, <2>1, <2>2
<1>5. CASE cong' = Append(cong, new)
  <2>1. /\ DOMAIN cong' = 1 .. Len(cong) + 1 /\ Len(cong') = Len(cong) + 1
        /\ cong'[Len(cong) + 1] = new /\ \A i \in 1 .. Len(cong) : cong'[i] = cong[i]
    BY <1>1, <1>5
  <2>2. \A i \in DOMAIN cong' : i \in DOMAIN cong \/ i = Len(cong) + 1
    BY <1>1, <2>1
  <2> QED BY <1>1, <1>2, <2>1, <2>2
<1>6. cong' = cong \/ cong' = over \/ cong' = Append(cong, new)
  BY DEF Congruent, new
<1> HIDE DEF over
<1> QED BY <1>3, <1>4, <1>5, <1>6

(* The node that value numbering looks at, and what it does to it.          *)
LEMMA NumberCases ==
  ASSUME SourceInv, LinkInv, DataInv, NodesInv, GvnNode
  PROVE  \/ UNCHANGED <<ir, cong, table>>
         \/ /\ cur \in DOMAIN ir \ freed /\ ir[cur].op = "copy" /\ ir[cur].dst \in Temp /\ ir[cur].src1 \in Temp
            /\ cong' = Congruent(ir[cur].dst, ir[cur].src1) /\ UNCHANGED <<ir, table>>
         \/ /\ cur \in DOMAIN ir \ freed /\ ir[cur].op \in Pure /\ ir[cur].dst \in Temp
            /\ \/ /\ Known(ir[cur]) # {} /\ table' = table
                  /\ \E canon \in Temp : /\ canon = table[Least(Known(ir[cur]))].dst
                                         /\ ir' = [ir EXCEPT ![cur] = Forward(ir[cur], canon)]
                                         /\ cong' = Congruent(ir[cur].dst, canon)
               \/ Known(ir[cur]) = {} /\ table' = Inserted(ir[cur]) /\ UNCHANGED <<ir, cong>>
<1> PICK n : n = ir[cur]
  OBVIOUS
<1>1. cur \in DOMAIN ir /\ n \in IRNode
  BY SizeFacts DEF LinkInv, GvnNode, Places
<1>2. n.dst # NoTemp => n.dst \in Temp
  BY <1>1 DEF IRNode
<1>3. n.src1 # NoTemp => n.src1 \in Temp
  BY <1>1 DEF IRNode
<1>4. Known(n) # {} => table[Least(Known(n))].dst \in Temp
  BY CanonType
<1> QED BY <1>1, <1>2, <1>3, <1>4 DEF GvnNode, IsCopy

LEMMA LedNumbers ==
  ASSUME EndsKept, PInv, NodesInv, OwnBlockOnly, LedInv, GvnNode
  PROVE  LedInv'
<1>1. stage = "gvn" /\ walk' = walk /\ source' = source /\ SourceInv /\ LinkInv /\ DataInv
  BY DEF GvnNode, fixed, PInv
<1>2. \A t : Def(t)' = Def(t)
  BY <1>1 DEF Def
<1>3. ASSUME NEW i \in DOMAIN cong, cong'[i].from = cong[i].from
      PROVE  \E j \in DOMAIN walk : \E q \in Nat : LedAt(i, j, q)'
  <2>1. PICK j \in DOMAIN walk : \E q \in Nat : LedAt(i, j, q)
    BY <1>1 DEF LedInv
  <2>2. PICK q \in Nat : LedAt(i, j, q)
    BY <2>1
  <2>3. Behind(j, q)'
    BY <2>2, BehindNumbers DEF LedAt
  <2>4. LedAt(i, j, q)'
    BY <1>1, <1>3, <2>2, <2>3 DEF LedAt, Def
  <2> QED BY <2>4
<1>4. CASE cong' = cong
  BY <1>1, <1>3, <1>4 DEF LedInv
<1>5. ASSUME NEW b \in Temp, cur \in DOMAIN ir, ir[cur].op \notin SideEffect, ir[cur].dst \in Temp,
             cong' = Congruent(ir[cur].dst, b)
      PROVE  LedInv'
  <2> PICK c : c = cur
    OBVIOUS
  <2> PICK k : k = Len(walk)
    OBVIOUS
  <2> PICK a \in Temp : a = ir[cur].dst
    BY <1>5
  <2>1. c \in Nat /\ k \in DOMAIN walk /\ Behind(k, c)'
    BY BehindNumbers
  <2>2. c \in Def(a)
    BY <1>1, <1>5, DefFacts, PipelineAssumption
  <2>3. /\ \A i \in DOMAIN cong : cong'[i].from = cong[i].from
        /\ \A i \in DOMAIN cong' \ DOMAIN cong : cong'[i].from = a /\ i = Len(cong) + 1
        /\ Len(cong) \in Nat
    BY <1>1, <1>5, CongruentAdds
  <2>4. walk[k].congs <= Len(cong) /\ walk[k].congs \in Nat
    <3>1. walk[k] \in Scope
      BY <2>1 DEF PInv, ScopeInv
    <3> QED BY <2>1, <3>1 DEF PInv, ScopeInv, Scope
  <2>5. ASSUME NEW i \in DOMAIN cong' \ DOMAIN cong PROVE LedAt(i, k, c)'
    <3>1. walk[k].congs < i /\ cong'[i].from = a
      BY <2>3, <2>4, <2>5
    <3> QED BY <1>1, <2>1, <2>2, <3>1 DEF LedAt, Def
  <2> QED BY <1>1, <1>3, <2>1, <2>3, <2>5 DEF LedInv
<1>6. CASE cong' # cong
  <2>1. ir[cur].op \notin SideEffect /\ cur \in DOMAIN ir /\ ir[cur].dst \in Temp
        /\ \E b \in Temp : cong' = Congruent(ir[cur].dst, b)
    BY <1>1, <1>6, NumberCases DEF Pure, Commutative, SideEffect
  <2> QED BY <1>5, <2>1
<1> QED BY <1>4, <1>6

LEMMA LedDescends ==
  ASSUME PInv, LedInv, GvnDescend
  PROVE  LedInv'
<1> PICK n : n = Len(walk)
  OBVIOUS
<1> PICK c : c = Head(Top.todo)
  OBVIOUS
<1>1. stage = "gvn" /\ cur = 0 /\ cong' = cong /\ source' = source /\ first' = first /\ nodes' = nodes
  BY DEF GvnDescend, vars, fixed
<1>2. /\ n \in Nat \ {0} /\ DOMAIN walk = 1 .. n /\ DOMAIN walk' = 1 .. n + 1 /\ Len(walk') = n + 1
      /\ \A i \in 1 .. n : Path(i)' = Path(i) /\ walk'[i].congs = walk[i].congs
  BY Descent DEF PInv
<1>3. ASSUME NEW i \in DOMAIN cong
      PROVE  \E j \in 1 .. n + 1 : \E q \in Nat : LedAt(i, j, q)'
  <2>1. PICK j \in 1 .. n : \E q \in Nat : LedAt(i, j, q)
    BY <1>1, <1>2 DEF LedInv
  <2>2. PICK q \in Nat : LedAt(i, j, q)
    BY <2>1
  <2>3. j # n + 1 /\ j \in 1 .. n + 1
    BY <1>2
  <2>4. Path(j)' = Path(j) /\ walk'[j].congs = walk[j].congs
    BY <1>2
  <2>5. NodesOf(Path(j))' = NodesOf(Path(j))
    BY <1>1, <2>4 DEF NodesOf, Last
  <2>6. Behind(j, q)'
    BY <1>2, <2>2, <2>3, <2>5 DEF LedAt, Behind
  <2>7. LedAt(i, j, q)'
    BY <1>1, <2>2, <2>4, <2>6 DEF LedAt, Def
  <2> QED BY <2>3, <2>7
<1> QED BY <1>1, <1>2, <1>3 DEF LedInv

LEMMA LedLeaves ==
  ASSUME PInv, LedInv, GvnLeave
  PROVE  LedInv'
<1> PICK n : n = Len(walk)
  OBVIOUS
<1>1. SUFFICES ASSUME stage' = "gvn" PROVE LedInv'
  BY DEF LedInv
<1>2. /\ stage = "gvn" /\ source' = source /\ first' = first /\ nodes' = nodes
      /\ walk' = SubSeq(walk, 1, n - 1) /\ cong' = SubSeq(cong, 1, Top.congs) /\ cur = 0
      /\ walk' # <<>> => cur' = cur
      /\ walk' = <<>> => stage' = "ccp"
  BY DEF GvnLeave, vars, fixed, StartSweepAt
<1>3. /\ n \in Nat \ {0} /\ DOMAIN walk = 1 .. n /\ Top = walk[n] /\ Top \in Scope
      /\ walk \in Seq(Scope)
  BY <1>2, TopFacts DEF PInv, ScopeInv
<1>4. Top.congs \in Nat /\ Top.congs <= Len(cong) /\ cong \in Seq(Pair)
  BY <1>3 DEF Scope, PInv, ScopeInv, DataInv
<1>5. /\ DOMAIN walk' = 1 .. n - 1 /\ \A i \in 1 .. n - 1 : walk'[i] = walk[i]
  BY <1>2, <1>3
<1>6. /\ DOMAIN cong' = 1 .. Top.congs /\ \A i \in 1 .. Top.congs : cong'[i] = cong[i]
      /\ 1 .. Top.congs \subseteq DOMAIN cong
  BY <1>2, <1>4
<1>7. cur' = 0
  BY <1>1, <1>2
<1>8. ASSUME NEW i \in 1 .. Top.congs
      PROVE  \E j \in 1 .. n - 1 : \E q \in Nat : LedAt(i, j, q)'
  <2>1. PICK j \in 1 .. n : \E q \in Nat : LedAt(i, j, q)
    BY <1>2, <1>3, <1>6 DEF LedInv
  <2>2. PICK q \in Nat : LedAt(i, j, q)
    BY <2>1
  <2>3. j # n
    BY <1>3, <1>4, <2>2 DEF LedAt
  <2>4. j \in 1 .. n - 1
    BY <1>3, <2>3
  <2>5. walk'[j] = walk[j] /\ cong'[i] = cong[i]
    BY <1>5, <1>6, <2>4
  <2>6. LedAt(i, j, q)'
    BY <1>2, <1>7, <2>2, <2>5 DEF LedAt, Behind, NodesOf, Last, Path, Def
  <2> QED BY <2>4, <2>6
<1> QED BY <1>5, <1>6, <1>8 DEF LedInv

LEMMA LedStep ==
  ASSUME EndsKept, PInv, NodesInv, OwnBlockOnly, LedInv, [PipeNext]_pipeVars
  PROVE  LedInv'
<1>1. CASE Analyse \/ StartDce \/ DceDelete \/ DceKeep \/ DceAgain \/ ScanNode \/ EndScan
           \/ CcpNode \/ EndCcp \/ StartRun \/ Run
  <2>1. stage' # "gvn"
    BY <1>1 DEF Analyse, StartDce, DceDelete, DceKeep, DceAgain, ScanNode, EndScan, CcpNode, EndCcp,
                StartRun, Run, StartSweepAt
  <2> QED BY <2>1 DEF LedInv
<1>2. CASE StartGvn
  <2>1. cong' = <<>>
    BY <1>2 DEF StartGvn, PInv, SourceInv
  <2> QED BY <2>1 DEF LedInv
<1>3. CASE GvnNode
  BY <1>3, LedNumbers
<1>4. CASE GvnDescend
  BY <1>4, LedDescends
<1>5. CASE GvnLeave
  BY <1>5, LedLeaves
<1>6. CASE UNCHANGED pipeVars
  BY <1>6 DEF pipeVars, gvnVars, fixed, vars, LedInv, LedAt, Behind, Path, NodesOf, Last, Def
<1> QED BY <1>1, <1>2, <1>3, <1>4, <1>5, <1>6 DEF PipeNext
-----------------------------------------------------------------------------
(* At the cursor, leaders stand for what they lead from, and the rows have  *)
(* been computed.                                                           *)
LEMMA LeadersAgree ==
  ASSUME \A prog \in Programs : LabelsDistinct(prog), PInv, OwnBlockOnly, SsaForm, LedInv, TablesInv,
         stage \in {"gvn", "scan"}, cur # 0, NEW x \in Reached, x = cur
  PROVE  LeadersFit(x)
<1>1. DataInv /\ BlocksInv
  BY BlocksSound DEF PInv
<1>2. ASSUME NEW i \in DOMAIN cong, Avail(cong[i].from, x)
      PROVE  Avail(cong[i].to, x) /\ Alike(x, cong[i].from, cong[i].to)
  <2> PICK f : f = cong[i].from
    OBVIOUS
  <2>1. cong[i] \in Congs /\ stage = "gvn" /\ f \in Temp
    <3>1. cong[i] \in Pair /\ cong # <<>>
      BY <1>1, EmptySeq DEF DataInv
    <3> QED BY <3>1 DEF Congs, TablesInv, Pair
  <2>2. PICK j \in DOMAIN walk : \E q \in Nat : LedAt(i, j, q)
    BY <2>1 DEF LedInv
  <2>3. PICK q \in Nat : LedAt(i, j, q)
    BY <2>2
  <2>4. Past(q, x) /\ q \in Def(f)
    BY <2>1, <2>3, BehindIsPast DEF LedAt
  <2>5. Single(f)
    BY <1>1, <1>2, <2>1, <2>4, MergedNotAvail
  <2>6. Valid(f, cong[i].to)
    BY <2>1, <2>5 DEF TablesInv
  <2> QED BY <1>2, <2>6 DEF Valid
<1> QED BY <1>1, <1>2, LeaderAlike DEF LeadersFit

LEMMA RowsExecuted ==
  ASSUME \A prog \in Programs : LabelsDistinct(prog), PInv, OwnBlockOnly, SsaForm, RecordInv, NodesInv, TablesInv,
         stage \in {"gvn", "scan"}, cur # 0, NEW x \in Reached, x = cur, source[x].op # "label",
         NEW r \in Rows
  PROVE  Avail(r.dst, x)
<1>1. PICK i \in DOMAIN table : r = table[i]
  BY DEF Rows
<1>2. Single(r.dst) /\ r \in Row
  BY <1>1 DEF TablesInv, RowValid, PInv, DataInv
<1>3. CASE stage = "gvn"
  <2>1. PICK j \in DOMAIN walk : \E q \in Nat : RecordedAt(i, j, q)
    BY <1>3 DEF RecordInv
  <2>2. PICK q \in Nat : RecordedAt(i, j, q)
    BY <2>1
  <2>3. Path(j) \in Block /\ pc = "done"
    BY <1>3 DEF PInv, ScopeInv, PathInv
  <2>4. NodesOf(Path(j)) \subseteq DOMAIN nodes
    BY <2>3, TreeFacts, NodesOfBlocks DEF PInv
  <2>5. q \in DOMAIN ir /\ ir[q].dst = r.dst /\ ir[q].op \notin SideEffect /\ r.dst \in Temp
    BY <1>1, <1>2, <2>2, <2>4, SizeFacts DEF RecordedAt, PInv, Row
  <2>6. q \in Def(r.dst)
    BY <2>5, DefFacts, PipelineAssumption DEF PInv
  <2>7. Behind(j, q)
    BY <2>2 DEF RecordedAt, Behind
  <2>8. Past(q, x)
    BY <1>3, <2>7, BehindIsPast
  <2> QED BY <1>2, <2>6, <2>8 DEF Single, Avail
<1>4. CASE stage = "scan"
  <2> PICK q : q = Birth[r.dst]
    OBVIOUS
  <2>1. Near(q)
    BY <1>4 DEF TablesInv
  <2>2. q \in DOMAIN source /\ x \in DOMAIN source
    <3>1. q \in Def(r.dst)
      BY <1>2 DEF Single
    <3>2. x \in DOMAIN nodes
      BY BlocksSound, ReachedFacts
    <3> QED BY <3>1, <3>2, SizeFacts DEF Def, PInv
  <2>3. Past(q, x) /\ Def(r.dst) # {}
    BY <1>2, <2>1, <2>2, NearIsPast, BlocksSound DEF PInv, Single
  <2> QED BY <2>3 DEF Avail
<1> QED BY <1>3, <1>4

-----------------------------------------------------------------------------
(* While the passes work, the nodes and their tables agree with the source. *)
SemInv == stage # "analyse" /\ SsaForm /\ NodesInv /\ TablesInv /\ CopiesInv /\ LedInv
AllInv == PInv /\ OwnBlockOnly /\ RecordInv /\ SemInv

LEMMA GraphKept ==
  ASSUME stage # "analyse", [PipeNext]_pipeVars
  PROVE  nodes' = nodes /\ first' = first /\ source' = source
<1>1. CASE Analyse
  BY <1>1 DEF Analyse
<1>2. CASE StartDce \/ DceDelete \/ DceKeep \/ DceAgain \/ StartGvn \/ StartRun \/ Run
  BY <1>2 DEF StartDce, DceDelete, DceKeep, DceAgain, StartGvn, StartRun, Run, fixed, vars
<1>3. CASE GvnNode \/ GvnDescend \/ GvnLeave \/ ScanNode \/ EndScan \/ CcpNode \/ EndCcp
  BY <1>3 DEF GvnNode, GvnDescend, GvnLeave, ScanNode, EndScan, CcpNode, EndCcp, fixed, vars
<1>4. CASE UNCHANGED pipeVars
  BY <1>4 DEF pipeVars, fixed, vars
<1> QED BY <1>1, <1>2, <1>3, <1>4 DEF PipeNext

(* The node under the cursor of value numbering.                            *)
LEMMA PureIsNumbered ==
  ASSUME \A prog \in Programs : LabelsDistinct(prog), AllInv, stage \in {"gvn", "scan"},
         cur \in DOMAIN ir, cur \notin freed, ir[cur].op \in Pure, ir[cur].dst # NoTemp
  PROVE  /\ Single(ir[cur].dst) /\ Birth[ir[cur].dst] = cur
         /\ RowValid(Entry(ir[cur])) /\ Def(ir[cur].dst) \cap freed = {}
         /\ Known(ir[cur]) # {} => \A canon : canon = table[Least(Known(ir[cur]))].dst =>
              /\ canon \in Temp /\ Def(canon) \cap freed = {} /\ Valid(ir[cur].dst, Leader(canon))
              /\ Form(Forward(ir[cur], canon), source[cur])
              /\ cur \in Reached => Stands(Forward(ir[cur], canon), cur)
<1> PICK c : c = cur
  OBVIOUS
<1>1. PInv /\ SsaForm /\ NodesInv /\ TablesInv /\ SourceInv /\ c \in DOMAIN ir /\ c # 0
  BY SizeFacts DEF AllInv, SemInv, PInv
<1>2. source[c].op # "label"
  BY <1>1, DefFacts DEF Pure, Commutative, SideEffect
<1>3. c \in Reached => LeadersFit(c)
  BY <1>1, LeadersAgree DEF AllInv, SemInv
<1>4. c \in Reached => \A r \in Rows : Avail(r.dst, c)
  BY <1>1, <1>2, RowsExecuted DEF AllInv, SemInv
<1>5. /\ Single(ir[cur].dst) /\ Birth[ir[cur].dst] = cur
      /\ RowValid(Entry(ir[cur])) /\ Def(ir[cur].dst) \cap freed = {}
  BY <1>1, <1>3, ComputedNumbered
<1>6. ASSUME Known(ir[cur]) # {}, NEW canon, canon = table[Least(Known(ir[cur]))].dst
      PROVE  /\ canon \in Temp /\ Def(canon) \cap freed = {} /\ Valid(ir[cur].dst, Leader(canon))
             /\ Form(Forward(ir[cur], canon), source[cur])
             /\ cur \in Reached => Stands(Forward(ir[cur], canon), cur)
  BY <1>1, <1>3, <1>4, <1>6, CopiedNumbered
<1> QED BY <1>5, <1>6

(* A copy under the cursor: its temporary stands for what it leads to.      *)
LEMMA CopyIsNumbered ==
  ASSUME \A prog \in Programs : LabelsDistinct(prog), AllInv, stage = "gvn",
         cur \in DOMAIN ir, cur \notin freed, ir[cur].op = "copy", ir[cur].dst \in Temp, ir[cur].src1 \in Temp
  PROVE  Valid(ir[cur].dst, Leader(ir[cur].src1)) \/ ~Single(ir[cur].dst)
<1> PICK c : c = cur
  OBVIOUS
<1> PICK n : n = ir[cur]
  OBVIOUS
<1> PICK l : l = Leader(n.src1)
  OBVIOUS
<1>1. PInv /\ SsaForm /\ NodesInv /\ SourceInv /\ DataInv /\ c \in DOMAIN ir /\ c # 0
  BY SizeFacts DEF AllInv, SemInv, PInv
<1>2. l \in Temp
  BY <1>1, LeaderType DEF Operand
<1>3. ASSUME c \in Reached PROVE Avail(l, c) /\ Alike(c, n.src1, l)
  <2>1. n.src1 \in Uses(n)
    BY PipelineAssumption DEF Uses
  <2>2. Avail(n.src1, c)
    BY <1>1, <1>3, <2>1 DEF NodesInv, Stands
  <2> QED BY <1>1, <1>3, <2>2, LeadersAgree DEF AllInv, SemInv, LeadersFit
<1>4. n.dst # NoTemp
  BY PipelineAssumption
<1> QED BY <1>1, <1>2, <1>3, <1>4, UseNumbered
-----------------------------------------------------------------------------
(* Steps that leave the nodes alone, and steps that rewrite one.            *)
LEMMA NodesKept ==
  ASSUME NodesInv, nodes' = nodes, first' = first, source' = source, ir' = ir, freed' = freed,
         stage' \in {"scan", "ccp"} /\ cur' # 0 => cur' \in Listed
  PROVE  NodesInv'
<1>1. Reached' = Reached /\ (\A n, p : Stands(n, p)' <=> Stands(n, p)) /\ \A t : Def(t)' = Def(t)
  BY FormKept, ValuesKept
<1>2. ASSUME NEW p \in DOMAIN ir, NEW n, n = ir[p]
      PROVE  Form(n, source[p]) /\ (p \in Reached => Stands(n, p))
  BY <1>2 DEF NodesInv
<1>3. ASSUME NEW p \in Listed, NEW u \in Uses(ir[p]) PROVE Def(u) \cap freed = {}
  BY DEF NodesInv
<1> QED BY <1>1, <1>2, <1>3 DEF NodesInv, Listed, Form

LEMMA NodeRewritten ==
  ASSUME NodesInv, nodes' = nodes, first' = first, source' = source, freed' = freed, ir \in Seq(IRNode), cur \in DOMAIN ir,
         NEW f, ir' = [ir EXCEPT ![cur] = f], Form(f, source[cur]), cur \in Reached => Stands(f, cur),
         cur \in Listed => \A u \in Uses(f) : Def(u) \cap freed = {},
         stage' \in {"scan", "ccp"} /\ cur' # 0 => cur' \in Listed
  PROVE  NodesInv'
<1>1. Reached' = Reached /\ (\A n, p : Stands(n, p)' <=> Stands(n, p)) /\ \A t : Def(t)' = Def(t)
  BY FormKept, ValuesKept
<1>2. DOMAIN ir' = DOMAIN ir /\ Listed' = Listed /\ \A p \in DOMAIN ir : ir'[p] = IF p = cur THEN f ELSE ir[p]
  BY DEF Listed
<1>3. ASSUME NEW p \in DOMAIN ir, NEW n, n = ir'[p]
      PROVE  Form(n, source[p]) /\ (p \in Reached => Stands(n, p))
  BY <1>2, <1>3 DEF NodesInv
<1>4. ASSUME NEW p \in Listed, NEW u \in Uses(ir'[p]) PROVE Def(u) \cap freed = {}
  <2>1. p \in DOMAIN ir
    BY DEF Listed
  <2> QED BY <1>2, <1>4, <2>1 DEF NodesInv
<1>5. \A p \in freed : source[p].op \notin SideEffect
  BY DEF NodesInv
<1>6. \A p \in Listed : \A u \in Uses(ir'[p]) : Def(u) \cap freed = {}
  BY <1>4
<1>7. \A p \in Listed : (Uses(ir[p]))' = Uses(ir'[p])
  BY DEF Uses
<1> QED BY <1>1, <1>2, <1>3, <1>5, <1>6, <1>7 DEF NodesInv, Form

(* What is deleted computes something, and nothing that is left uses it.    *)
LEMMA NodesDeleted ==
  ASSUME SourceInv, LinkInv, NodesInv, DceDelete, nodes' = nodes, first' = first, source' = source
  PROVE  NodesInv'
<1> PICK c : c = cur
  OBVIOUS
<1>1. /\ c \in DOMAIN ir /\ ir' = ir /\ freed' = freed \cup {c} /\ stage' = stage
      /\ stage \in {"dce", "dce2"} /\ Dead(c)
  BY SizeFacts DEF DceDelete, LinkInv, Places
<1>2. Reached' = Reached /\ (\A n, p : Stands(n, p)' <=> Stands(n, p)) /\ \A t : Def(t)' = Def(t)
  BY FormKept, ValuesKept
<1>3. Listed' \subseteq Listed
  BY <1>1 DEF Listed
<1>4. source[c].op \notin SideEffect /\ source[c].dst = ir[c].dst
  <2>1. Form(ir[c], source[c])
    BY <1>1 DEF NodesInv
  <2> QED BY <1>1, <2>1 DEF Form, Dead, Pure, Commutative, SideEffect
<1>5. ASSUME NEW p \in Listed', NEW u \in Uses(ir[p]) PROVE Def(u) \cap freed' = {}
  <2>1. p \in Listed
    BY <1>3
  <2>2. Def(u) \cap freed = {}
    BY <2>1 DEF NodesInv
  <2>3. c \notin Def(u)
    BY <1>1, <1>4, <2>1 DEF Dead, Def
  <2> QED BY <1>1, <2>2, <2>3
<1>6. \A p \in freed' : source[p].op \notin SideEffect
  BY <1>1, <1>4 DEF NodesInv
<1>7. ASSUME NEW p \in DOMAIN ir, NEW n, n = ir[p]
      PROVE  Form(n, source[p]) /\ (p \in Reached => Stands(n, p))
  BY <1>7 DEF NodesInv
<1> QED BY <1>1, <1>2, <1>5, <1>6, <1>7 DEF NodesInv, Form, Uses

(* The cursor of a scan stands on listed nodes.                             *)
LEMMA ScanListed ==
  ASSUME SourceInv, LinkInv, NEW p \in {0} \cup Listed
  PROVE  next[p] # 0 => next[p] \in Listed
<1>1. Places = {0} \cup DOMAIN ir /\ p \in Places
  BY SizeFacts DEF Places, Listed
<1> QED BY <1>1 DEF LinkInv, Listed

LEMMA NearStep ==
  ASSUME SourceInv, LinkInv, NodesInv, cur \in Listed, cur' = next[cur], cur' # 0,
         source[cur].op # "label", source' = source,
         NEW q \in DOMAIN source, q = cur \/ Near(q)
  PROVE  Near(q)'
<1> PICK c : c = cur
  OBVIOUS
<1> PICK d : d = next[c]
  OBVIOUS
<1> PICK N : N = Len(ir)
  OBVIOUS
<1>1. /\ N \in Nat /\ DOMAIN ir = 1 .. N /\ Places = 0 .. N /\ DOMAIN source = 1 .. N
      /\ c \in 1 .. N /\ d \in 0 .. N /\ d # 0
  BY SizeFacts DEF LinkInv, Places, Listed
<1>2. c < d
  BY <1>1 DEF LinkInv
<1>3. ASSUME NEW y \in 1 .. N, c < y, y < d PROVE source[y].op # "label"
  <2>1. y \notin Listed
    <3>1. y \in Listed => d <= y
      BY <1>1, <1>3 DEF LinkInv
    <3> QED BY <1>1, <1>3, <3>1
  <2>2. y \in freed
    BY <1>1, <2>1 DEF Listed
  <2> QED BY <2>2 DEF NodesInv, SideEffect
<1>4. q <= c /\ \A y \in 1 .. N : q < y /\ y < c => source[y].op # "label"
  BY <1>1 DEF Near
<1>5. q < d
  BY <1>1, <1>2, <1>4
<1>6. ASSUME NEW y \in 1 .. N, q < y, y < d PROVE source[y].op # "label"
  <2>1. y < c \/ y = c \/ c < y
    BY <1>1
  <2> QED BY <1>3, <1>4, <1>6, <2>1
<1> QED BY <1>1, <1>5, <1>6 DEF Near

LEMMA GvnNodes ==
  ASSUME \A prog \in Programs : LabelsDistinct(prog), AllInv, GvnNode, nodes' = nodes, first' = first, source' = source
  PROVE  NodesInv'
<1>1. SourceInv /\ LinkInv /\ DataInv /\ NodesInv /\ PInv /\ ir \in Seq(IRNode)
  BY DEF AllInv, SemInv, PInv, SourceInv
<1>2. freed' = freed /\ stage = "gvn" /\ stage' = "gvn"
  BY DEF GvnNode
<1>3. CASE ir' = ir
  BY <1>1, <1>2, <1>3, NodesKept
<1>4. CASE ir' # ir
  <2>1. /\ cur \in DOMAIN ir /\ cur \notin freed /\ ir[cur].op \in Pure /\ ir[cur].dst \in Temp
        /\ Known(ir[cur]) # {}
        /\ \E canon \in Temp : /\ canon = table[Least(Known(ir[cur]))].dst
                               /\ ir' = [ir EXCEPT ![cur] = Forward(ir[cur], canon)]
    BY <1>1, <1>4, NumberCases
  <2>2. PICK canon \in Temp : /\ canon = table[Least(Known(ir[cur]))].dst
                              /\ ir' = [ir EXCEPT ![cur] = Forward(ir[cur], canon)]
    BY <2>1
  <2> PICK f : f = Forward(ir[cur], canon)
    OBVIOUS
  <2>3. Def(canon) \cap freed = {} /\ Form(f, source[cur]) /\ (cur \in Reached => Stands(f, cur))
    BY <1>2, <2>1, <2>2, PureIsNumbered, PipelineAssumption
  <2>4. \A u \in Uses(f) : u = canon
    <3>1. ir[cur] \in IRNode
      BY <1>1, <2>1, SizeFacts
    <3>2. f.op = "copy" /\ f.src1 = canon /\ f.src2 = NoTemp
      BY <3>1 DEF Forward, IRNode
    <3> QED BY <3>2 DEF Uses
  <2> QED BY <1>1, <1>2, <2>1, <2>2, <2>3, <2>4, NodeRewritten
<1> QED BY <1>3, <1>4

(* The same of the scan.                                                    *)
LEMMA ScanCases ==
  ASSUME SourceInv, LinkInv, DataInv, NodesInv, ScanNode
  PROVE  /\ cur \in Listed /\ cur \in DOMAIN ir /\ cong' = cong /\ cur' = next[cur]
         /\ \/ table' = <<>> /\ ir' = ir
            \/ table' = table /\ ir' = ir /\ ir[cur].op # "label"
            \/ /\ ir[cur].op \in Pure /\ ir[cur].dst \in Temp
               /\ \/ /\ Known(ir[cur]) # {} /\ table' = table
                     /\ \E canon \in Temp : /\ canon = table[Least(Known(ir[cur]))].dst
                                            /\ ir' = [ir EXCEPT ![cur] = Forward(ir[cur], canon)]
                  \/ Known(ir[cur]) = {} /\ table' = Inserted(ir[cur]) /\ ir' = ir
<1> PICK n : n = ir[cur]
  OBVIOUS
<1>1. cur \in Listed /\ cur \in DOMAIN ir /\ n \in IRNode
  BY SizeFacts DEF NodesInv, ScanNode, Listed
<1>2. n.dst # NoTemp => n.dst \in Temp
  BY <1>1 DEF IRNode
<1>3. Known(n) # {} => table[Least(Known(n))].dst \in Temp
  BY CanonType
<1> QED BY <1>1, <1>2, <1>3 DEF ScanNode

LEMMA ScanNodes ==
  ASSUME \A prog \in Programs : LabelsDistinct(prog), AllInv, ScanNode, nodes' = nodes, first' = first, source' = source
  PROVE  NodesInv'
<1>1. SourceInv /\ LinkInv /\ DataInv /\ NodesInv /\ PInv /\ ir \in Seq(IRNode)
  BY DEF AllInv, SemInv, PInv, SourceInv
<1>2. freed' = freed /\ stage = "scan" /\ cur' = next[cur] /\ cur \in Listed /\ cur \in DOMAIN ir
      /\ cur \notin freed
  BY <1>1, ScanCases DEF ScanNode, Listed
<1>3. cur' # 0 => cur' \in Listed
  BY <1>1, <1>2, ScanListed
<1>4. CASE ir' = ir
  BY <1>1, <1>2, <1>3, <1>4, NodesKept
<1>5. CASE ir' # ir
  <2>1. /\ ir[cur].op \in Pure /\ ir[cur].dst \in Temp /\ Known(ir[cur]) # {}
        /\ \E canon \in Temp : /\ canon = table[Least(Known(ir[cur]))].dst
                               /\ ir' = [ir EXCEPT ![cur] = Forward(ir[cur], canon)]
    BY <1>1, <1>5, ScanCases
  <2>2. PICK canon \in Temp : /\ canon = table[Least(Known(ir[cur]))].dst
                              /\ ir' = [ir EXCEPT ![cur] = Forward(ir[cur], canon)]
    BY <2>1
  <2> PICK f : f = Forward(ir[cur], canon)
    OBVIOUS
  <2>3. Def(canon) \cap freed = {} /\ Form(f, source[cur]) /\ (cur \in Reached => Stands(f, cur))
    BY <1>2, <2>1, <2>2, PureIsNumbered, PipelineAssumption
  <2>4. \A u \in Uses(f) : u = canon
    <3>1. ir[cur] \in IRNode
      BY <1>1, <1>2, SizeFacts
    <3>2. f.op = "copy" /\ f.src1 = canon /\ f.src2 = NoTemp
      BY <3>1 DEF Forward, IRNode
    <3> QED BY <3>2 DEF Uses
  <2> QED BY <1>1, <1>2, <1>3, <2>2, <2>3, <2>4, NodeRewritten
<1> QED BY <1>4, <1>5
-----------------------------------------------------------------------------
(* The tables.                                                              *)
LEMMA TablesKept ==
  ASSUME TablesInv, nodes' = nodes, first' = first, source' = source, Rows' \subseteq Rows, Congs' \subseteq Congs,
         stage' \in {"gvn", "scan"} => freed' = freed /\ \A r \in Rows' : Def(r.dst) \cap freed = {},
         stage' = "scan" => cong' = <<>> /\ (cur' # 0 => \A r \in Rows' : \A q : q = Birth[r.dst] => Near(q)')
  PROVE  TablesInv'
<1>1. /\ \A t : Def(t)' = Def(t) /\ (Single(t)' <=> Single(t))
      /\ \A r : RowValid(r)' <=> RowValid(r)
      /\ \A a, b : Valid(a, b)' <=> Valid(a, b)
  BY FormKept, ValuesKept
<1>2. \A r \in Rows' : RowValid(r)'
  BY <1>1 DEF TablesInv
<1>3. ASSUME NEW c \in Congs' PROVE (Valid(c.from, c.to) \/ ~Single(c.from))'
  <2> PICK a : a = c.from
    OBVIOUS
  <2> PICK b : b = c.to
    OBVIOUS
  <2>1. Valid(a, b) \/ ~Single(a)
    BY DEF TablesInv
  <2>2. (Valid(a, b) \/ ~Single(a))'
    BY <1>1, <2>1
  <2> QED BY <2>2
<1>4. stage' \in {"gvn", "scan"} => \A r \in Rows' : Def(r.dst)' \cap freed' = {}
  BY <1>1
<1> QED BY <1>2, <1>3, <1>4 DEF TablesInv

LEMMA RowAppended ==
  ASSUME DataInv, NEW r, table' = Append(table, r)
  PROVE  Rows' = Rows \cup {r}
<1>1. table \in Seq(Row) /\ Len(table) \in Nat /\ DOMAIN table = 1 .. Len(table)
  BY DEF DataInv
<1>2. /\ DOMAIN table' = 1 .. Len(table) + 1 /\ table'[Len(table) + 1] = r
      /\ \A i \in 1 .. Len(table) : table'[i] = table[i]
  BY <1>1
<1>3. DOMAIN table' = DOMAIN table \cup {Len(table) + 1}
  BY <1>1, <1>2
<1> QED BY <1>1, <1>2, <1>3 DEF Rows

LEMMA RowInserted ==
  ASSUME DataInv, NEW n, table' = Inserted(n)
  PROVE  Rows' \subseteq Rows \cup {Entry(n)}
<1>1. CASE table' = table
  BY <1>1 DEF Rows
<1>2. CASE table' = Append(table, Entry(n))
  BY <1>2, RowAppended
<1> QED BY <1>1, <1>2 DEF Inserted

LEMMA GvnTables ==
  ASSUME \A prog \in Programs : LabelsDistinct(prog), AllInv, GvnNode, nodes' = nodes, first' = first, source' = source
  PROVE  TablesInv'
<1> PICK n : n = ir[cur]
  OBVIOUS
<1>1. SourceInv /\ LinkInv /\ DataInv /\ NodesInv /\ PInv /\ TablesInv
  BY DEF AllInv, SemInv, PInv
<1>2. freed' = freed /\ stage = "gvn" /\ stage' = "gvn"
  BY DEF GvnNode
<1>3. /\ \A t : Def(t)' = Def(t) /\ (Single(t)' <=> Single(t))
      /\ \A r : RowValid(r)' <=> RowValid(r)
      /\ \A a, b : Valid(a, b)' <=> Valid(a, b)
  BY FormKept, ValuesKept
<1>4. ASSUME NEW r \in Rows' PROVE RowValid(r) /\ Def(r.dst) \cap freed = {}
  <2>1. CASE r \in Rows
    BY <1>1, <1>2, <2>1 DEF TablesInv
  <2>2. CASE r \notin Rows
    <3>1. table' # table
      BY <1>4, <2>2 DEF Rows
    <3>2. /\ cur \in DOMAIN ir /\ cur \notin freed /\ n.op \in Pure /\ n.dst \in Temp
          /\ table' = Inserted(n)
      BY <1>1, <3>1, NumberCases
    <3>3. r = Entry(n)
      BY <1>1, <1>4, <2>2, <3>2, RowInserted
    <3>4. r.dst = n.dst
      BY <3>3 DEF Entry
    <3> QED BY <1>2, <3>2, <3>3, <3>4, PureIsNumbered, PipelineAssumption
  <2> QED BY <2>1, <2>2
<1>5. ASSUME NEW c \in Congs' PROVE Valid(c.from, c.to) \/ ~Single(c.from)
  <2>1. CASE c \in Congs
    BY <1>1, <2>1 DEF TablesInv
  <2>2. CASE c \notin Congs
    <3>1. cong' # cong
      BY <1>5, <2>2 DEF Congs
    <3>2. /\ cur \in DOMAIN ir /\ cur \notin freed /\ n.dst \in Temp
          /\ \/ n.op = "copy" /\ n.src1 \in Temp /\ cong' = Congruent(n.dst, n.src1)
             \/ /\ n.op \in Pure /\ Known(n) # {}
                /\ \E canon \in Temp : /\ canon = table[Least(Known(n))].dst
                                       /\ cong' = Congruent(n.dst, canon)
      BY <1>1, <3>1, NumberCases
    <3>3. ASSUME NEW b \in Temp, cong' = Congruent(n.dst, b) PROVE c.from = n.dst /\ c.to = Leader(b)
      <4>1. PICK i \in DOMAIN cong' : c = cong'[i]
        BY <1>5 DEF Congs
      <4>2. \/ i \in DOMAIN cong /\ cong'[i] = cong[i]
            \/ cong'[i].from = n.dst /\ cong'[i].to = Leader(b)
        BY <1>1, <3>2, <3>3, CongruentAdds
      <4> QED BY <2>2, <4>1, <4>2 DEF Congs
    <3>4. CASE n.op = "copy" /\ n.src1 \in Temp /\ cong' = Congruent(n.dst, n.src1)
      BY <1>2, <3>2, <3>3, <3>4, CopyIsNumbered
    <3>5. ASSUME n.op \in Pure, Known(n) # {}, NEW canon \in Temp, canon = table[Least(Known(n))].dst,
                 cong' = Congruent(n.dst, canon)
          PROVE  Valid(c.from, c.to)
      <4>1. Valid(n.dst, Leader(canon))
        BY <1>2, <3>2, <3>5, PureIsNumbered, PipelineAssumption
      <4> QED BY <3>3, <3>5, <4>1
    <3> QED BY <3>2, <3>4, <3>5
  <2> QED BY <2>1, <2>2
<1>6. \A r \in Rows' : RowValid(r)'
  BY <1>3, <1>4
<1>7. ASSUME NEW c \in Congs' PROVE (Valid(c.from, c.to) \/ ~Single(c.from))'
  <2> PICK a : a = c.from
    OBVIOUS
  <2> PICK b : b = c.to
    OBVIOUS
  <2>1. Valid(a, b) \/ ~Single(a)
    BY <1>5
  <2>2. (Valid(a, b) \/ ~Single(a))'
    BY <1>3, <2>1
  <2> QED BY <2>2
<1>8. \A r \in Rows' : Def(r.dst)' \cap freed' = {}
  BY <1>2, <1>3, <1>4
<1> QED BY <1>2, <1>6, <1>7, <1>8 DEF TablesInv

LEMMA ScanTables ==
  ASSUME \A prog \in Programs : LabelsDistinct(prog), AllInv, ScanNode, nodes' = nodes, first' = first, source' = source
  PROVE  TablesInv'
<1> PICK n : n = ir[cur]
  OBVIOUS
<1> PICK c : c = cur
  OBVIOUS
<1>1. SourceInv /\ LinkInv /\ DataInv /\ NodesInv /\ PInv /\ TablesInv
  BY DEF AllInv, SemInv, PInv
<1>2. freed' = freed /\ stage = "scan" /\ stage' = "scan" /\ cur' = next[c] /\ c \in Listed /\ c \in DOMAIN ir
      /\ c \notin freed /\ cong' = cong /\ c # 0
  BY <1>1, ScanCases DEF ScanNode, Listed
<1>3. /\ \A t : Def(t)' = Def(t) /\ (Single(t)' <=> Single(t))
      /\ \A r : RowValid(r)' <=> RowValid(r)
      /\ \A a, b : Valid(a, b)' <=> Valid(a, b)
  BY FormKept, ValuesKept
<1>4. cong = <<>> /\ Congs' = {} /\ cong' = <<>>
  <2>1. cong = <<>>
    BY <1>1, <1>2 DEF TablesInv
  <2> QED BY <1>2, <2>1 DEF Congs
<1>5. ASSUME NEW r \in Rows'
      PROVE  /\ RowValid(r) /\ Def(r.dst) \cap freed = {}
             /\ cur' # 0 => \A q : q = Birth[r.dst] => Near(q)'
  <2>1. \/ table' = table /\ ir[c].op # "label"
        \/ n.op \in Pure /\ n.dst \in Temp /\ table' = Inserted(n)
    <3>1. table' # <<>>
      BY <1>5 DEF Rows
    <3> QED BY <1>1, <3>1, ScanCases DEF Pure, Commutative
  <2>2. source[c].op # "label"
    <3>1. n.op # "label"
      BY <2>1 DEF Pure, Commutative
    <3>2. Form(n, source[c])
      BY <1>1, <1>2 DEF NodesInv
    <3> QED BY <3>1, <3>2 DEF Form, Pure, Commutative
  <2>3. /\ RowValid(r) /\ Def(r.dst) \cap freed = {} /\ Single(r.dst)
        /\ Birth[r.dst] = c \/ \A q : q = Birth[r.dst] => Near(q)
    <3>1. CASE r \in Rows
      BY <1>1, <1>2, <3>1 DEF TablesInv, RowValid
    <3>2. CASE r \notin Rows
      <4>1. n.op \in Pure /\ n.dst \in Temp /\ table' = Inserted(n)
        BY <1>5, <2>1, <3>2 DEF Rows
      <4>2. r = Entry(n)
        BY <1>1, <1>5, <3>2, <4>1, RowInserted
      <4>3. r.dst = n.dst
        BY <4>2 DEF Entry
      <4> QED BY <1>2, <4>1, <4>2, <4>3, PureIsNumbered, PipelineAssumption
    <3> QED BY <3>1, <3>2
  <2>4. ASSUME NEW q, q = Birth[r.dst], cur' # 0 PROVE Near(q)'
    <3>1. q \in DOMAIN source
      BY <2>3, <2>4 DEF Single, Def
    <3> QED BY <1>1, <1>2, <2>2, <2>3, <2>4, <3>1, NearStep
  <2> QED BY <2>3, <2>4
<1>6. \A r \in Rows' : RowValid(r)'
  BY <1>3, <1>5
<1>7. \A r \in Rows' : Def(r.dst)' \cap freed' = {}
  BY <1>2, <1>3, <1>5
<1>8. cur' # 0 => \A r \in Rows' : Near(Birth[r.dst])'
  BY <1>5
<1> QED BY <1>2, <1>4, <1>6, <1>7, <1>8 DEF TablesInv

-----------------------------------------------------------------------------
(* Copy and constant propagation: what the maps hold at the cursor.         *)
LEMMA MapsAgree ==
  ASSUME PInv, SsaForm, NodesInv, CopiesInv, stage = "ccp", cur # 0, NEW x \in Reached, x = cur,
         source[x].op # "label"
  PROVE  /\ \A a \in aliases : Avail(a.from, x) => Avail(a.to, x) /\ Alike(x, a.from, a.to)
         /\ \A t \in Temp, i \in Imm : consts[t] = <<i>> /\ Avail(t, x) =>
              \A env : Models(env, x) => Value(env, t) = <<"imm", i>>
<1>1. SourceInv /\ BlocksInv /\ x \in DOMAIN source
  <2>1. SourceInv /\ BlocksInv /\ x \in DOMAIN nodes
    BY BlocksSound, ReachedFacts DEF PInv
  <2> QED BY <2>1, SizeFacts
<1>2. ASSUME NEW t \in Temp, ~Single(t), NEW q \in Def(t), Near(q) PROVE ~Avail(t, x)
  <2>1. q \in DOMAIN source
    BY DEF Def
  <2>2. Past(q, x)
    BY <1>1, <1>2, <2>1, NearIsPast
  <2> QED BY <1>1, <1>2, <2>2, MergedNotAvail
<1>3. ASSUME NEW a \in aliases, Avail(a.from, x) PROVE Avail(a.to, x) /\ Alike(x, a.from, a.to)
  <2>1. a.from \in Temp
    BY DEF CopiesInv
  <2>2. Valid(a.from, a.to)
    BY <1>2, <1>3, <2>1 DEF CopiesInv
  <2> QED BY <1>3, <2>2 DEF Valid
<1>4. ASSUME NEW t \in Temp, NEW i \in Imm, consts[t] = <<i>>, Avail(t, x), NEW env, Models(env, x)
      PROVE  Value(env, t) = <<"imm", i>>
  <2>1. ConstValid(t, i)
    BY <1>2, <1>4 DEF CopiesInv
  <2> QED BY <1>4, <2>1 DEF ConstValid
<1> QED BY <1>3, <1>4

LEMMA MapsKept ==
  ASSUME SourceInv, LinkInv, NodesInv, CopiesInv, stage = "ccp", stage' = stage, cur # 0, cur \in Listed,
         source[cur].op # "label", cur' = next[cur], nodes' = nodes, first' = first, source' = source, freed' = freed,
         \A a \in aliases' : \/ a \in aliases
                             \/ /\ a.from \in Temp /\ a.to \in Temp /\ Def(a.to) \cap freed = {}
                                /\ cur \in Def(a.from) /\ (Valid(a.from, a.to) \/ ~Single(a.from)),
         \A t \in Temp, i \in Imm : consts'[t] = <<i>> =>
           \/ consts[t] = <<i>>
           \/ cur \in Def(t) /\ (ConstValid(t, i) \/ ~Single(t))
  PROVE  CopiesInv'
<1>1. /\ \A t : Def(t)' = Def(t) /\ (Single(t)' <=> Single(t))
      /\ \A a, b : Valid(a, b)' <=> Valid(a, b)
      /\ \A t, i : ConstValid(t, i)' <=> ConstValid(t, i)
  BY FormKept, ValuesKept
<1>2. ASSUME cur' # 0, NEW t, NEW q \in Def(t), q = cur \/ Near(q) PROVE \E r \in Def(t) : Near(r)'
  <2>1. q \in DOMAIN source
    BY DEF Def
  <2>2. Near(q)'
    BY <1>2, <2>1, NearStep
  <2> QED BY <2>2
<1>3. ASSUME NEW a \in aliases'
      PROVE  /\ a.from \in Temp /\ a.to \in Temp /\ Def(a.to) \cap freed = {}
             /\ cur' # 0 => Valid(a.from, a.to) \/ (~Single(a.from) /\ \E q \in Def(a.from) : Near(q)')
  <2> PICK f : f = a.from
    OBVIOUS
  <2>1. CASE a \in aliases
    <3>1. /\ f \in Temp /\ a.to \in Temp /\ Def(a.to) \cap freed = {}
          /\ Valid(f, a.to) \/ (~Single(f) /\ \E q \in Def(f) : Near(q))
      BY <2>1 DEF CopiesInv
    <3> QED BY <1>2, <3>1
  <2>2. CASE a \notin aliases
    <3>1. /\ f \in Temp /\ a.to \in Temp /\ Def(a.to) \cap freed = {}
          /\ cur \in Def(f) /\ (Valid(f, a.to) \/ ~Single(f))
      BY <2>2
    <3> QED BY <1>2, <3>1
  <2> QED BY <2>1, <2>2
<1>4. ASSUME NEW t \in Temp, NEW i \in Imm, consts'[t] = <<i>>, cur' # 0
      PROVE  ConstValid(t, i) \/ (~Single(t) /\ \E q \in Def(t) : Near(q)')
  <2>1. CASE consts[t] = <<i>>
    <3>1. ConstValid(t, i) \/ (~Single(t) /\ \E q \in Def(t) : Near(q))
      BY <2>1 DEF CopiesInv
    <3> QED BY <1>2, <1>4, <3>1
  <2>2. CASE consts[t] # <<i>>
    BY <1>2, <1>4, <2>2
  <2> QED BY <2>1, <2>2
<1>5. ASSUME NEW a \in aliases'
      PROVE  /\ a.from \in Temp /\ a.to \in Temp /\ (Def(a.to) \cap freed = {})'
             /\ cur' # 0 => (\/ Valid(a.from, a.to)
                             \/ (~Single(a.from) /\ \E q \in Def(a.from) : Near(q)))'
  <2> PICK f : f = a.from
    OBVIOUS
  <2> PICK g : g = a.to
    OBVIOUS
  <2>1. Def(g)' \cap freed' = {} /\ f \in Temp /\ g \in Temp
    BY <1>1, <1>3
  <2>2. cur' # 0 => Valid(f, g)' \/ (~Single(f)' /\ \E q \in Def(f)' : Near(q)')
    BY <1>1, <1>3
  <2> QED BY <2>1, <2>2
<1>6. ASSUME NEW t \in Temp, NEW i \in Imm, consts'[t] = <<i>>, cur' # 0
      PROVE  (ConstValid(t, i) \/ (~Single(t) /\ \E q \in Def(t) : Near(q)))'
  BY <1>1, <1>4, <1>6
<1>7. stage' = "ccp"
  OBVIOUS
<1> QED BY <1>5, <1>6, <1>7 DEF CopiesInv

(* The four things propagation does with a node.                            *)
LEMMA CcpListed ==
  ASSUME SourceInv, LinkInv, NodesInv, CcpNode
  PROVE  /\ stage = "ccp" /\ stage' = stage /\ cur # 0 /\ cur \in Listed /\ cur \in DOMAIN ir /\ cur' = next[cur]
         /\ cur' # 0 => cur' \in Listed
         /\ freed' = freed /\ ir[cur] \in IRNode /\ Form(ir[cur], source[cur])
         /\ cur \in Reached => Stands(ir[cur], cur)
         /\ ir[cur].op # "label" => source[cur].op # "label"
         /\ \A u \in Uses(ir[cur]) : Def(u) \cap freed = {}
<1>1. stage = "ccp" /\ stage' = stage /\ cur # 0 /\ cur' = next[cur] /\ freed' = freed
  BY DEF CcpNode
<1>2. cur \in Listed /\ cur \in DOMAIN ir
  BY <1>1 DEF NodesInv, Listed
<1>3. cur' # 0 => cur' \in Listed
  BY <1>1, <1>2, ScanListed
<1>4. ir[cur] \in IRNode
  BY <1>2, SizeFacts
<1>5. Form(ir[cur], source[cur]) /\ (cur \in Reached => Stands(ir[cur], cur))
  BY <1>2 DEF NodesInv
<1>6. ir[cur].op # "label" => source[cur].op # "label"
  BY <1>5 DEF Form, Pure, Commutative
<1>7. \A u \in Uses(ir[cur]) : Def(u) \cap freed = {}
  BY <1>2 DEF NodesInv
<1> QED BY <1>1, <1>2, <1>3, <1>4, <1>5, <1>6, <1>7

LEMMA LabelForgets ==
  ASSUME PInv, NodesInv, CopiesInv, CcpNode, CcpLabel, nodes' = nodes, first' = first, source' = source
  PROVE  NodesInv' /\ CopiesInv'
<1>1. SourceInv /\ LinkInv
  BY DEF PInv
<1>2. stage' = "ccp" /\ freed' = freed /\ (cur' # 0 => cur' \in Listed)
  BY <1>1, CcpListed
<1>3. ir' = ir /\ aliases' = {} /\ consts' = NoConst
  BY DEF CcpLabel
<1>4. NodesInv'
  BY <1>2, <1>3, NodesKept
<1>5. \A t \in Temp, i \in Imm : consts'[t] # <<i>>
  BY <1>3 DEF NoConst
<1> QED BY <1>2, <1>3, <1>4, <1>5 DEF CopiesInv

LEMMA ConstRecorded ==
  ASSUME PInv, SsaForm, NodesInv, CopiesInv, CcpNode, ir[cur].op = "const", ir[cur].dst # NoTemp,
         CcpConst(ir[cur]),
         nodes' = nodes, first' = first, source' = source
  PROVE  NodesInv' /\ CopiesInv'
<1> PICK c : c = cur
  OBVIOUS
<1> PICK n : n = ir[c]
  OBVIOUS
<1>1. SourceInv /\ LinkInv /\ DataInv /\ BlocksInv
  BY BlocksSound DEF PInv
<1>2. /\ stage = "ccp" /\ stage' = "ccp" /\ freed' = freed /\ (cur' # 0 => cur' \in Listed) /\ n \in IRNode
      /\ c \in DOMAIN ir /\ source[c].op # "label" /\ c \in Listed /\ c # 0 /\ cur' = next[c]
      /\ c \in Reached => Stands(n, c)
      /\ Form(n, source[c])
  BY <1>1, CcpListed
<1>3. /\ ir' = ir /\ aliases' = aliases
      /\ consts' = consts \/ consts' = [consts EXCEPT ![n.dst] = <<n.imm>>]
  BY DEF CcpConst, ConstantOf
<1>4. NodesInv'
  BY <1>2, <1>3, NodesKept
<1>5. ASSUME NEW t \in Temp, NEW i \in Imm, consts'[t] = <<i>>, consts[t] # <<i>>
      PROVE  c \in Def(t) /\ (ConstValid(t, i) \/ ~Single(t))
  <2>1. t = n.dst /\ i = n.imm
    BY <1>1, <1>3, <1>5 DEF DataInv
  <2>2. c \in Def(t)
    BY <1>1, <1>2, <2>1, DefFacts, PipelineAssumption DEF SideEffect
  <2>3. ASSUME Single(t) PROVE ConstValid(t, i)
    <3>1. Birth[t] = c
      BY <2>2, <2>3 DEF Single
    <3>2. source[c].op \notin Found
      BY <1>2 DEF Form, Pure, Commutative, Found
    <3>3. ASSUME c \in Reached, NEW env, Models(env, c) PROVE Result(source[c], env, <<>>) = <<"imm", i>>
      <4>1. Result(source[c], env, <<>>) = Result(n, env, <<>>)
        BY <1>2, <3>3 DEF Stands, SideEffect
      <4>2. Result(n, env, <<>>) = <<"imm", n.imm>>
        BY DEF Result
      <4> QED BY <2>1, <4>1, <4>2
    <3> QED BY <1>1, <2>3, <3>1, <3>2, <3>3, ConstIsValid
  <2> QED BY <2>2, <2>3
<1>6. CopiesInv'
  BY <1>1, <1>2, <1>3, <1>5, MapsKept
<1> QED BY <1>4, <1>6

LEMMA ConstantCopied ==
  ASSUME PInv, SsaForm, NodesInv, CopiesInv, CcpNode, IsCopy(ir[cur]), Constant(ir[cur].src1),
         CcpConstCopy(ir[cur]), nodes' = nodes, first' = first, source' = source
  PROVE  NodesInv' /\ CopiesInv'
<1> PICK c : c = cur
  OBVIOUS
<1> PICK n : n = ir[c]
  OBVIOUS
<1>1. SourceInv /\ LinkInv /\ DataInv /\ BlocksInv /\ ir \in Seq(IRNode)
  BY BlocksSound DEF PInv, SourceInv
<1>2. /\ stage = "ccp" /\ stage' = "ccp" /\ freed' = freed /\ (cur' # 0 => cur' \in Listed) /\ n \in IRNode
      /\ c \in DOMAIN ir /\ source[c].op # "label" /\ c \in Listed /\ c # 0 /\ cur' = next[c]
      /\ c \in Reached => Stands(n, c)
      /\ Form(n, source[c])
  BY <1>1, CcpListed DEF IsCopy
<1>3. n.op = "copy" /\ n.src1 \in Temp /\ n.dst \in Temp
  BY <1>2 DEF Constant, IRNode, IsCopy
<1>4. PICK i \in Imm : consts[n.src1] = <<i>>
  BY <1>1, <1>3 DEF Constant, DataInv
<1> DEFINE f == [n EXCEPT !.op = "const", !.imm = i, !.src1 = NoTemp, !.src2 = NoTemp]
<1>5. /\ ir' = [ir EXCEPT ![c] = f] /\ aliases' = aliases
      /\ consts' = consts \/ consts' = [consts EXCEPT ![n.dst] = <<i>>]
  <2>1. consts[n.src1][1] = i
    BY <1>4
  <2> QED BY <1>4, <2>1 DEF CcpConstCopy, ConstantOf
<1>12. f.op = "const" /\ f.src1 = NoTemp /\ f.src2 = NoTemp /\ f.dst = n.dst /\ f.imm = i
  BY <1>2 DEF IRNode
<1> HIDE DEF f
<1>6. ASSUME c \in Reached, NEW env, Models(env, c) PROVE Value(env, n.src1) = <<"imm", i>>
  <2>1. n.src1 \in Uses(n)
    BY <1>3, PipelineAssumption DEF Uses
  <2>2. Avail(n.src1, c)
    BY <1>2, <1>6, <2>1 DEF Stands
  <2> QED BY <1>2, <1>3, <1>4, <1>6, <2>2, MapsAgree
<1>7. Form(f, source[c]) /\ (c \in Reached => Stands(f, c))
  <2>1. n \in IRNode /\ Form(n, source[c]) /\ n.op = "copy"
    BY <1>2, <1>3
  <2>2. Form(f, source[c])
    BY <1>12, <2>1, ConstantStands
  <2>4. Stands(n, c) /\ (\A env : Models(env, c) => Value(env, n.src1) = <<"imm", i>>) => Stands(f, c)
    BY <1>12, <2>1, ConstantStands
  <2> QED BY <1>2, <1>6, <2>2, <2>4
<1>8. Uses(f) = {}
  BY <1>12 DEF Uses
<1>9. NodesInv'
  BY <1>1, <1>2, <1>5, <1>7, <1>8, NodeRewritten
<1>10. ASSUME NEW t \in Temp, NEW j \in Imm, consts'[t] = <<j>>, consts[t] # <<j>>
       PROVE  c \in Def(t) /\ (ConstValid(t, j) \/ ~Single(t))
  <2>1. t = n.dst /\ j = i
    BY <1>1, <1>5, <1>10 DEF DataInv
  <2>2. c \in Def(t)
    BY <1>1, <1>2, <1>3, <2>1, DefFacts, PipelineAssumption DEF SideEffect
  <2>3. ASSUME Single(t) PROVE ConstValid(t, j)
    <3>1. Birth[t] = c
      BY <2>2, <2>3 DEF Single
    <3>2. source[c].op \notin Found
      BY <1>2, <1>3 DEF Form, Pure, Commutative, Found
    <3>3. ASSUME c \in Reached, NEW env, Models(env, c) PROVE Result(source[c], env, <<>>) = <<"imm", j>>
      <4>1. Result(source[c], env, <<>>) = Result(n, env, <<>>)
        BY <1>2, <1>3, <3>3 DEF Stands, SideEffect
      <4>2. Result(n, env, <<>>) = Value(env, n.src1)
        BY <1>3 DEF Result
      <4> QED BY <1>6, <2>1, <3>3, <4>1, <4>2
    <3> QED BY <1>1, <2>3, <3>1, <3>2, <3>3, ConstIsValid
  <2> QED BY <2>2, <2>3
<1>11. CopiesInv'
  BY <1>1, <1>2, <1>5, <1>10, MapsKept
<1> QED BY <1>9, <1>11

LEMMA UseReplaced ==
  ASSUME PInv, SsaForm, NodesInv, CopiesInv, CcpNode, ir[cur].op # "label",
         CcpUse(ir[cur]), nodes' = nodes, first' = first, source' = source
  PROVE  NodesInv' /\ CopiesInv'
<1> PICK c : c = cur
  OBVIOUS
<1> PICK n : n = ir[c]
  OBVIOUS
<1> PICK s : s = Resolve(n.src1)
  OBVIOUS
<1> PICK s2 : s2 = IF IsCopy(n) THEN n.src2 ELSE Resolve(n.src2)
  OBVIOUS
<1> PICK d : d = IF n.op = "store" THEN Resolve(n.dst) ELSE n.dst
  OBVIOUS
<1> DEFINE f == [n EXCEPT !.src1 = s, !.src2 = s2, !.dst = d]
<1>1. SourceInv /\ LinkInv /\ DataInv /\ BlocksInv /\ ir \in Seq(IRNode)
  BY BlocksSound DEF PInv, SourceInv
<1>2. /\ stage = "ccp" /\ stage' = "ccp" /\ freed' = freed /\ (cur' # 0 => cur' \in Listed) /\ n \in IRNode
      /\ c \in DOMAIN ir /\ source[c].op # "label" /\ c \in Listed /\ c # 0 /\ cur' = next[c]
      /\ c \in Reached => Stands(n, c)
      /\ Form(n, source[c])
      /\ \A u \in Uses(n) : Def(u) \cap freed = {}
  BY <1>1, CcpListed
<1>3. /\ ir' = [ir EXCEPT ![c] = f] /\ consts' = consts
      /\ aliases' = IF IsCopy(n) THEN AliasOf(n.dst, s) ELSE aliases
  BY <1>1, <1>2 DEF CcpUse
<1>16. f.op = n.op /\ f.src1 = s /\ f.src2 = s2 /\ f.dst = d /\ f.imm = n.imm
  BY <1>2 DEF IRNode
<1> HIDE DEF f
<1>4. n.src1 \in Operand /\ n.src2 \in Operand /\ n.dst \in Operand
  BY <1>2 DEF IRNode, Operand
<1>5. \A a \in aliases : a.from \in Temp /\ a.to \in Temp /\ Def(a.to) \cap freed = {}
  BY <1>2 DEF CopiesInv
<1>6. Resolve(NoTemp) = NoTemp
  BY <1>1, <1>5, ResolveNothing
<1>7. ASSUME NEW t \in Temp, t \in Uses(n)
      PROVE  /\ Resolve(t) \in Temp /\ Def(Resolve(t)) \cap freed = {}
             /\ c \in Reached => Avail(Resolve(t), c) /\ Alike(c, t, Resolve(t))
  <2>1. Resolve(t) \in Temp /\ Def(Resolve(t)) \cap freed = {}
    BY <1>1, <1>2, <1>5, <1>7, ResolveKept
  <2>2. ASSUME c \in Reached PROVE Avail(Resolve(t), c) /\ Alike(c, t, Resolve(t))
    <3>1. Avail(t, c)
      BY <1>2, <1>7, <2>2 DEF Stands
    <3>2. \A a \in aliases : Avail(a.from, c) => Avail(a.to, c) /\ Alike(c, a.from, a.to)
      BY <1>2, <2>2, MapsAgree
    <3> QED BY <1>1, <1>5, <3>1, <3>2, ResolveAlike
  <2> QED BY <2>1, <2>2
(* An operand that is replaced.                                             *)
<1>8. ASSUME NEW old \in Operand, NEW u, u = Resolve(old), old # NoTemp => old \in Uses(n)
      PROVE  /\ u = NoTemp \/ (u \in Temp /\ Def(u) \cap freed = {})
             /\ old # NoTemp => u # NoTemp
             /\ c \in Reached => Replaces(u, old, c)
  <2>1. CASE old = NoTemp
    BY <1>6, <1>8, <2>1 DEF Replaces
  <2>2. CASE old # NoTemp
    <3>1. old \in Temp /\ old \in Uses(n)
      BY <1>8, <2>2 DEF Operand
    <3> QED BY <1>7, <1>8, <2>2, <3>1, PipelineAssumption DEF Replaces
  <2> QED BY <2>1, <2>2
<1>9. /\ s = NoTemp \/ (s \in Temp /\ Def(s) \cap freed = {})
      /\ n.src1 # NoTemp => s # NoTemp
      /\ c \in Reached => Replaces(s, n.src1, c)
  <2>1. n.src1 # NoTemp => n.src1 \in Uses(n)
    BY DEF Uses
  <2> QED BY <1>4, <1>8, <2>1
<1>10. /\ s2 = NoTemp \/ Def(s2) \cap freed = {}
       /\ c \in Reached => Replaces(s2, n.src2, c)
  <2>1. n.src2 # NoTemp => n.src2 \in Uses(n)
    BY DEF Uses
  <2>2. CASE IsCopy(n)
    BY <1>2, <2>1, <2>2 DEF Replaces
  <2>3. CASE ~IsCopy(n)
    BY <1>4, <1>8, <2>1, <2>3
  <2> QED BY <2>2, <2>3
<1>17. /\ n.op = "store" => /\ d = NoTemp \/ Def(d) \cap freed = {}
                            /\ c \in Reached => Replaces(d, n.dst, c)
       /\ n.op # "store" => d = n.dst
  <2>1. n.op = "store" /\ n.dst # NoTemp => n.dst \in Uses(n)
    BY DEF Uses
  <2> QED BY <1>4, <1>8, <2>1
<1>11. Form(f, source[c]) /\ (c \in Reached => Stands(f, c))
  <2>1. n \in IRNode /\ Form(n, source[c])
    BY <1>2
  <2>4. n.op # "store" => f.dst = n.dst
    BY <1>16, <1>17
  <2>5. n.op = "copy" => f.src1 # NoTemp
    BY <1>9, <1>16, <2>1 DEF Form
  <2>2. Form(f, source[c])
    BY <1>16, <2>1, <2>4, <2>5, UseStands
  <2>3. /\ Stands(n, c)
        /\ Replaces(f.src1, n.src1, c) /\ Replaces(f.src2, n.src2, c)
        /\ n.op = "store" => Replaces(f.dst, n.dst, c)
        => Stands(f, c)
    BY <1>16, <2>1, <2>4, <2>5, UseStands
  <2> QED BY <1>2, <1>9, <1>10, <1>16, <1>17, <2>2, <2>3
<1>12. \A u \in Uses(f) : Def(u) \cap freed = {}
  <2>2. ASSUME NEW u \in Uses(f) PROVE Def(u) \cap freed = {}
    <3>1. (u = s \/ u = s2 \/ (n.op = "store" /\ u = d)) /\ u # NoTemp
      BY <1>16 DEF Uses
    <3> QED BY <1>9, <1>10, <1>17, <3>1
  <2> QED BY <2>2
<1>13. NodesInv'
  BY <1>1, <1>2, <1>3, <1>11, <1>12, NodeRewritten
<1>14. ASSUME NEW a \in aliases', a \notin aliases
       PROVE  /\ a.from \in Temp /\ a.to \in Temp /\ Def(a.to) \cap freed = {}
              /\ c \in Def(a.from) /\ (Valid(a.from, a.to) \/ ~Single(a.from))
  <2>1. IsCopy(n) /\ a.from = n.dst /\ a.to = s
    BY <1>3, <1>14 DEF AliasOf
  <2>2. n.op = "copy" /\ n.src1 # NoTemp /\ n.dst # NoTemp /\ n.dst \in Temp
    BY <1>4, <2>1 DEF IsCopy, Operand
  <2>3. c \in Def(n.dst)
    BY <1>1, <1>2, <2>2, DefFacts DEF SideEffect
  <2>5. s \in Temp /\ Def(s) \cap freed = {}
    BY <1>9, <2>2
  <2>6. c \in Reached => Avail(s, c) /\ Alike(c, n.src1, s)
    <3>1. n.src1 \in Uses(n) /\ n.src1 \in Temp
      BY <1>4, <2>2 DEF Uses, Operand
    <3> QED BY <1>7, <3>1
  <2>4. Valid(n.dst, s) \/ ~Single(n.dst)
    BY <1>2, <2>2, <2>5, <2>6, UseNumbered
  <2> QED BY <2>1, <2>3, <2>4, <2>2, <2>5
<1>15. CopiesInv'
  BY <1>1, <1>2, <1>3, <1>14, MapsKept
<1> QED BY <1>13, <1>15

LEMMA CcpStep ==
  ASSUME PInv, SsaForm, NodesInv, CopiesInv, CcpNode, nodes' = nodes, first' = first, source' = source
  PROVE  NodesInv' /\ CopiesInv'
<1>1. \/ CcpLabel
      \/ ir[cur].op = "const" /\ ir[cur].dst # NoTemp /\ CcpConst(ir[cur])
      \/ IsCopy(ir[cur]) /\ Constant(ir[cur].src1) /\ CcpConstCopy(ir[cur])
      \/ ir[cur].op # "label" /\ CcpUse(ir[cur])
  BY DEF CcpNode
<1> QED BY <1>1, LabelForgets, ConstRecorded, ConstantCopied, UseReplaced
-----------------------------------------------------------------------------
(* Every step of the passes.                                                *)
(* Before the passes start nothing is recorded.                             *)
Fresh ==
  stage = "analyse" => /\ aliases = {} /\ consts = NoConst
                       /\ DOMAIN before = Temp /\ DOMAIN after = Temp

LEMMA FreshStep == ASSUME Fresh, [PipeNext]_pipeVars PROVE Fresh'
<1>1. CASE Analyse
  <2>1. stage = "analyse" /\ aliases' = aliases /\ consts' = consts /\ before' = before /\ after' = after
    BY <1>1 DEF Analyse, ccpVars, execVars
  <2> QED BY <2>1 DEF Fresh, NoConst
<1>2. CASE ~Analyse /\ PipeNext
  <2>1. stage' # "analyse"
    BY <1>2 DEF PipeNext, StartDce, DceDelete, DceKeep, DceAgain, StartGvn, GvnNode, GvnDescend, GvnLeave,
                ScanNode, EndScan, CcpNode, EndCcp, StartRun, Run, StartSweepAt
  <2> QED BY <2>1 DEF Fresh
<1>3. CASE UNCHANGED pipeVars
  BY <1>3 DEF pipeVars, ccpVars, execVars, Fresh, NoConst
<1> QED BY <1>1, <1>2, <1>3

LEMMA SemStarts ==
  ASSUME PInv, Fresh, StartDce, SsaForm'
  PROVE  SemInv'
<1>1. /\ stage = "analyse" /\ stage' = "dce" /\ nodes' = nodes /\ first' = first /\ source' = source
      /\ ir' = ir /\ freed' = freed /\ table' = table /\ cong' = cong
      /\ aliases' = aliases /\ consts' = consts
  BY DEF StartDce, StartSweepAt, vars, fixed, listVars, gvnVars, ccpVars
<1>2. SourceInv /\ (\A p \in DOMAIN ir : source[p] \in IRNode) /\ SsaForm
  BY <1>1, SizeFacts, FormKept DEF PInv
<1>3. ir = source /\ freed = {} /\ table = <<>> /\ cong = <<>> /\ aliases = {} /\ consts = NoConst
  BY <1>1, <1>2 DEF SourceInv, Fresh
<1>4. ASSUME NEW p \in DOMAIN source, NEW n, n = source[p]
      PROVE  Form(n, n) /\ (p \in Reached => Stands(n, p))
  <2>1. Form(n, n)
    BY <1>2, <1>4 DEF SsaForm, Form
  <2>2. ASSUME p \in Reached PROVE \A u \in Uses(n) : Avail(u, p)
    BY <1>2, <1>4, <2>2 DEF SsaForm
  <2> QED BY <1>4, <2>1, <2>2 DEF Stands, Alike
<1>5. NodesInv
  BY <1>1, <1>3, <1>4 DEF NodesInv
<1>6. NodesInv'
  BY <1>1, <1>5, NodesKept
<1>7. table' = <<>> /\ cong' = <<>> /\ aliases' = {} /\ consts' = NoConst
  BY <1>1, <1>3
<1>8. Rows' = {} /\ Congs' = {}
  BY <1>7 DEF Rows, Congs
<1>9. TablesInv'
  BY <1>1, <1>8 DEF TablesInv
<1>10. CopiesInv'
  BY <1>1, <1>7 DEF CopiesInv, NoConst
<1>11. LedInv'
  BY <1>1 DEF LedInv
<1> QED BY <1>1, <1>6, <1>9, <1>10, <1>11 DEF SemInv

LEMMA NodesStep ==
  ASSUME \A prog \in Programs : LabelsDistinct(prog), AllInv, [PipeNext]_pipeVars
  PROVE  NodesInv'
<1>1. /\ SourceInv /\ LinkInv /\ NodesInv /\ PInv /\ SsaForm /\ CopiesInv
      /\ nodes' = nodes /\ first' = first /\ source' = source
  BY GraphKept DEF AllInv, SemInv, PInv
<1>0. ~Analyse
  BY DEF AllInv, SemInv, Analyse
<1>2. next[0] # 0 => next[0] \in Listed
  BY <1>1, ScanListed
<1>3. CASE StartDce \/ DceKeep \/ DceAgain \/ StartGvn \/ GvnDescend \/ StartRun \/ Run
  <2>1. /\ ir' = ir /\ freed' = freed
        /\ stage' \in {"scan", "ccp"} => cur' = next[0]
    BY <1>3 DEF StartDce, DceKeep, DceAgain, StartGvn, GvnDescend, StartRun, Run, StartSweepAt, listVars
  <2> QED BY <1>1, <1>2, <2>1, NodesKept
<1>4. CASE GvnLeave \/ EndScan \/ EndCcp
  <2>1. /\ ir' = ir /\ freed' = freed
        /\ stage' \in {"scan", "ccp"} => cur' = next[0]
    BY <1>4 DEF GvnLeave, EndScan, EndCcp, StartSweepAt, listVars
  <2> QED BY <1>1, <1>2, <2>1, NodesKept
<1>5. CASE DceDelete
  BY <1>1, <1>5, NodesDeleted
<1>6. CASE GvnNode
  BY <1>1, <1>6, GvnNodes
<1>7. CASE ScanNode
  BY <1>1, <1>7, ScanNodes
<1>8. CASE CcpNode
  BY <1>1, <1>8, CcpStep
<1>9. CASE UNCHANGED pipeVars
  <2>1. ir' = ir /\ freed' = freed /\ stage' = stage /\ cur' = cur
    BY <1>9 DEF pipeVars, listVars
  <2>2. stage \in {"scan", "ccp"} /\ cur # 0 => cur \in Listed
    BY <1>1 DEF NodesInv
  <2> QED BY <1>1, <2>1, <2>2, NodesKept
<1> QED BY <1>0, <1>3, <1>4, <1>5, <1>6, <1>7, <1>8, <1>9 DEF PipeNext

(* A finished scope takes its rows and congruences with it.                 *)
LEMMA LeavingForgets ==
  ASSUME PInv, GvnLeave
  PROVE  Rows' \subseteq Rows /\ Congs' \subseteq Congs
<1>1. Top \in Scope /\ Top.entries <= Len(table) /\ Top.congs <= Len(cong)
  BY TopFacts DEF PInv, ScopeInv, GvnLeave
<1>2. Top.entries \in Nat /\ Top.congs \in Nat /\ table \in Seq(Row) /\ cong \in Seq(Pair)
  BY <1>1 DEF Scope, PInv, DataInv
<1> PICK k : k = Top.entries
  OBVIOUS
<1> PICK l : l = Top.congs
  OBVIOUS
<1>3. table' = SubSeq(table, 1, k) /\ cong' = SubSeq(cong, 1, l)
  BY DEF GvnLeave
<1>4. /\ DOMAIN table' = 1 .. k /\ 1 .. k \subseteq DOMAIN table /\ \A i \in 1 .. k : table'[i] = table[i]
      /\ DOMAIN cong' = 1 .. l /\ 1 .. l \subseteq DOMAIN cong /\ \A i \in 1 .. l : cong'[i] = cong[i]
  BY <1>1, <1>2, <1>3
<1> QED BY <1>4 DEF Rows, Congs

LEMMA TablesStep ==
  ASSUME \A prog \in Programs : LabelsDistinct(prog), AllInv, [PipeNext]_pipeVars
  PROVE  TablesInv'
<1>1. SourceInv /\ PInv /\ TablesInv /\ nodes' = nodes /\ first' = first /\ source' = source
  BY GraphKept DEF AllInv, SemInv, PInv
<1>0. ~Analyse
  BY DEF AllInv, SemInv, Analyse
<1>2. ASSUME table' = table, cong' = cong, stage' \notin {"gvn", "scan"} PROVE TablesInv'
  <2>1. Rows' = Rows /\ Congs' = Congs
    BY <1>2 DEF Rows, Congs
  <2> QED BY <1>1, <1>2, <2>1, TablesKept
<1>3. CASE StartDce \/ DceDelete \/ DceKeep \/ DceAgain \/ EndScan
           \/ CcpNode \/ EndCcp \/ StartRun \/ Run
  BY <1>2, <1>3 DEF StartDce, DceDelete, DceKeep, DceAgain, EndScan, CcpNode, EndCcp, StartRun, Run,
                    StartSweepAt, gvnVars
<1>4. CASE StartGvn
  <2>1. table' = <<>> /\ cong' = <<>>
    BY <1>1, <1>4 DEF StartGvn, SourceInv
  <2>2. Rows' = {} /\ Congs' = {}
    BY <2>1 DEF Rows, Congs
  <2>3. freed' = freed
    BY <1>4 DEF StartGvn, listVars
  <2> QED BY <1>1, <2>1, <2>2, <2>3, TablesKept
<1>5. CASE GvnNode
  BY <1>1, <1>5, GvnTables
<1>6. CASE ScanNode
  BY <1>1, <1>6, ScanTables
<1>7. CASE GvnDescend
  <2>1. Rows' = Rows /\ Congs' = Congs /\ freed' = freed /\ stage' = "gvn" /\ stage = "gvn"
    BY <1>7 DEF GvnDescend, Rows, Congs, listVars
  <2>2. \A r \in Rows : Def(r.dst) \cap freed = {}
    BY <1>1, <2>1 DEF TablesInv
  <2> QED BY <1>1, <2>1, <2>2, TablesKept
<1>8. CASE GvnLeave
  <2>1. Rows' \subseteq Rows /\ Congs' \subseteq Congs
    BY <1>1, <1>8, LeavingForgets
  <2>2. freed' = freed /\ stage = "gvn" /\ stage' # "scan"
    BY <1>8 DEF GvnLeave, listVars, StartSweepAt
  <2>3. \A r \in Rows : Def(r.dst) \cap freed = {}
    BY <1>1, <2>2 DEF TablesInv
  <2> QED BY <1>1, <2>1, <2>2, <2>3, TablesKept
<1>9. CASE UNCHANGED pipeVars
  <2>1. /\ Rows' = Rows /\ Congs' = Congs /\ freed' = freed /\ stage' = stage /\ cur' = cur /\ cong' = cong
    BY <1>9 DEF pipeVars, listVars, gvnVars, Rows, Congs
  <2>2. \A q : Near(q)' <=> Near(q)
    BY <1>1, <2>1 DEF Near
  <2>3. stage \in {"gvn", "scan"} => \A r \in Rows : Def(r.dst) \cap freed = {}
    BY <1>1 DEF TablesInv
  <2>4. stage = "scan" => cong = <<>> /\ (cur # 0 => \A r \in Rows : Near(Birth[r.dst]))
    BY <1>1 DEF TablesInv
  <2> QED BY <1>1, <2>1, <2>2, <2>3, <2>4, TablesKept
<1> QED BY <1>0, <1>3, <1>4, <1>5, <1>6, <1>7, <1>8, <1>9 DEF PipeNext

LEMMA CopiesStep ==
  ASSUME AllInv, [PipeNext]_pipeVars
  PROVE  CopiesInv'
<1>1. PInv /\ SsaForm /\ NodesInv /\ CopiesInv /\ nodes' = nodes /\ first' = first /\ source' = source
  BY GraphKept DEF AllInv, SemInv, PInv
<1>0. ~Analyse
  BY DEF AllInv, SemInv, Analyse
<1>2. ASSUME aliases' = {}, consts' = NoConst PROVE CopiesInv'
  <2>1. \A t \in Temp, i \in Imm : consts'[t] # <<i>>
    BY <1>2 DEF NoConst
  <2>2. NoConst' = NoConst
    BY DEF NoConst
  <2> QED BY <1>2, <2>1, <2>2 DEF CopiesInv
<1>3. CASE StartDce \/ DceDelete \/ DceKeep \/ DceAgain \/ StartGvn \/ GvnNode
           \/ GvnDescend \/ GvnLeave \/ ScanNode \/ EndScan \/ StartRun \/ Run
  <2>1. stage # "ccp" /\ aliases' = aliases /\ consts' = consts
    BY <1>3 DEF StartDce, DceDelete, DceKeep, DceAgain, StartGvn, GvnNode, GvnDescend, GvnLeave,
                ScanNode, EndScan, StartRun, Run, ccpVars
  <2> QED BY <1>1, <1>2, <2>1 DEF CopiesInv
<1>4. CASE EndCcp
  BY <1>2, <1>4 DEF EndCcp
<1>5. CASE CcpNode
  BY <1>1, <1>5, CcpStep
<1>6. CASE UNCHANGED pipeVars
  <2>1. aliases' = aliases /\ consts' = consts /\ freed' = freed /\ stage' = stage /\ cur' = cur
    BY <1>6 DEF pipeVars, listVars, ccpVars
  <2>2. /\ \A t : Def(t)' = Def(t) /\ (Single(t)' <=> Single(t))
        /\ \A a, b : Valid(a, b)' <=> Valid(a, b)
        /\ \A t, i : ConstValid(t, i)' <=> ConstValid(t, i)
        /\ \A q : Near(q)' <=> Near(q)
    BY <1>1, <2>1, FormKept, ValuesKept DEF Near
  <2>3. CASE stage # "ccp"
    BY <1>1, <1>2, <2>1, <2>3 DEF CopiesInv
  <2>4. CASE stage = "ccp"
    <3>1. \A a \in aliases : a.from \in Temp /\ a.to \in Temp /\ Def(a.to)' \cap freed = {}
      BY <1>1, <2>2, <2>4 DEF CopiesInv
    <3>2. ASSUME cur # 0, NEW a \in aliases
          PROVE  (Valid(a.from, a.to) \/ (~Single(a.from) /\ \E q \in Def(a.from) : Near(q)))'
      <4> PICK f : f = a.from
        OBVIOUS
      <4> PICK g : g = a.to
        OBVIOUS
      <4>1. Valid(f, g) \/ (~Single(f) /\ \E q \in Def(f) : Near(q))
        BY <1>1, <2>4, <3>2 DEF CopiesInv
      <4>2. (Valid(f, g) \/ (~Single(f) /\ \E q \in Def(f) : Near(q)))'
        BY <2>2, <4>1
      <4> QED BY <4>2
    <3>3. ASSUME cur # 0, NEW t \in Temp, NEW i \in Imm, consts[t] = <<i>>
          PROVE  (ConstValid(t, i) \/ (~Single(t) /\ \E q \in Def(t) : Near(q)))'
      <4>1. ConstValid(t, i) \/ (~Single(t) /\ \E q \in Def(t) : Near(q))
        BY <1>1, <2>4, <3>3 DEF CopiesInv
      <4> QED BY <2>2, <4>1
    <3> QED BY <2>1, <2>4, <3>1, <3>2, <3>3 DEF CopiesInv
  <2> QED BY <2>3, <2>4
<1> QED BY <1>0, <1>3, <1>4, <1>5, <1>6 DEF PipeNext

LEMMA SemStep ==
  ASSUME \A prog \in Programs : LabelsDistinct(prog), EndsKept, AllInv, [PipeNext]_pipeVars
  PROVE  SemInv'
<1>1. SsaForm' /\ stage' # "analyse"
  <2>1. SsaForm'
    BY GraphKept, FormKept DEF AllInv, SemInv
  <2>2. stage # "analyse"
    BY DEF AllInv, SemInv
  <2>3. stage' # "analyse"
    BY <2>2 DEF PipeNext, pipeVars, Analyse, StartDce, DceDelete, DceKeep, DceAgain, StartGvn, GvnNode,
                GvnDescend, GvnLeave, ScanNode, EndScan, CcpNode, EndCcp, StartRun, Run, StartSweepAt
  <2> QED BY <2>1, <2>3
<1>2. LedInv'
  BY LedStep DEF AllInv, SemInv
<1> QED BY <1>1, <1>2, NodesStep, TablesStep, CopiesStep DEF SemInv

-----------------------------------------------------------------------------
(* Side by side, the list that is left computes what the source computes,   *)
(* save for what nothing reads, as long as no hidden branch is taken.       *)
RunInv ==
  /\ DOMAIN before = Temp /\ DOMAIN after = Temp
  /\ stage = "run" /\ cur # 0 /\ ~strayed =>
       \A x : x = cur =>
         /\ x \in Reached
         /\ \A env : env = before => Models(env, x)
         /\ \A t \in Temp : Assigned(t, x) /\ Def(t) \cap freed = {} => after[t] = before[t]

(* What executing a node does to a temporary.                               *)
LEMMA EffectOn ==
  ASSUME NEW n, NEW env, NEW in, NEW t \in Temp, DOMAIN env = Temp
  PROVE  /\ DOMAIN Effect(n, env, in) = Temp
         /\ ~(Defines(n) /\ n.dst = t) => Effect(n, env, in)[t] = env[t]
         /\ Defines(n) /\ n.dst = t => Effect(n, env, in)[t] = Result(n, env, in)
<1> PICK r : r = Result(n, env, in)
  OBVIOUS
<1>1. Effect(n, env, in) = IF Defines(n) THEN [env EXCEPT ![n.dst] = r] ELSE env
  BY DEF Effect, Defines
<1> QED BY <1>1

(* The result of a node depends on its operands, and on what is found.      *)
LEMMA ResultOf ==
  ASSUME NEW n, NEW e, NEW f, NEW in, NEW jn, Value(e, n.src1) = Value(f, n.src1),
         Value(e, n.src2) = Value(f, n.src2), n.op \in Found => in = jn
  PROVE  Result(n, e, in) = Result(n, f, jn)
<1>1. CASE n.op \in Found
  BY <1>1 DEF Result, Found
<1>2. CASE n.op = "const"
  BY <1>2 DEF Result
<1>3. CASE n.op = "copy"
  BY <1>3 DEF Result
<1>4. CASE n.op \notin Found \cup {"const", "copy"}
  BY <1>4 DEF Result, Found
<1> QED BY <1>1, <1>2, <1>3, <1>4

(* Two sets of values that agree on what a node uses.                       *)
LEMMA ResultAgrees ==
  ASSUME NEW n, NEW e, NEW f, NEW in, NEW jn, \A u \in Uses(n) : e[u] = f[u], n.op \in Found => in = jn
  PROVE  Result(n, e, in) = Result(n, f, jn)
<1>1. n.src1 # NoTemp => n.src1 \in Uses(n)
  BY DEF Uses
<1>2. n.src2 # NoTemp => n.src2 \in Uses(n)
  BY DEF Uses
<1> QED BY <1>1, <1>2, ResultOf DEF Value

LEMMA ModelsStep ==
  ASSUME PInv, SsaForm, NEW p \in Reached, NEW r \in Flow(p), NEW env, DOMAIN env = Temp, Models(env, p), NEW in
  PROVE  Models(Effect(source[p], env, in), r)
<1> PICK b : b = Effect(source[p], env, in)
  OBVIOUS
<1>1. SourceInv /\ BlocksInv
  BY BlocksSound DEF PInv
<1>2. p \in DOMAIN source /\ \A q \in DOMAIN source : source[q] \in IRNode
  <2>1. p \in DOMAIN nodes
    BY <1>1, ReachedFacts
  <2> QED BY <1>1, <2>1, SizeFacts
<1>3. \A u \in Temp : p \notin Def(u) => b[u] = env[u]
  <2>1. \A u \in Temp : p \notin Def(u) => ~(Defines(source[p]) /\ source[p].dst = u)
    BY <1>2 DEF Def
  <2> QED BY <2>1, EffectOn
<1> SUFFICES ASSUME NEW t \in Temp, Single(t), Avail(t, r), source[Birth[t]].op \notin Found
             PROVE  b[t] = Result(source[Birth[t]], b, <<>>)
  BY DEF Models
<1> PICK q : q = Birth[t]
  OBVIOUS
<1> PICK m : m = source[q]
  OBVIOUS
<1>4. q \in Def(t) /\ q \in DOMAIN source /\ Defines(m) /\ m.dst = t /\ m \in IRNode
  BY <1>2 DEF Single, Def
<1>5. \A u \in Uses(m) : u \in Temp
  BY <1>4 DEF Uses, IRNode
<1>6. CASE p = q
  <2>1. \A u \in Uses(m) : u # t
    <3>1. ~Avail(t, p)
      BY <1>1, <1>4, <1>6, DefNotAvail
    <3> QED BY <1>4, <1>6, <3>1 DEF SsaForm
  <2>2. \A u \in Temp : u # t => p \notin Def(u)
    BY <1>4, <1>6 DEF Def
  <2>3. b[t] = Result(m, env, in)
    BY <1>4, <1>6, EffectOn
  <2>4. \A u \in Uses(m) : env[u] = b[u]
    BY <1>3, <1>5, <2>1, <2>2
  <2>5. Result(m, env, in) = Result(m, b, <<>>)
    BY <2>4, ResultAgrees
  <2> QED BY <2>3, <2>5
<1>7. CASE p # q
  <2>1. Avail(t, p)
    BY <1>1, <1>7, PastStep DEF Avail
  <2>2. env[t] = Result(m, env, <<>>)
    BY <2>1 DEF Models
  <2>3. p \notin Def(t)
    BY <1>7 DEF Single
  <2>4. ASSUME NEW u \in Uses(m) PROVE p \notin Def(u)
    <3> SUFFICES ASSUME p \in Def(u) PROVE FALSE
      OBVIOUS
    <3>1. q \in Reached /\ \A v : Avail(v, q) => Avail(v, p)
      BY <1>1, <2>1, FromBirth
    <3>2. Avail(u, q)
      BY <1>4, <2>4, <3>1 DEF SsaForm
    <3>3. ~Avail(u, p)
      BY <1>1, <1>5, <2>4, DefNotAvail
    <3> QED BY <3>1, <3>2, <3>3
  <2>5. b[t] = env[t] /\ \A u \in Uses(m) : env[u] = b[u]
    BY <1>3, <1>5, <2>3, <2>4
  <2>6. Result(m, env, <<>>) = Result(m, b, <<>>)
    BY <2>5, ResultAgrees
  <2> QED BY <2>2, <2>5, <2>6
<1> QED BY <1>6, <1>7

(* What a listed node uses has the same value on both sides.                *)
LEMMA UsesAgree ==
  ASSUME PInv, SsaForm, NodesInv, NEW p \in Reached, p \in Listed,
         \A t \in Temp : Assigned(t, p) /\ Def(t) \cap freed = {} => after[t] = before[t],
         NEW u \in Uses(ir[p])
  PROVE  u \in Temp /\ after[u] = before[u]
<1>1. SourceInv /\ BlocksInv
  BY BlocksSound DEF PInv
<1>2. p \in DOMAIN ir /\ ir[p] \in IRNode
  BY <1>1, SizeFacts DEF Listed
<1>3. u \in Temp
  BY <1>2 DEF Uses, IRNode
<1>4. Avail(u, p) /\ Def(u) \cap freed = {}
  BY <1>2 DEF NodesInv, Stands
<1>5. Assigned(u, p)
  BY <1>1, <1>3, <1>4, AvailIsAssigned
<1> QED BY <1>3, <1>4, <1>5

LEMMA ValuesStep ==
  ASSUME PInv, SsaForm, NodesInv, RunInv, NEW p \in Reached, p = cur, stage = "run", cur # 0, ~strayed,
         NEW r \in Flow(p), NEW in,
         NEW b, b = Effect(source[p], before, in),
         NEW a, a = IF p \in freed THEN after ELSE Effect(ir[p], after, in),
         NEW t \in Temp, Assigned(t, r), Def(t) \cap freed = {}
  PROVE  a[t] = b[t]
<1>1. SourceInv /\ BlocksInv
  BY BlocksSound DEF PInv
<1>2. p \in DOMAIN source /\ p \in DOMAIN ir /\ source[p] \in IRNode /\ ir[p] \in IRNode
  <2>1. p \in DOMAIN nodes
    BY <1>1, ReachedFacts
  <2> QED BY <1>1, <2>1, SizeFacts
<1>3. /\ Form(ir[p], source[p]) /\ Stands(ir[p], p) /\ Models(before, p)
      /\ DOMAIN before = Temp /\ DOMAIN after = Temp
      /\ \A u \in Temp : Assigned(u, p) /\ Def(u) \cap freed = {} => after[u] = before[u]
  BY <1>2 DEF NodesInv, RunInv
<1>4. CASE p \in Def(t)
  <2>1. p \in Listed /\ p \notin freed
    BY <1>2, <1>4 DEF Listed
  <2>2. Defines(source[p]) /\ source[p].dst = t
    BY <1>4 DEF Def
  <2>3. Defines(ir[p]) /\ ir[p].dst = t
    BY <1>3, <2>2 DEF Form, Defines, Pure, Commutative, SideEffect
  <2>4. b[t] = Result(source[p], before, in) /\ a[t] = Result(ir[p], after, in)
    BY <1>3, <2>1, <2>2, <2>3, EffectOn
  <2>5. Result(ir[p], before, in) = Result(source[p], before, in)
    <3>1. CASE ir[p].op = "call"
      <4>1. source[p].op = "call"
        BY <1>3, <3>1 DEF Form
      <4> QED BY <3>1, <4>1 DEF Result
    <3>2. CASE ir[p].op # "call"
      BY <1>3, <2>3, <3>2 DEF Stands, Defines
    <3> QED BY <3>1, <3>2
  <2>6. \A u \in Uses(ir[p]) : after[u] = before[u]
    BY <1>3, <2>1, UsesAgree
  <2>7. Result(ir[p], after, in) = Result(ir[p], before, in)
    BY <2>6, ResultAgrees
  <2> QED BY <2>4, <2>5, <2>7
<1>5. CASE p \notin Def(t)
  <2>1. Assigned(t, p)
    BY <1>1, <1>5, ReachIsLeast DEF Assigned
  <2>2. ~(Defines(source[p]) /\ source[p].dst = t)
    BY <1>2, <1>5 DEF Def
  <2>3. p \in Listed => ~(Defines(ir[p]) /\ ir[p].dst = t)
    BY <1>1, <1>2, <1>3, <2>2 DEF Form, Defines, Pure, Commutative, SideEffect
  <2>4. b[t] = before[t] /\ a[t] = after[t]
    BY <1>2, <1>3, <2>2, <2>3, EffectOn DEF Listed
  <2> QED BY <1>3, <2>1, <2>4
<1> QED BY <1>4, <1>5

LEMMA RunStep ==
  ASSUME AllInv, RunInv, [PipeNext]_pipeVars
  PROVE  RunInv'
<1>1. /\ PInv /\ SsaForm /\ NodesInv /\ BlocksInv /\ nodes' = nodes /\ first' = first /\ source' = source
  BY GraphKept, BlocksSound DEF AllInv, SemInv, PInv
<1>0. ~Analyse
  BY DEF AllInv, SemInv, Analyse
<1>2. /\ Reached' = Reached /\ (\A t : Def(t)' = Def(t)) /\ (\A t, x : Assigned(t, x)' <=> Assigned(t, x))
      /\ \A env, x : Models(env, x)' <=> Models(env, x)
  BY <1>1, FormKept, ValuesKept
<1>3. CASE StartDce \/ DceDelete \/ DceKeep \/ DceAgain \/ StartGvn \/ GvnNode
           \/ GvnDescend \/ GvnLeave \/ ScanNode \/ EndScan \/ CcpNode \/ EndCcp
  <2>1. stage' # "run" /\ before' = before /\ after' = after
    BY <1>3 DEF StartDce, DceDelete, DceKeep, DceAgain, StartGvn, GvnNode, GvnDescend, GvnLeave,
                ScanNode, EndScan, CcpNode, EndCcp, StartSweepAt, execVars
  <2> QED BY <2>1 DEF RunInv
<1>4. CASE StartRun
  <2>1. stage' = "run" /\ cur' = 1 /\ before' = before /\ after' = after /\ freed' = freed
    BY <1>4 DEF StartRun, execVars, listVars
  <2>2. 1 \in Reached
    BY <1>1, ReachedFacts
  <2>3. Models(before, 1)
    BY <1>1, NothingBeforeFirst DEF Models, Avail
  <2>4. \A t : ~Assigned(t, 1)
    BY <1>1, ReachIsLeast DEF Assigned
  <2> QED BY <1>2, <2>1, <2>2, <2>3, <2>4 DEF RunInv
<1>5. CASE Run
  <2> PICK p : p = cur
    OBVIOUS
  <2> PICK r : r = cur'
    OBVIOUS
  <2>1. /\ stage = "run" /\ cur # 0 /\ freed' = freed /\ stage' = "run"
        /\ strayed' = (strayed \/ cur' \notin Flow(p) \cup {0})
    BY <1>5 DEF Run, listVars
  <2>2. PICK in : /\ before' = Effect(source[p], before, in)
                  /\ after' = IF p \in freed THEN after ELSE Effect(ir[p], after, in)
    BY <1>5 DEF Run
  <2>3. DOMAIN before = Temp /\ DOMAIN after = Temp
    BY DEF RunInv
  <2>4. DOMAIN before' = Temp /\ DOMAIN after' = Temp
    BY <2>2, <2>3 DEF Effect
  <2>5. ASSUME cur' # 0, ~strayed'
        PROVE  /\ r \in Reached /\ Models(before', r)
               /\ \A t \in Temp : Assigned(t, r) /\ Def(t) \cap freed = {} => after'[t] = before'[t]
    <3>1. r \in Flow(p) /\ ~strayed
      BY <2>1, <2>5
    <3>2. p \in Reached /\ Models(before, p)
      BY <2>1, <3>1 DEF RunInv
    <3>3. r \in Reached
      BY <1>1, <3>1, <3>2, ReachedFacts
    <3>4. Models(before', r)
      BY <1>1, <2>2, <2>3, <3>1, <3>2, ModelsStep
    <3>5. \A t \in Temp : Assigned(t, r) /\ Def(t) \cap freed = {} => after'[t] = before'[t]
      BY <1>1, <2>1, <2>2, <3>1, <3>2, ValuesStep
    <3> QED BY <3>3, <3>4, <3>5
  <2> QED BY <1>2, <2>1, <2>4, <2>5 DEF RunInv
<1>6. CASE UNCHANGED pipeVars
  <2>1. stage' = stage /\ cur' = cur /\ freed' = freed /\ before' = before /\ after' = after /\ strayed' = strayed
    BY <1>6 DEF pipeVars, listVars, execVars
  <2> QED BY <1>2, <2>1 DEF RunInv
<1> QED BY <1>0, <1>3, <1>4, <1>5, <1>6 DEF PipeNext

LEMMA EffectsSame ==
  ASSUME PInv, SsaForm, NodesInv, RunInv
  PROVE  SameEffects
<1> PICK p : p = cur
  OBVIOUS
<1> PICK n : n = ir[p]
  OBVIOUS
<1> PICK m : m = source[p]
  OBVIOUS
<1> SUFFICES ASSUME stage = "run", cur # 0, ~strayed, m.op \in SideEffect
             PROVE  /\ Value(after, n.src1) = Value(before, m.src1)
                    /\ Value(after, n.src2) = Value(before, m.src2)
                    /\ m.op = "store" => Value(after, n.dst) = Value(before, m.dst)
  BY DEF SameEffects, EffectsAgree
<1>1. SourceInv /\ BlocksInv
  BY BlocksSound DEF PInv
<1>2. /\ p \in Reached /\ Models(before, p)
      /\ \A t \in Temp : Assigned(t, p) /\ Def(t) \cap freed = {} => after[t] = before[t]
  BY DEF RunInv
<1>3. p \in DOMAIN ir /\ p \in DOMAIN source
  <2>1. p \in DOMAIN nodes
    BY <1>1, <1>2, ReachedFacts
  <2> QED BY <1>1, <2>1, SizeFacts
<1>4. p \in Listed
  BY <1>3 DEF NodesInv, Listed
<1>5. Form(n, m) /\ Stands(n, p)
  BY <1>2, <1>3 DEF NodesInv
<1>6. n.op = m.op /\ n.op \in SideEffect
  BY <1>5 DEF Form, Pure, Commutative, SideEffect
<1>7. /\ Value(before, n.src1) = Value(before, m.src1)
      /\ Value(before, n.src2) = Value(before, m.src2)
      /\ m.op = "store" => Value(before, n.dst) = Value(before, m.dst)
  BY <1>2, <1>5, <1>6 DEF Stands, Alike
<1>8. \A u \in Uses(n) : after[u] = before[u]
  BY <1>2, <1>4, UsesAgree
<1>9. /\ Value(after, n.src1) = Value(before, n.src1)
      /\ Value(after, n.src2) = Value(before, n.src2)
      /\ m.op = "store" => Value(after, n.dst) = Value(before, n.dst)
  <2>1. n.src1 # NoTemp => n.src1 \in Uses(n)
    BY DEF Uses
  <2>2. n.src2 # NoTemp => n.src2 \in Uses(n)
    BY DEF Uses
  <2>3. m.op = "store" /\ n.dst # NoTemp => n.dst \in Uses(n)
    BY <1>6 DEF Uses
  <2> QED BY <1>8, <2>1, <2>2, <2>3 DEF Value
<1> QED BY <1>7, <1>9
-----------------------------------------------------------------------------
(* Redundancies.  The tables stay flat, what was computed in an open scope  *)
(* is found in them while the table has room, and so nothing that has been  *)
(* numbered is redundant.                                                   *)

(* There is no loop that nothing leads to.                                  *)
Rooted == RootedBlocks = Block

(* No congruence leads on from t where t may be used.                       *)
Settled(t) == \A c \in Congs : c.from = t => ~Single(t)

(* A temporary leads nowhere twice, and to one that was there before and    *)
(* leads nowhere itself; so does the temporary of a row.                    *)
FlatInv ==
  stage = "gvn" =>
    /\ \A k, m \in DOMAIN cong : cong[k].from = cong[m].from => k = m
    /\ \A c \in Congs : Single(c.from) => Avail(c.to, Birth[c.from]) /\ Settled(c.to)
    /\ \A r \in Rows : Settled(r.dst)

(* What the scopes down to the j-th have put into the tables.               *)
RowsTo(j)  == IF j < Len(walk) THEN walk[j + 1].entries ELSE Len(table)
CongsTo(j) == IF j < Len(walk) THEN walk[j + 1].congs ELSE Len(cong)

(* With the congruences of the scopes down to the j-th, s leads to w.       *)
Leads(s, w, j) ==
  \/ w = s /\ Settled(s)
  \/ Single(s) /\ \E k \in DOMAIN cong : k <= CongsTo(j) /\ cong[k].from = s /\ cong[k].to = w

(* Row i is what a lookup of node n finds once n has been numbered.         *)
Answers(i, n, j) ==
  /\ table[i].op = n.op
  /\ \E a, b \in Operand : /\ Leads(n.src1, a, j) /\ Leads(n.src2, b, j)
                           /\ SameOperands(n.op, table[i].src1, table[i].src2, a, b)

Held(n, j) == \E i \in DOMAIN table : i <= RowsTo(j) /\ Answers(i, n, j)

Computing == {p \in Listed : ir[p].op \in Pure /\ ir[p].dst # NoTemp}

HeldInv ==
  stage = "gvn" /\ ~full =>
    \A j \in DOMAIN walk, p \in Computing : Behind(j, p) => \A n : n = ir[p] => Held(n, j)

(* The walk has still to come to b.                                         *)
Pending(b) == \E j \in DOMAIN walk : \E i \in DOMAIN walk[j].todo : Dominates(walk[j].todo[i], b)

NumberedIn(b, q) == q \in NodesOf(b) /\ ~Pending(b) /\ (b = Top.block /\ cur # 0 => q < cur)

Alikes(m, n) == m.op = n.op /\ SameOperands(m.op, m.src1, m.src2, n.src1, n.src2)
Twins(p, q)  == Alikes(ir[p], ir[q])

CleanInv ==
  stage = "gvn" /\ ~full /\ ChildrenFit =>
    \A b \in Block, p, q \in Computing :
      Dominates(1, b) /\ NumberedIn(b, q) /\ Twins(p, q) => q \notin VisibleFrom(p)

(* A path of links ends where it leads nowhere.                             *)
LEMMA TwiceLands ==
  ASSUME NEW S, NEW f \in [S -> S], NEW t \in S, NEW w \in S, f[t] = w, f[w] = w
  PROVE  Twice(f) \in [S -> S] /\ Twice(f)[t] = w /\ Twice(f)[w] = w
BY DEF Twice

(* A leader that leads nowhere is reached with one hop.                     *)
LEMMA LeaderIsOneHop ==
  ASSUME DataInv, NEW k \in DOMAIN cong, NEW w \in Temp, w = cong[k].to, NEW t \in Temp, t = cong[k].from,
         \A m \in DOMAIN cong : cong[m].from = t => m = k, \A m \in DOMAIN cong : cong[m].from # w
  PROVE  Leader(t) = w
<1> DEFINE known(u) == {i \in DOMAIN cong : cong[i].from = u}
           hop == [u \in Operand |-> IF known(u) = {} THEN u ELSE cong[Least(known(u))].to]
           h1 == Twice(hop)
           h2 == Twice(h1)
           h3 == Twice(h2)
           h4 == Twice(h3)
<1>1. hop \in [Operand -> Operand] /\ t \in Operand /\ w \in Operand /\ hop[t] = w /\ hop[w] = w
  <2>1. ASSUME NEW u, known(u) # {}
        PROVE  Least(known(u)) \in known(u) /\ cong[Least(known(u))].to \in Operand
    <3>1. known(u) \in SUBSET Nat
      BY DEF DataInv
    <3>2. Least(known(u)) \in known(u)
      BY <2>1, <3>1, LeastExists DEF Least
    <3>3. \A i \in DOMAIN cong : cong[i] \in Pair
      BY DEF DataInv
    <3> QED BY <3>2, <3>3 DEF Pair, Operand
  <2>2. k \in known(t) /\ (\A m \in known(t) : m = k) /\ known(w) = {}
    OBVIOUS
  <2> HIDE DEF known
  <2>3. \A u \in Operand : hop[u] \in Operand
    BY <2>1
  <2>4. hop = [u \in Operand |-> hop[u]]
    OBVIOUS
  <2>5. t \in Operand /\ w \in Operand
    BY DEF Operand
  <2>6. hop[w] = w
    BY <2>2, <2>5
  <2>7. Least(known(t)) = k
    BY <2>1, <2>2
  <2>8. hop[t] = w
    BY <2>2, <2>5, <2>7
  <2> HIDE DEF hop
  <2> QED BY <2>3, <2>4, <2>5, <2>6, <2>8
<1>2. Leader(t) = h4[t]
  BY DEF Leader, Operand
<1> HIDE DEF hop
<1>3. h1 \in [Operand -> Operand] /\ h1[t] = w /\ h1[w] = w
  BY <1>1, TwiceLands
<1> HIDE DEF h1
<1>4. h2 \in [Operand -> Operand] /\ h2[t] = w /\ h2[w] = w
  BY <1>1, <1>3, TwiceLands
<1> HIDE DEF h2
<1>5. h3 \in [Operand -> Operand] /\ h3[t] = w /\ h3[w] = w
  BY <1>1, <1>4, TwiceLands
<1> HIDE DEF h3
<1>6. h4[t] = w
  BY <1>1, <1>5, TwiceLands
<1> QED BY <1>2, <1>6

(* A temporary that leads nowhere is its own leader.                        *)
LEMMA LeaderIsItself ==
  ASSUME DataInv, NEW t \in Temp, \A m \in DOMAIN cong : cong[m].from # t
  PROVE  Leader(t) = t
<1>1. {t} \in SUBSET Operand
  BY DEF Operand
<1> QED BY <1>1, LeaderStays

(* Of the congruences in force at the cursor, only those of temporaries     *)
(* with one definition, all behind it, may be used.                         *)
LEMMA LinksAtCursor ==
  ASSUME \A prog \in Programs : LabelsDistinct(prog), AllInv, stage = "gvn", cur # 0, NEW x \in Reached, x = cur,
         NEW m \in DOMAIN cong
  PROVE  /\ cong[m].from \in Temp /\ cong[m].to \in Temp
         /\ Single(cong[m].from) => Past(Birth[cong[m].from], x)
         /\ Avail(cong[m].from, x) => Single(cong[m].from)
<1> PICK f : f = cong[m].from
  OBVIOUS
<1>1. PInv /\ OwnBlockOnly /\ LedInv /\ SsaForm /\ DataInv /\ BlocksInv
  BY BlocksSound DEF AllInv, SemInv, PInv
<1>2. f \in Temp /\ cong[m].to \in Temp
  <2>1. cong[m] \in Pair
    BY <1>1 DEF DataInv
  <2> QED BY <2>1 DEF Pair
<1>3. PICK j \in DOMAIN walk : \E q \in Nat : LedAt(m, j, q)
  BY <1>1 DEF LedInv
<1>4. PICK q \in Nat : LedAt(m, j, q)
  BY <1>3
<1>5. Past(q, x) /\ q \in Def(f)
  BY <1>1, <1>4, BehindIsPast DEF LedAt
<1>6. Avail(f, x) => Single(f)
  BY <1>1, <1>2, <1>5, MergedNotAvail
<1>7. Single(f) => Past(Birth[f], x)
  BY <1>5 DEF Single
<1> QED BY <1>2, <1>6, <1>7

(* A leader leads nowhere.                                                  *)
LEMMA LeadersSettled ==
  ASSUME \A prog \in Programs : LabelsDistinct(prog), AllInv, FlatInv, stage = "gvn", cur # 0,
         NEW x \in Reached, x = cur, NEW t \in Temp, Avail(t, x)
  PROVE  /\ Leader(t) \in Temp /\ Avail(Leader(t), x) /\ \A m \in DOMAIN cong : cong[m].from # Leader(t)
         /\ \/ Leader(t) = t
            \/ Single(t) /\ \E k \in DOMAIN cong : cong[k].from = t /\ cong[k].to = Leader(t)
<1>1. DataInv /\ BlocksInv
  BY BlocksSound DEF AllInv, PInv
<1>2. CASE \A m \in DOMAIN cong : cong[m].from # t
  BY <1>1, <1>2, LeaderIsItself
<1>3. ASSUME NEW k \in DOMAIN cong, cong[k].from = t
      PROVE  /\ Leader(t) = cong[k].to /\ Leader(t) \in Temp /\ Avail(Leader(t), x) /\ Single(t)
             /\ \A m \in DOMAIN cong : cong[m].from # Leader(t)
  <2> PICK w : w = cong[k].to
    OBVIOUS
  <2>1. w \in Temp /\ Single(t) /\ Past(Birth[t], x)
    BY <1>3, LinksAtCursor
  <2>2. Avail(w, Birth[t]) /\ Settled(w)
    <3>1. cong[k] \in Congs
      BY DEF Congs
    <3> QED BY <1>3, <2>1, <3>1 DEF FlatInv
  <2>3. Avail(w, x)
    BY <1>1, <2>1, <2>2, PastIsTransitive DEF Avail
  <2>4. ASSUME NEW m \in DOMAIN cong PROVE cong[m].from # w
    <3>1. cong[m] \in Congs
      BY DEF Congs
    <3>2. cong[m].from = w => Single(w)
      BY <2>3, LinksAtCursor
    <3> QED BY <2>2, <3>1, <3>2 DEF Settled
  <2>5. Leader(t) = w
    <3>1. \A m \in DOMAIN cong : cong[m].from = t => m = k
      BY <1>3 DEF FlatInv
    <3> QED BY <1>1, <1>3, <2>1, <2>4, <3>1, LeaderIsOneHop
  <2> QED BY <2>1, <2>3, <2>4, <2>5
<1> QED BY <1>2, <1>3

(* An operand that may be used leads to its leader, and nowhere else.       *)
LEMMA SettledNothing ==
  ASSUME DataInv PROVE Settled(NoTemp)
<1>1. \A k \in DOMAIN cong : cong[k] \in Pair
  BY DEF DataInv
<1> QED BY <1>1, PipelineAssumption DEF Settled, Congs, Pair

LEMMA LeadsToLeader ==
  ASSUME \A prog \in Programs : LabelsDistinct(prog), AllInv, FlatInv, stage = "gvn", cur # 0,
         NEW x \in Reached, x = cur, NEW s \in Operand, Usable(s, x), NEW j
  PROVE  /\ Leader(s) \in Operand /\ Settled(Leader(s))
         /\ CongsTo(j) = Len(cong) => Leads(s, Leader(s), j)
         /\ \A w : Leads(s, w, j) => w = Leader(s)
<1>1. DataInv
  BY DEF AllInv, PInv
<1> PICK l : l = Leader(s)
  OBVIOUS
<1>2. CASE s = NoTemp
  <2>1. l = s /\ Settled(s) /\ \A k \in DOMAIN cong : cong[k].from # s
    <3>1. \A k \in DOMAIN cong : cong[k] \in Pair
      BY <1>1 DEF DataInv
    <3> QED BY <1>1, <1>2, <3>1, LeaderNothing, SettledNothing, PipelineAssumption DEF Pair
  <2> QED BY <2>1 DEF Leads
<1>3. CASE s # NoTemp
  <2>1. s \in Temp /\ Avail(s, x)
    BY <1>3 DEF Usable, Operand
  <2>2. /\ l \in Temp /\ \A m \in DOMAIN cong : cong[m].from # l
        /\ \/ l = s
           \/ Single(s) /\ \E k \in DOMAIN cong : cong[k].from = s /\ cong[k].to = l
    BY <2>1, LeadersSettled
  <2>3. l \in Operand /\ Settled(l)
    BY <2>2 DEF Operand, Settled, Congs
  <2>4. CongsTo(j) = Len(cong) => Leads(s, l, j)
    <3>1. \A k \in DOMAIN cong : k <= Len(cong)
      BY <1>1 DEF DataInv
    <3> QED BY <2>2, <2>3, <3>1 DEF Leads
  <2>5. ASSUME NEW w, Leads(s, w, j) PROVE w = l
    <3>1. CASE w = s /\ Settled(s)
      BY <2>2, <3>1 DEF Settled, Congs
    <3>2. CASE \E k \in DOMAIN cong : cong[k].from = s /\ cong[k].to = w
      BY <2>2, <3>2 DEF FlatInv
    <3> QED BY <2>5, <3>1, <3>2 DEF Leads
  <2> QED BY <2>3, <2>4, <2>5
<1> QED BY <1>2, <1>3

(* A congruence that is recorded replaces the one there was.                *)
LEMMA CongruentUnique ==
  ASSUME DataInv, NEW a \in Temp, NEW b \in Temp, cong' = Congruent(a, b),
         \A k, m \in DOMAIN cong : cong[k].from = cong[m].from => k = m
  PROVE  \A k, m \in DOMAIN cong' : cong'[k].from = cong'[m].from => k = m
<1>1. /\ \A i \in DOMAIN cong : cong'[i].from = cong[i].from
      /\ \A i \in DOMAIN cong' \ DOMAIN cong : cong'[i].from = a /\ i = Len(cong) + 1
  BY CongruentAdds
<1>2. CASE \E i \in DOMAIN cong : cong[i].from = a
  <2>1. DOMAIN cong' = DOMAIN cong
    BY <1>2 DEF Congruent
  <2> QED BY <1>1, <2>1
<1>3. CASE \A i \in DOMAIN cong : cong[i].from # a
  BY <1>1, <1>3
<1> QED BY <1>2, <1>3

(* A congruence recorded at the cursor keeps the others flat.               *)
LEMMA FlatAdds ==
  ASSUME \A prog \in Programs : LabelsDistinct(prog), AllInv, FlatInv, stage = "gvn", cur # 0,
         NEW c \in Reached, c = cur, NEW u \in Temp, NEW b \in Temp, c \in Def(u), Avail(b, c),
         cong' = Congruent(u, b), table' = table, nodes' = nodes, first' = first, source' = source
  PROVE  /\ FlatInv'
         /\ \A t : t # u /\ Settled(t) => Settled(t)'
         /\ \A k \in DOMAIN cong : cong[k].from # u => k \in DOMAIN cong' /\ cong'[k] = cong[k]
         /\ Len(cong') >= Len(cong)
<1> PICK w : w = Leader(b)
  OBVIOUS
<1>1. PInv /\ SsaForm /\ DataInv /\ BlocksInv
  BY BlocksSound DEF AllInv, SemInv, PInv
<1>2. w \in Temp /\ Avail(w, c) /\ \A m \in DOMAIN cong : cong[m].from # w
  BY LeadersSettled
<1>3. ~Avail(u, c) /\ (Single(u) => Birth[u] = c) /\ u # w
  BY <1>1, <1>2, DefNotAvail DEF Single
<1>4. \A g \in Congs' : g \in Congs \/ (g.from = u /\ g.to = w)
  <2>1. \A i \in DOMAIN cong' : \/ i \in DOMAIN cong /\ cong'[i] = cong[i]
                                \/ cong'[i].from = u /\ cong'[i].to = w
    BY <1>1, CongruentAdds
  <2> QED BY <2>1 DEF Congs
<1>5. \A t : (Single(t)' <=> Single(t)) /\ \A x : Avail(t, x)' <=> Avail(t, x)
  BY FormKept
<1>6. \A k, m \in DOMAIN cong' : cong'[k].from = cong'[m].from => k = m
  BY <1>1, CongruentUnique DEF FlatInv
<1>7. ASSUME NEW g \in Congs, Single(g.from) PROVE g.to # u
  <2> PICK d : d = Birth[g.from]
    OBVIOUS
  <2>1. Past(d, c) /\ Avail(g.to, d)
    <3>1. PICK k \in DOMAIN cong : g = cong[k]
      BY DEF Congs
    <3> QED BY <1>7, <3>1, LinksAtCursor DEF FlatInv
  <2>2. Avail(g.to, c)
    BY <1>1, <2>1, PastIsTransitive DEF Avail
  <2> QED BY <1>3, <2>2
<1>8. ASSUME NEW r \in Rows PROVE r.dst # u
  <2>1. source[c].op # "label"
    BY DEF Def, Defines, SideEffect
  <2>3. Avail(r.dst, c)
    BY <1>1, <2>1, RowsExecuted DEF AllInv, SemInv
  <2> QED BY <1>3, <2>3
<1>9. ASSUME NEW t, t # u, Settled(t) PROVE Settled(t)'
  BY <1>4, <1>5, <1>9 DEF Settled
<1>10. ASSUME NEW g \in Congs', Single(g.from) PROVE Avail(g.to, Birth[g.from]) /\ Settled(g.to)'
  <2>1. CASE g \in Congs
    <3>1. g.to # u /\ Avail(g.to, Birth[g.from]) /\ Settled(g.to)
      BY <1>7, <1>10, <2>1 DEF FlatInv
    <3> PICK t : t = g.to
      OBVIOUS
    <3>2. Settled(t)'
      BY <1>9, <3>1
    <3> QED BY <3>1, <3>2
  <2>2. CASE g.from = u /\ g.to = w
    <3>1. Settled(w)
      BY <1>2 DEF Settled, Congs
    <3>2. Settled(w)'
      BY <1>3, <1>9, <3>1
    <3> QED BY <1>2, <1>3, <1>10, <2>2, <3>2
  <2> QED BY <1>4, <2>1, <2>2
<1>11. ASSUME NEW r \in Rows' PROVE Settled(r.dst)'
  <2>1. r \in Rows
    BY DEF Rows
  <2> PICK t : t = r.dst
    OBVIOUS
  <2>2. t # u /\ Settled(t)
    BY <1>8, <2>1 DEF FlatInv
  <2> QED BY <1>9, <2>2
<1>12. ASSUME NEW g \in Congs', Single(g.from)' PROVE (Avail(g.to, Birth[g.from]) /\ Settled(g.to))'
  BY <1>5, <1>10, <1>12
<1>13. \A k \in DOMAIN cong : cong[k].from # u => k \in DOMAIN cong' /\ cong'[k] = cong[k]
  <2>1. Len(cong') >= Len(cong) /\ Len(cong') \in Nat /\ Len(cong) \in Nat
    BY <1>1, CongruentAdds
  <2>2. cong \in Seq(Pair) /\ cong' \in Seq(Pair)
    BY <1>1, CongruentType DEF DataInv
  <2>3. DOMAIN cong \subseteq DOMAIN cong'
    BY <2>1, <2>2
  <2>4. \A i \in DOMAIN cong : cong'[i].from = cong[i].from
    BY <1>1, CongruentAdds
  <2>5. \A i \in DOMAIN cong' : \/ i \in DOMAIN cong /\ cong'[i] = cong[i]
                                \/ cong'[i].from = u /\ cong'[i].to = w
    BY <1>1, CongruentAdds
  <2> QED BY <2>3, <2>4, <2>5
<1>14. Len(cong') >= Len(cong)
  BY <1>1, CongruentAdds
<1> QED BY <1>6, <1>9, <1>11, <1>12, <1>13, <1>14 DEF FlatInv

(* Control that the graph leads from the first node to the first node of a  *)
(* block gets to all of its nodes.                                          *)
LEMMA BlockIsReached ==
  ASSUME Computed, \A prog \in Programs : LabelsDistinct(prog), NEW y \in Block, first[y] \in Reached
  PROVE  NodesOf(y) \subseteq Reached
<1> DEFINE bad == {r \in NodesOf(y) : r \notin Reached}
<1> SUFFICES ASSUME bad # {} PROVE FALSE
  OBVIOUS
<1>1. Partition /\ BlocksInv
  BY DEF Computed, PhasesInv, Partition
<1>2. NodesOf(y) \subseteq Nat /\ first[y] \in Nat /\ Last(y) \in Nat
  <2>1. DOMAIN nodes \subseteq Nat
    BY <1>1, NodesType
  <2>2. NodesOf(y) \subseteq DOMAIN nodes /\ first[y] \in NodesOf(y) /\ Last(y) \in Nat
    BY <1>1, NodesOfBlocks
  <2> QED BY <2>1, <2>2
<1>3. PICK r \in bad : \A s \in bad : r <= s
  <2>1. bad \in SUBSET Nat
    BY <1>2
  <2> QED BY <2>1, LeastExists
<1>4. r # first[y] /\ r - 1 \in NodesOf(y) /\ r - 1 # Last(y) /\ r \in Nat
  BY <1>2, <1>3 DEF NodesOf
<1>5. r - 1 \in Reached
  BY <1>3, <1>4
<1>6. (r - 1) + 1 \in Flow(r - 1)
  BY <1>1, <1>4, FlowFollowsBlocks
<1>7. (r - 1) + 1 = r
  BY <1>4
<1> QED BY <1>1, <1>3, <1>5, <1>6, <1>7, ReachedFacts

(* A rooted block that has the first one in its set can be reached from it. *)
LEMMA RootedIsReached ==
  ASSUME Computed, \A prog \in Programs : LabelsDistinct(prog), NEW b \in RootedBlocks, 1 \in dom[b]
  PROVE  NodesOf(b) \subseteq Reached
<1> DEFINE S == {y \in Block : first[y] \in Reached \/ y \in Without(1)}
<1>1. Partition /\ BlocksInv /\ 1 \in Block /\ first[1] = 1
  BY NodesType DEF Computed, PhasesInv, Partition, BlocksInv, Block
<1>2. ClosedFor(Without(1), 1)
  BY <1>1, WithoutIsClosed
<1>3. 1 \in S
  BY <1>1, ReachedFacts
<1>4. Heads \subseteq S
  <2>1. \A h \in Heads : h # 1 => h \in Without(1) /\ h \in Block
    BY <1>2 DEF ClosedFor, Heads
  <2> QED BY <1>3, <2>1
<1>5. ASSUME NEW y \in S, NEW z \in Successors(y) PROVE z \in S
  <2>1. y \in Block /\ z \in Block /\ first[z] \in Flow(Last(y)) /\ Last(y) \in NodesOf(y)
    BY <1>1, FlowFollowsBlocks, NodesOfBlocks
  <2>2. CASE y \in Without(1)
    <3>1. z # 1 => z \in Without(1)
      BY <1>2, <2>2 DEF ClosedFor
    <3> QED BY <1>3, <2>1, <3>1
  <2>3. CASE first[y] \in Reached
    <3>1. Last(y) \in Reached
      BY <2>1, <2>3, BlockIsReached
    <3>2. first[z] \in Reached
      BY <1>1, <2>1, <3>1, ReachedFacts
    <3> QED BY <2>1, <3>2
  <2> QED BY <2>2, <2>3
<1>6. b \in S
  <2>1. S \in SUBSET Block
    OBVIOUS
  <2> HIDE DEF S
  <2> QED BY <1>4, <1>5, <2>1, RootedMeets
<1>7. b \in Block /\ first[b] \in Reached
  BY <1>6 DEF Without
<1> QED BY <1>7, BlockIsReached

(* The walk stays where the graph leads from the first node.                *)
LEMMA WalkIsReached ==
  ASSUME \A prog \in Programs : LabelsDistinct(prog), PInv, Rooted, stage = "gvn", NEW j \in DOMAIN walk
  PROVE  NodesOf(Path(j)) \subseteq Reached
<1>1. /\ DOMAIN walk = 1 .. Len(walk) /\ Len(walk) \in Nat /\ pc = "done" /\ Path(j) \in Block
      /\ PathInv
  BY TopFacts DEF PInv, ScopeInv, PathInv
<1>2. Computed /\ dom[1] = {1}
  BY <1>1, TreeFacts DEF PInv, GraphInv, PhasesInv, SweepInv
<1>3. 1 \in dom[Path(j)]
  <2>1. CASE j = 1
    BY <1>1, <1>2, <2>1 DEF PathInv
  <2>2. CASE j # 1
    <3>1. 1 \in DOMAIN walk /\ 1 < j
      BY <1>1, <2>2
    <3>2. Path(1) = 1 /\ Path(1) \in dom[Path(j)]
      BY <1>1, <3>1 DEF PathInv
    <3> QED BY <3>2
  <2> QED BY <2>1, <2>2
<1>4. Path(j) \in RootedBlocks
  BY <1>1 DEF Rooted
<1> QED BY <1>2, <1>3, <1>4, RootedIsReached

(* What one node of the walk changes.                                       *)
LEMMA NumberFacts ==
  ASSUME \A prog \in Programs : LabelsDistinct(prog), AllInv, Rooted, GvnNode, NEW c, c = cur
  PROVE  /\ stage = "gvn" /\ c # 0 /\ c \in Reached /\ c \in DOMAIN ir /\ c \in DOMAIN source
         /\ Listed' = Listed /\ DOMAIN ir' = DOMAIN ir /\ \A p \in DOMAIN ir : p # c => ir'[p] = ir[p]
         /\ ir'[c].op \in Pure => ir'[c] = ir[c]
         /\ c \in Computing => /\ ir[c].src1 \in Operand /\ Usable(ir[c].src1, c)
                               /\ ir[c].src2 \in Operand /\ Usable(ir[c].src2, c)
<1> PICK n : n = ir[c]
  OBVIOUS
<1>1. SourceInv /\ LinkInv /\ NodesInv
  BY DEF AllInv, SemInv, PInv
<1>2. c \in DOMAIN ir /\ c \in DOMAIN source /\ n \in IRNode /\ ir \in Seq(IRNode)
  BY <1>1, SizeFacts DEF LinkInv, GvnNode, Places, SourceInv
<1>3. c \in Reached
  <2>1. stage = "gvn" /\ c \in NodesOf(Top.block)
    BY DEF GvnNode, AllInv, OwnBlockOnly
  <2>2. Len(walk) \in DOMAIN walk /\ Top.block = Path(Len(walk))
    BY <2>1, TopFacts DEF AllInv, PInv
  <2> QED BY <2>1, <2>2, WalkIsReached DEF AllInv
<1>4. ir' = ir \/ \E canon : ir' = [ir EXCEPT ![c] = Forward(n, canon)]
  BY DEF GvnNode
<1>5. DOMAIN ir' = DOMAIN ir /\ \A p \in DOMAIN ir : p # c => ir'[p] = ir[p]
  BY <1>2, <1>4
<1>6. ASSUME ir'[c].op \in Pure PROVE ir'[c] = ir[c]
  <2>1. SUFFICES ASSUME NEW canon, ir' = [ir EXCEPT ![c] = Forward(n, canon)] PROVE FALSE
    BY <1>4
  <2>2. ir'[c] = Forward(n, canon)
    BY <1>2, <2>1
  <2>3. Forward(n, canon).op = "copy"
    BY <1>2 DEF Forward, IRNode
  <2> QED BY <1>6, <2>2, <2>3 DEF Pure, Commutative
<1>7. /\ n.src1 \in Operand /\ Usable(n.src1, c)
      /\ n.src2 \in Operand /\ Usable(n.src2, c)
  <2>1. Stands(n, c)
    BY <1>1, <1>2, <1>3 DEF NodesInv
  <2> QED BY <1>2, <2>1, OperandsUsable
<1> QED BY <1>2, <1>3, <1>5, <1>6, <1>7 DEF GvnNode, Listed

(* The node under the cursor: found, or entered into the table while there  *)
(* is room.                                                                 *)
LEMMA PureCases ==
  ASSUME \A prog \in Programs : LabelsDistinct(prog), AllInv, Rooted, ~full, GvnNode,
         NEW c, c = cur, c \in Computing
  PROVE  \/ Known(ir[c]) # {} /\ c \notin Computing'
         \/ Known(ir[c]) = {} /\ table' = Append(table, Entry(ir[c])) /\ ir' = ir /\ cong' = cong
<1> PICK n : n = ir[c]
  OBVIOUS
<1>1. c \notin freed /\ n.op \in Pure /\ n.dst # NoTemp /\ n.op # "copy" /\ c \in DOMAIN ir /\ n \in IRNode
  BY NumberFacts, SizeFacts DEF Computing, Listed, Pure, Commutative, AllInv, PInv
<1>2. CASE Known(n) # {}
  <2>1. ir' = [ir EXCEPT ![c] = Forward(n, table[Least(Known(n))].dst)]
    BY <1>1, <1>2 DEF GvnNode, IsCopy
  <2> PICK canon : canon = table[Least(Known(n))].dst
    OBVIOUS
  <2>2. ir'[c] = Forward(n, canon)
    BY <1>1, <2>1
  <2>3. Forward(n, canon).op = "copy"
    BY <1>1 DEF Forward, IRNode
  <2>4. (ir[c].op)' = "copy"
    BY <2>2, <2>3
  <2> QED BY <1>2, <2>4 DEF Computing, Pure, Commutative
<1>3. CASE Known(n) = {}
  <2>1. table' = Inserted(n) /\ ir' = ir /\ cong' = cong
    BY <1>1, <1>3 DEF GvnNode, IsCopy
  <2>2. Len(table) < MaxEntries
    BY DEF GvnNode, AllInv, PInv, DataInv
  <2> QED BY <1>3, <2>1, <2>2 DEF Inserted
<1> QED BY <1>2, <1>3

(* Numbering a node keeps the tables flat and what they answer.             *)
LEMMA FlatNumbers ==
  ASSUME \A prog \in Programs : LabelsDistinct(prog), AllInv, Rooted, FlatInv, GvnNode,
         nodes' = nodes, first' = first, source' = source, NEW c, c = cur
  PROVE  /\ FlatInv'
         /\ \A t \in Temp : Avail(t, c) /\ Settled(t) => Settled(t)'
         /\ \A k \in DOMAIN cong : Avail(cong[k].from, c) => k \in DOMAIN cong' /\ cong'[k] = cong[k]
         /\ \A i \in DOMAIN table : i \in DOMAIN table' /\ table'[i] = table[i]
         /\ Len(cong') >= Len(cong) /\ Len(table') >= Len(table)
         /\ Len(table) \in Nat /\ Len(table') \in Nat /\ Len(cong) \in Nat /\ Len(cong') \in Nat
<1> PICK n : n = ir[c]
  OBVIOUS
<1>1. /\ SourceInv /\ LinkInv /\ NodesInv /\ DataInv /\ BlocksInv /\ SsaForm /\ PInv /\ DataInv'
      /\ stage = "gvn" /\ cur # 0
  <2>1. DataInv'
    BY DataStep DEF AllInv, PInv, PipeNext
  <2> QED BY <2>1, BlocksSound DEF AllInv, SemInv, PInv, GvnNode
<1>2. c \in Reached /\ c \in DOMAIN ir /\ c \in DOMAIN source
  BY NumberFacts
<1>3. \A t : (Single(t)' <=> Single(t)) /\ \A x : Avail(t, x)' <=> Avail(t, x)
  BY FormKept
<1>4. Len(table) \in Nat /\ Len(table') \in Nat /\ Len(cong) \in Nat /\ Len(cong') \in Nat
  BY <1>1 DEF DataInv
<1>5. ASSUME n.dst \in Temp, n.op \notin SideEffect PROVE c \in Def(n.dst) /\ ~Avail(n.dst, c)
  <2>1. c \in Def(n.dst)
    BY <1>1, <1>2, <1>5, DefFacts, PipelineAssumption
  <2> QED BY <1>1, <1>2, <1>5, <2>1, DefNotAvail
<1>6. CASE UNCHANGED <<ir, cong, table>>
  <2>1. Congs' = Congs /\ Rows' = Rows /\ \A t : Settled(t)' <=> Settled(t)
    BY <1>3, <1>6 DEF Congs, Rows, Settled
  <2>2. ASSUME NEW g \in Congs', Single(g.from)' PROVE (Avail(g.to, Birth[g.from]) /\ Settled(g.to))'
    <3> PICK t : t = g.to
      OBVIOUS
    <3>1. Avail(t, Birth[g.from]) /\ Settled(t)
      BY <1>1, <1>3, <2>1, <2>2 DEF FlatInv
    <3>2. (Avail(t, Birth[g.from]) /\ Settled(t))'
      BY <1>3, <2>1, <3>1
    <3> QED BY <3>2
  <2>3. ASSUME NEW r \in Rows' PROVE Settled(r.dst)'
    <3> PICK t : t = r.dst
      OBVIOUS
    <3>1. Settled(t)'
      BY <1>1, <2>1 DEF FlatInv
    <3> QED BY <3>1
  <2>4. FlatInv'
    BY <1>1, <1>6, <2>2, <2>3 DEF FlatInv
  <2> QED BY <1>4, <1>6, <2>1, <2>4
<1>7. ASSUME NEW b \in Temp, n.dst \in Temp, n.op \notin SideEffect, Avail(b, c),
             cong' = Congruent(n.dst, b), table' = table
      PROVE  /\ FlatInv'
             /\ \A t \in Temp : Avail(t, c) /\ Settled(t) => Settled(t)'
             /\ \A k \in DOMAIN cong : Avail(cong[k].from, c) => k \in DOMAIN cong' /\ cong'[k] = cong[k]
             /\ Len(cong') >= Len(cong)
  <2> PICK u : u = n.dst
    OBVIOUS
  <2>1. /\ FlatInv' /\ Len(cong') >= Len(cong)
        /\ \A t : t # u /\ Settled(t) => Settled(t)'
        /\ \A k \in DOMAIN cong : cong[k].from # u => k \in DOMAIN cong' /\ cong'[k] = cong[k]
    BY <1>1, <1>2, <1>5, <1>7, FlatAdds
  <2> QED BY <1>5, <1>7, <2>1
<1>8. CASE /\ c \in DOMAIN ir \ freed /\ n.op = "copy" /\ n.dst \in Temp /\ n.src1 \in Temp
           /\ cong' = Congruent(n.dst, n.src1) /\ UNCHANGED <<ir, table>>
  <2>1. Avail(n.src1, c)
    <3>1. Stands(n, c)
      BY <1>1, <1>2 DEF NodesInv
    <3>2. n.src1 \in Uses(n)
      BY <1>8, PipelineAssumption DEF Uses
    <3> QED BY <3>1, <3>2 DEF Stands
  <2>2. n.op \notin SideEffect
    BY <1>8 DEF SideEffect
  <2> QED BY <1>4, <1>7, <1>8, <2>1, <2>2
<1>9. CASE /\ n.op \in Pure /\ n.dst \in Temp /\ Known(n) # {} /\ table' = table
           /\ \E canon \in Temp : /\ canon = table[Least(Known(n))].dst
                                  /\ cong' = Congruent(n.dst, canon)
  <2>1. PICK canon \in Temp : canon = table[Least(Known(n))].dst /\ cong' = Congruent(n.dst, canon)
    BY <1>9
  <2>2. Avail(canon, c)
    <3>1. source[c].op # "label"
      BY <1>1, <1>2, <1>9, DefFacts, PipelineAssumption DEF Pure, Commutative, SideEffect
    <3>2. table[Least(Known(n))] \in Rows
      BY <1>1, <1>9, CanonType DEF Rows
    <3> QED BY <1>1, <1>2, <2>1, <3>1, <3>2, RowsExecuted DEF AllInv, SemInv
  <2>3. n.op \notin SideEffect
    BY <1>9 DEF SideEffect, Pure, Commutative
  <2> QED BY <1>4, <1>7, <1>9, <2>1, <2>2, <2>3
<1>10. CASE n.op \in Pure /\ n.dst \in Temp /\ table' = Inserted(n) /\ cong' = cong
  <2> PICK r : r = Entry(n)
    OBVIOUS
  <2>1. r.dst = n.dst /\ Rows' \subseteq Rows \cup {r} /\ Congs' = Congs
    BY <1>1, <1>10, RowInserted DEF Entry, Congs
  <2>2. \A t : Settled(t)' <=> Settled(t)
    BY <1>3, <2>1 DEF Settled
  <2>3. ASSUME NEW g \in Congs, g.from = n.dst, Single(n.dst) PROVE FALSE
    <3>1. PICK k \in DOMAIN cong : g = cong[k]
      BY DEF Congs
    <3>2. Past(Birth[n.dst], c)
      BY <1>1, <1>2, <2>3, <3>1, LinksAtCursor
    <3>3. n.op \notin SideEffect
      BY <1>10 DEF Pure, Commutative, SideEffect
    <3> QED BY <1>5, <1>10, <2>3, <3>2, <3>3 DEF Avail
  <2>4. Settled(n.dst)
    BY <2>3 DEF Settled
  <2>5. ASSUME NEW g \in Congs', Single(g.from)' PROVE (Avail(g.to, Birth[g.from]) /\ Settled(g.to))'
    <3> PICK t : t = g.to
      OBVIOUS
    <3>1. Avail(t, Birth[g.from]) /\ Settled(t)
      BY <1>1, <1>3, <2>1, <2>5 DEF FlatInv
    <3>2. (Avail(t, Birth[g.from]) /\ Settled(t))'
      BY <1>3, <2>2, <3>1
    <3> QED BY <3>2
  <2>6. ASSUME NEW s \in Rows' PROVE Settled(s.dst)'
    <3> PICK t : t = s.dst
      OBVIOUS
    <3>1. Settled(t)
      BY <1>1, <2>1, <2>4 DEF FlatInv
    <3>2. Settled(t)'
      BY <2>2, <3>1
    <3> QED BY <3>2
  <2>7. FlatInv'
    BY <1>1, <1>10, <2>5, <2>6 DEF FlatInv
  <2>8. table \in Seq(Row) /\ Len(table) \in Nat
    BY <1>1 DEF DataInv
  <2>9. /\ \A i \in DOMAIN table : i \in DOMAIN table' /\ table'[i] = table[i]
        /\ Len(table') >= Len(table)
    <3>1. CASE table' = Append(table, r)
      BY <2>8, <3>1
    <3>2. CASE table' = table
      BY <2>8, <3>2
    <3> QED BY <1>10, <3>1, <3>2 DEF Inserted
  <2> QED BY <1>4, <1>10, <2>2, <2>7, <2>9
<1> QED BY <1>1, <1>6, <1>8, <1>9, <1>10, NumberCases

(* What an operand leads to, numbering a node that it may be used at keeps. *)
LEMMA LeadsNumbers ==
  ASSUME \A prog \in Programs : LabelsDistinct(prog), AllInv, Rooted, FlatInv, GvnNode,
         nodes' = nodes, first' = first, source' = source, NEW c, c = cur,
         NEW s \in Operand, Usable(s, c), NEW j \in DOMAIN walk, NEW w, Leads(s, w, j)
  PROVE  Leads(s, w, j)'
<1>1. DataInv /\ DataInv' /\ walk' = walk
  BY DataStep DEF AllInv, PInv, PipeNext, GvnNode
<1>2. \A t : Single(t)' <=> Single(t)
  BY FormKept
<1>3. /\ \A t \in Temp : Avail(t, c) /\ Settled(t) => Settled(t)'
      /\ \A k \in DOMAIN cong : Avail(cong[k].from, c) => k \in DOMAIN cong' /\ cong'[k] = cong[k]
      /\ Len(cong') >= Len(cong) /\ Len(cong) \in Nat /\ Len(cong') \in Nat
  BY FlatNumbers
<1>4. CASE w = s /\ Settled(s)
  <2>1. CASE s = NoTemp
    <3>1. Settled(NoTemp)'
      BY <1>1, SettledNothing, PTL
    <3>2. Settled(s)'
      BY <2>1, <3>1
    <3> QED BY <1>4, <3>2 DEF Leads
  <2>2. CASE s # NoTemp
    <3>1. Settled(s)'
      BY <1>3, <1>4, <2>2 DEF Usable, Operand
    <3> QED BY <1>4, <3>1 DEF Leads
  <2> QED BY <2>1, <2>2
<1>5. CASE Single(s) /\ \E k \in DOMAIN cong : k <= CongsTo(j) /\ cong[k].from = s /\ cong[k].to = w
  <2>1. PICK k \in DOMAIN cong : k <= CongsTo(j) /\ cong[k].from = s /\ cong[k].to = w
    BY <1>5
  <2>2. Avail(s, c)
    <3>1. s # NoTemp
      <4>1. cong[k] \in Pair
        BY <1>1 DEF DataInv
      <4> QED BY <2>1, <4>1, PipelineAssumption DEF Pair
    <3> QED BY <3>1 DEF Usable
  <2>3. k \in DOMAIN cong' /\ cong'[k] = cong[k]
    BY <1>3, <2>1, <2>2
  <2>4. k <= CongsTo(j)'
    <3>1. k \in Nat
      BY <1>1 DEF DataInv
    <3>2. CASE j < Len(walk)
      <4>1. CongsTo(j)' = CongsTo(j)
        BY <1>1, <3>2 DEF CongsTo
      <4> QED BY <2>1, <4>1
    <3>3. CASE ~(j < Len(walk))
      <4>1. CongsTo(j) = Len(cong) /\ CongsTo(j)' = Len(cong')
        BY <1>1, <3>3 DEF CongsTo
      <4> QED BY <1>3, <2>1, <3>1, <4>1
    <3> QED BY <3>2, <3>3
  <2> QED BY <1>2, <1>5, <2>1, <2>3, <2>4 DEF Leads
<1> QED BY <1>4, <1>5 DEF Leads

(* One node at a time comes behind the cursor, of those in the list.        *)
LEMMA BehindNew ==
  ASSUME EndsKept, PInv, OwnBlockOnly, GvnNode, NEW c, c = cur,
         NEW j \in DOMAIN walk, NEW q \in Listed, Behind(j, q)'
  PROVE  Behind(j, q) \/ (q = c /\ j = Len(walk))
<1> PICK b : b = Path(j)
  OBVIOUS
<1>1. stage = "gvn" /\ cur # 0 /\ walk' = walk /\ first' = first /\ nodes' = nodes /\ cur' = AfterNode
  BY DEF GvnNode, vars
<1>2. q \in NodesOf(b)
  <2>1. NodesOf(Path(j))' = NodesOf(Path(j))
    BY <1>1 DEF NodesOf, Last, Path
  <2> QED BY <2>1 DEF Behind
<1>3. CASE j # Len(walk)
  BY <1>2, <1>3 DEF Behind
<1>4. CASE j = Len(walk)
  <2>1. /\ b = Top.block /\ Last(b) \in Listed /\ c \in Places /\ Places \subseteq Nat /\ q \in Nat
        /\ next \in [Places -> Places]
    BY <1>1, <1>4, TopFacts, LastIsListed, SizeFacts DEF PInv, LinkInv, Places, Listed
  <2>2. cur' # 0 => q < cur'
    BY <1>1, <1>4 DEF Behind
  <2>3. CASE c = Last(b)
    <3>1. q <= c
      <4>1. first[b] \in Nat /\ Last(b) \in Nat
        <5>1. b \in Block /\ pc = "done"
          BY <1>1, <2>1, TopFacts DEF PInv
        <5> QED BY <2>1, <2>3, <5>1, TreeFacts, NodesType DEF PInv
      <4> QED BY <1>2, <2>1, <2>3, <4>1 DEF NodesOf
    <3> QED BY <1>2, <1>4, <2>1, <3>1 DEF Behind
  <2>4. CASE c # Last(b)
    <3>1. cur' = next[c]
      BY <1>1, <2>1, <2>4 DEF AfterNode
    <3>2. c < q => next[c] # 0 /\ next[c] <= q /\ next[c] \in Nat
      BY <2>1 DEF PInv, LinkInv
    <3>3. ~ (c < q)
      BY <2>1, <2>2, <3>1, <3>2
    <3> QED BY <1>2, <1>4, <2>1, <3>3 DEF Behind
  <2> QED BY <2>3, <2>4
<1> QED BY <1>3, <1>4

(* A node that is numbered is found from then on, while there is room.      *)
LEMMA HeldNumbers ==
  ASSUME \A prog \in Programs : LabelsDistinct(prog), EndsKept, AllInv, Rooted, FlatInv, HeldInv, GvnNode,
         nodes' = nodes, first' = first, source' = source
  PROVE  HeldInv'
<1> PICK c : c = cur
  OBVIOUS
<1> SUFFICES ASSUME ~full PROVE HeldInv'
  BY DEF HeldInv, GvnNode
<1>1. /\ PInv /\ OwnBlockOnly /\ NodesInv /\ DataInv /\ BlocksInv /\ SourceInv
      /\ stage = "gvn" /\ cur # 0 /\ walk' = walk
  BY BlocksSound DEF AllInv, SemInv, PInv, GvnNode
<1>2. /\ c \in Reached /\ c \in DOMAIN ir /\ Listed' = Listed /\ DOMAIN ir' = DOMAIN ir
      /\ \A p \in DOMAIN ir : p # c => ir'[p] = ir[p]
      /\ ir'[c].op \in Pure => ir'[c] = ir[c]
  BY NumberFacts
<1>3. /\ \A i \in DOMAIN table : i \in DOMAIN table' /\ table'[i] = table[i]
      /\ Len(cong') >= Len(cong) /\ Len(table') >= Len(table)
      /\ Len(table) \in Nat /\ Len(table') \in Nat /\ Len(cong) \in Nat /\ Len(cong') \in Nat
  BY FlatNumbers
<1>4. walk \in Seq(Scope) /\ Len(walk) \in Nat /\ DOMAIN walk = 1 .. Len(walk)
  BY <1>1, TopFacts DEF PInv, ScopeInv
<1>5. ASSUME NEW j \in DOMAIN walk
      PROVE  /\ RowsTo(j)' = IF j < Len(walk) THEN RowsTo(j) ELSE Len(table')
             /\ CongsTo(j) = IF j < Len(walk) THEN CongsTo(j) ELSE Len(cong)
             /\ \A i \in Nat : i <= RowsTo(j) => i <= RowsTo(j)'
  <2>1. j < Len(walk) => RowsTo(j)' = RowsTo(j)
    BY <1>1 DEF RowsTo
  <2>2. ~(j < Len(walk)) => /\ RowsTo(j) = Len(table) /\ RowsTo(j)' = Len(table')
                            /\ CongsTo(j) = Len(cong)
    BY <1>1 DEF RowsTo, CongsTo
  <2> QED BY <1>3, <2>1, <2>2
<1>6. ASSUME NEW j \in DOMAIN walk, NEW p \in Computing', Behind(j, p)', NEW n, n = ir'[p]
      PROVE  Held(n, j)'
  <2>1. p \in Listed /\ p \in DOMAIN ir /\ n.op \in Pure /\ n = ir[p] /\ p \in Computing
    <3>1. p \in Listed /\ p \in DOMAIN ir /\ ir'[p].op \in Pure /\ ir'[p].dst # NoTemp
      BY <1>2, <1>6 DEF Computing, Listed
    <3>2. ir'[p] = ir[p]
      BY <1>2, <3>1
    <3> QED BY <1>6, <3>1, <3>2 DEF Computing
  <2>2. /\ p \in Reached
        /\ n.src1 \in Operand /\ n.src2 \in Operand /\ Usable(n.src1, p) /\ Usable(n.src2, p)
    <3>1. p \in NodesOf(Path(j))
      <4>1. NodesOf(Path(j))' = NodesOf(Path(j))
        BY <1>1 DEF NodesOf, Last, Path
      <4> QED BY <1>6, <4>1 DEF Behind
    <3>2. p \in Reached
      BY <1>1, <3>1, WalkIsReached
    <3>3. Stands(n, p) /\ n \in IRNode
      BY <1>1, <2>1, <3>2, SizeFacts DEF NodesInv
    <3> QED BY <3>2, <3>3, OperandsUsable
  <2>3. CASE p # c
    <3>1. Behind(j, p)
      BY <1>1, <1>6, <2>1, <2>3, BehindNew
    <3>2. Usable(n.src1, c) /\ Usable(n.src2, c)
      <4>1. Past(p, c)
        BY <1>1, <3>1, BehindIsPast
      <4> QED BY <1>1, <1>2, <2>2, <4>1, PastIsTransitive DEF Usable, Avail
    <3>3. Held(n, j)
      BY <1>1, <2>1, <3>1 DEF HeldInv
    <3>4. PICK i \in DOMAIN table : i <= RowsTo(j) /\ Answers(i, n, j)
      BY <3>3 DEF Held
    <3>5. i \in DOMAIN table' /\ table'[i] = table[i] /\ i <= RowsTo(j)'
      <4>1. i \in Nat
        BY <1>1 DEF DataInv
      <4> QED BY <1>3, <1>5, <4>1, <3>4
    <3>6. PICK a \in Operand, b \in Operand :
            /\ Leads(n.src1, a, j) /\ Leads(n.src2, b, j)
            /\ SameOperands(n.op, table[i].src1, table[i].src2, a, b)
      BY <3>4 DEF Answers
    <3>7. Leads(n.src1, a, j)' /\ Leads(n.src2, b, j)'
      <4> PICK s \in Operand : s = n.src1
        BY <2>2
      <4> PICK t \in Operand : t = n.src2
        BY <2>2
      <4>1. Leads(s, a, j)' /\ Leads(t, b, j)'
        BY <3>2, <3>6, LeadsNumbers
      <4> QED BY <4>1
    <3>8. Answers(i, n, j)'
      BY <3>4, <3>5, <3>6, <3>7 DEF Answers, Operand
    <3> QED BY <3>5, <3>8 DEF Held
  <2>4. CASE p = c
    <3>1. table' = Append(table, Entry(n))
      BY <1>6, <2>1, <2>4, PureCases
    <3>2. j = Len(walk)
      <4>1. ~Behind(j, c)
        BY <1>1, BehindIsPast DEF Past
      <4> QED BY <1>1, <1>6, <2>1, <2>4, <4>1, BehindNew
    <3> PICK i : i = Len(table) + 1
      OBVIOUS
    <3>3. i \in DOMAIN table' /\ table'[i] = Entry(n) /\ i = Len(table')
      <4>1. table \in Seq(Row)
        BY <1>1 DEF DataInv
      <4> QED BY <3>1, <4>1
    <3>4. i <= RowsTo(j)' /\ CongsTo(j) = Len(cong)
      BY <1>3, <1>4, <1>5, <3>2, <3>3
    <3>5. Entry(n).op = n.op /\ Entry(n).src1 = Leader(n.src1) /\ Entry(n).src2 = Leader(n.src2)
      BY DEF Entry
    <3> PICK a : a = Leader(n.src1)
      OBVIOUS
    <3> PICK b : b = Leader(n.src2)
      OBVIOUS
    <3>6. /\ a \in Operand /\ Leads(n.src1, a, j)
          /\ b \in Operand /\ Leads(n.src2, b, j)
      BY <1>1, <1>2, <2>2, <2>4, <3>4, LeadsToLeader
    <3>7. Leads(n.src1, a, j)' /\ Leads(n.src2, b, j)'
      <4> PICK s \in Operand : s = n.src1
        BY <2>2
      <4> PICK t \in Operand : t = n.src2
        BY <2>2
      <4>1. Usable(s, c) /\ Usable(t, c) /\ Leads(s, a, j) /\ Leads(t, b, j)
        BY <2>2, <2>4, <3>6
      <4>2. Leads(s, a, j)' /\ Leads(t, b, j)'
        BY <4>1, LeadsNumbers
      <4> QED BY <4>2
    <3>8. Answers(i, n, j)'
      BY <3>3, <3>5, <3>6, <3>7 DEF Answers, Operand, SameOperands
    <3> QED BY <3>3, <3>4, <3>8 DEF Held
  <2> QED BY <2>3, <2>4
<1> QED BY <1>1, <1>6 DEF HeldInv

(* Tables that lose entries stay flat.                                      *)
LEMMA FlatKept ==
  ASSUME FlatInv, stage = "gvn", nodes' = nodes, first' = first, source' = source, Rows' \subseteq Rows, Congs' \subseteq Congs,
         \A k, m \in DOMAIN cong' : cong'[k].from = cong'[m].from => k = m
  PROVE  FlatInv' /\ \A t : Settled(t) => Settled(t)'
<1>1. \A t : (Single(t)' <=> Single(t)) /\ \A x : Avail(t, x)' <=> Avail(t, x)
  BY FormKept
<1>2. ASSUME NEW t, Settled(t) PROVE Settled(t)'
  BY <1>1, <1>2 DEF Settled
<1>3. ASSUME NEW g \in Congs', Single(g.from)' PROVE (Avail(g.to, Birth[g.from]) /\ Settled(g.to))'
  <2> PICK t : t = g.to
    OBVIOUS
  <2>1. Avail(t, Birth[g.from]) /\ Settled(t)
    BY <1>1, <1>3 DEF FlatInv
  <2>2. (Avail(t, Birth[g.from]) /\ Settled(t))'
    BY <1>1, <1>2, <2>1
  <2> QED BY <2>2
<1>4. ASSUME NEW s \in Rows' PROVE Settled(s.dst)'
  <2> PICK t : t = s.dst
    OBVIOUS
  <2>1. Settled(t)
    BY DEF FlatInv
  <2>2. Settled(t)'
    BY <1>2, <2>1
  <2> QED BY <2>2
<1>5. FlatInv'
  BY <1>3, <1>4 DEF FlatInv
<1> QED BY <1>2, <1>5

(* What a finished scope leaves of the tables.                              *)
LEMMA LeavingCuts ==
  ASSUME PInv, GvnLeave, stage' = "gvn", NEW n, n = Len(walk)
  PROVE  /\ stage = "gvn" /\ cur = 0 /\ cur' = 0 /\ n \in Nat /\ n - 1 \in Nat \ {0} /\ Top = walk[n] /\ Top \in Scope
         /\ DOMAIN walk = 1 .. n /\ DOMAIN walk' = 1 .. n - 1 /\ Len(walk') = n - 1
         /\ \A j \in 1 .. n - 1 : j \in 1 .. n /\ j < n /\ walk'[j] = walk[j]
         /\ DOMAIN table' = 1 .. Top.entries /\ Len(table') = Top.entries
         /\ \A i \in 1 .. Top.entries : i \in DOMAIN table /\ table'[i] = table[i]
         /\ DOMAIN cong' = 1 .. Top.congs /\ Len(cong') = Top.congs
         /\ \A i \in 1 .. Top.congs : i \in DOMAIN cong /\ cong'[i] = cong[i]
         /\ Rows' \subseteq Rows /\ Congs' \subseteq Congs
<1>1. /\ stage = "gvn" /\ cur = 0 /\ walk' = SubSeq(walk, 1, n - 1)
      /\ table' = SubSeq(table, 1, Top.entries) /\ cong' = SubSeq(cong, 1, Top.congs)
      /\ walk' # <<>> /\ cur' = cur
  BY DEF GvnLeave, StartSweepAt
<1>2. /\ n \in Nat \ {0} /\ DOMAIN walk = 1 .. n /\ Top = walk[n] /\ Top \in Scope /\ n \in DOMAIN walk
      /\ walk \in Seq(Scope)
  BY <1>1, TopFacts DEF PInv, ScopeInv
<1>3. /\ Top.congs \in Nat /\ Top.congs <= Len(cong) /\ cong \in Seq(Pair)
      /\ Top.entries \in Nat /\ Top.entries <= Len(table) /\ table \in Seq(Row)
  BY <1>2 DEF Scope, PInv, ScopeInv, DataInv
<1>4. /\ DOMAIN walk' = 1 .. n - 1 /\ Len(walk') = n - 1 /\ \A j \in 1 .. n - 1 : walk'[j] = walk[j]
  BY <1>1, <1>2
<1>5. n - 1 \in Nat \ {0}
  <2>1. walk' \in Seq(Scope)
    BY <1>1, <1>2
  <2>2. Len(walk') \in Nat \ {0}
    BY <1>1, <2>1, EmptySeq
  <2> QED BY <1>4, <2>2
<1>6. /\ DOMAIN table' = 1 .. Top.entries /\ Len(table') = Top.entries
      /\ \A i \in 1 .. Top.entries : i \in DOMAIN table /\ table'[i] = table[i]
  BY <1>1, <1>3
<1>7. /\ DOMAIN cong' = 1 .. Top.congs /\ Len(cong') = Top.congs
      /\ \A i \in 1 .. Top.congs : i \in DOMAIN cong /\ cong'[i] = cong[i]
  BY <1>1, <1>3
<1>8. Rows' \subseteq Rows /\ Congs' \subseteq Congs
  BY <1>6, <1>7 DEF Rows, Congs
<1>9. \A j \in 1 .. n - 1 : j \in 1 .. n /\ j < n
  BY <1>2
<1> QED BY <1>1, <1>2, <1>4, <1>5, <1>6, <1>7, <1>8, <1>9

(* Every step keeps the tables flat.                                        *)
LEMMA FlatStep ==
  ASSUME \A prog \in Programs : LabelsDistinct(prog), AllInv, Rooted, FlatInv,
         [PipeNext]_pipeVars, nodes' = nodes, first' = first, source' = source
  PROVE  FlatInv'
<1>0. ~Analyse
  BY DEF AllInv, SemInv, Analyse
<1>1. CASE StartDce \/ DceDelete \/ DceKeep \/ DceAgain \/ ScanNode \/ EndScan
           \/ CcpNode \/ EndCcp \/ StartRun \/ Run
  <2>1. stage' # "gvn"
    BY <1>1 DEF StartDce, DceDelete, DceKeep, DceAgain, ScanNode, EndScan, CcpNode, EndCcp,
                StartRun, Run, StartSweepAt
  <2> QED BY <2>1 DEF FlatInv
<1>2. CASE StartGvn
  <2>1. cong' = <<>> /\ table' = <<>>
    BY <1>2 DEF StartGvn, AllInv, PInv, SourceInv
  <2> QED BY <2>1 DEF FlatInv, Congs, Rows
<1>3. CASE GvnNode
  BY <1>3, FlatNumbers
<1>4. CASE GvnDescend \/ UNCHANGED pipeVars
  <2>1. stage' = stage /\ cong' = cong /\ table' = table
    BY <1>4 DEF GvnDescend, pipeVars, gvnVars
  <2>2. Rows' \subseteq Rows /\ Congs' \subseteq Congs
    BY <2>1 DEF Rows, Congs
  <2>3. CASE stage = "gvn"
    <3>1. \A k, m \in DOMAIN cong' : cong'[k].from = cong'[m].from => k = m
      BY <2>1, <2>3 DEF FlatInv
    <3> QED BY <2>2, <2>3, <3>1, FlatKept
  <2>4. CASE stage # "gvn"
    BY <2>1, <2>4 DEF FlatInv
  <2> QED BY <2>3, <2>4
<1>5. CASE GvnLeave
  <2>1. CASE stage' = "gvn"
    <3>1. /\ stage = "gvn" /\ DOMAIN cong' = 1 .. Top.congs /\ Rows' \subseteq Rows /\ Congs' \subseteq Congs
          /\ \A i \in 1 .. Top.congs : i \in DOMAIN cong /\ cong'[i] = cong[i]
      BY <1>5, <2>1, LeavingCuts DEF AllInv
    <3>2. \A k, m \in DOMAIN cong' : cong'[k].from = cong'[m].from => k = m
      BY <3>1 DEF FlatInv
    <3> QED BY <3>1, <3>2, FlatKept
  <2>2. CASE stage' # "gvn"
    BY <2>2 DEF FlatInv
  <2> QED BY <2>1, <2>2
<1> QED BY <1>0, <1>1, <1>2, <1>3, <1>4, <1>5 DEF PipeNext

(* Opening a scope takes nothing out of the tables.                         *)
LEMMA HeldDescends ==
  ASSUME PInv, HeldInv, GvnDescend, nodes' = nodes, first' = first, source' = source
  PROVE  HeldInv'
<1> PICK n : n = Len(walk)
  OBVIOUS
<1> PICK c : c = Head(Top.todo)
  OBVIOUS
<1> SUFFICES ASSUME ~full PROVE HeldInv'
  BY DEF HeldInv, GvnDescend
<1>1. /\ stage = "gvn" /\ cur = 0 /\ cong' = cong /\ table' = table /\ ir' = ir /\ freed' = freed
      /\ first' = first /\ cur' = first[c]
  BY DEF GvnDescend, vars, listVars
<1>2. /\ n \in Nat \ {0} /\ DOMAIN walk = 1 .. n /\ DOMAIN walk' = 1 .. n + 1 /\ Len(walk') = n + 1
      /\ \A i \in 1 .. n : Path(i)' = Path(i) /\ walk'[i].entries = walk[i].entries /\ walk'[i].congs = walk[i].congs
      /\ Path(n + 1)' = c /\ walk'[n + 1].entries = Len(table) /\ walk'[n + 1].congs = Len(cong) /\ c \in Block
  BY Descent DEF PInv
<1>3. \A t : (Single(t)' <=> Single(t)) /\ (Settled(t)' <=> Settled(t))
  BY <1>1, FormKept DEF Settled, Congs
<1>4. ASSUME NEW j \in 1 .. n PROVE RowsTo(j)' = RowsTo(j) /\ CongsTo(j)' = CongsTo(j)
  <2>1. j < n + 1 /\ (j < n => j + 1 \in 1 .. n) /\ (~(j < n) => j = n)
    BY <1>2
  <2> QED BY <1>2, <2>1 DEF RowsTo, CongsTo
<1>5. ASSUME NEW j \in 1 .. n + 1, NEW p \in Computing, Behind(j, p)', NEW m, m = ir[p]
      PROVE  Held(m, j)'
  <2>1. p \in Nat
    BY SizeFacts DEF Computing, Listed, PInv
  <2>2. j # n + 1
    <3>1. SUFFICES ASSUME j = n + 1 PROVE FALSE
      OBVIOUS
    <3>2. first[c] \in Nat /\ first[c] # 0
      <4>1. BlocksInv
        BY BlocksSound
      <4>2. first[c] \in 1 .. Len(nodes) /\ Len(nodes) \in Nat
        BY <1>2, <4>1, NodesType
      <4> QED BY <4>2
    <3>3. p < first[c]
      BY <1>1, <1>2, <1>5, <3>1, <3>2 DEF Behind
    <3>4. NodesOf(Path(j))' = NodesOf(c)
      BY <1>1, <1>2, <3>1 DEF NodesOf, Last
    <3>5. p \in NodesOf(c)
      BY <1>5, <3>4 DEF Behind
    <3>6. first[c] <= p
      BY <3>2, <3>5 DEF NodesOf
    <3> QED BY <2>1, <3>2, <3>3, <3>6
  <2>3. j \in 1 .. n
    BY <1>2, <2>2
  <2>4. Behind(j, p)
    <3>1. NodesOf(Path(j))' = NodesOf(Path(j))
      BY <1>1, <1>2, <2>3 DEF NodesOf, Last
    <3> QED BY <1>1, <1>5, <3>1 DEF Behind
  <2>5. Held(m, j)
    BY <1>1, <1>2, <1>5, <2>3, <2>4 DEF HeldInv
  <2>6. PICK i \in DOMAIN table : i <= RowsTo(j) /\ Answers(i, m, j)
    BY <2>5 DEF Held
  <2>7. Answers(i, m, j)'
    <3>1. \A s, w : Leads(s, w, j)' <=> Leads(s, w, j)
      BY <1>1, <1>3, <1>4, <2>3 DEF Leads
    <3> QED BY <1>1, <2>6, <3>1 DEF Answers, Operand
  <2> QED BY <1>1, <1>4, <2>3, <2>6, <2>7 DEF Held
<1>6. Computing' = Computing
  BY <1>1 DEF Computing, Listed
<1> QED BY <1>1, <1>2, <1>5, <1>6 DEF HeldInv

(* Leaving a scope takes out nothing that an outer scope computed.          *)
LEMMA HeldLeaves ==
  ASSUME PInv, FlatInv, HeldInv, GvnLeave, nodes' = nodes, first' = first, source' = source
  PROVE  HeldInv'
<1> PICK n : n = Len(walk)
  OBVIOUS
<1> SUFFICES ASSUME stage' = "gvn", ~full PROVE HeldInv'
  BY DEF HeldInv, GvnLeave
<1>1. /\ ir' = ir /\ freed' = freed /\ first' = first /\ Computing' = Computing
  BY DEF GvnLeave, vars, listVars, Computing, Listed
<1>2. /\ stage = "gvn" /\ cur = 0 /\ cur' = 0 /\ n \in Nat /\ n - 1 \in Nat \ {0} /\ Top = walk[n] /\ Top \in Scope
      /\ DOMAIN walk = 1 .. n /\ DOMAIN walk' = 1 .. n - 1 /\ Len(walk') = n - 1
      /\ \A j \in 1 .. n - 1 : j \in 1 .. n /\ j < n /\ walk'[j] = walk[j]
  BY LeavingCuts
<1>3. /\ DOMAIN table' = 1 .. Top.entries /\ Len(table') = Top.entries
      /\ \A i \in 1 .. Top.entries : i \in DOMAIN table /\ table'[i] = table[i]
      /\ DOMAIN cong' = 1 .. Top.congs /\ Len(cong') = Top.congs
      /\ \A i \in 1 .. Top.congs : i \in DOMAIN cong /\ cong'[i] = cong[i]
      /\ Rows' \subseteq Rows /\ Congs' \subseteq Congs
  BY LeavingCuts
<1>4. \A t : (Single(t)' <=> Single(t)) /\ (Settled(t) => Settled(t)')
  BY <1>3, FormKept DEF Settled
<1>5. ASSUME NEW j \in 1 .. n - 1
      PROVE  /\ RowsTo(j)' = RowsTo(j) /\ CongsTo(j)' = CongsTo(j)
             /\ RowsTo(j) <= Top.entries /\ CongsTo(j) <= Top.congs /\ RowsTo(j) \in Nat /\ CongsTo(j) \in Nat
  <2>1. j < n /\ j + 1 \in 1 .. n /\ walk[j + 1] \in Scope
    <3>1. walk \in Seq(Scope) /\ j + 1 \in 1 .. n
      BY <1>2 DEF PInv, ScopeInv
    <3> QED BY <1>2, <3>1
  <2>2. RowsTo(j) = walk[j + 1].entries /\ CongsTo(j) = walk[j + 1].congs
    BY <2>1 DEF RowsTo, CongsTo
  <2>3. CASE j < n - 1
    <3>1. j + 1 \in 1 .. n - 1 /\ j + 1 < n /\ n \in 1 .. n
      BY <1>2, <2>3
    <3>2. RowsTo(j)' = walk'[j + 1].entries /\ CongsTo(j)' = walk'[j + 1].congs
      BY <1>2, <2>3 DEF RowsTo, CongsTo
    <3>3. walk[j + 1].entries <= Top.entries /\ walk[j + 1].congs <= Top.congs
      BY <1>2, <3>1 DEF PInv, ScopeInv, PathInv
    <3> QED BY <1>2, <2>1, <2>2, <3>1, <3>2, <3>3 DEF Scope
  <2>4. CASE ~(j < n - 1)
    <3>1. j = n - 1 /\ j + 1 = n
      BY <1>2, <2>4
    <3>2. RowsTo(j)' = Len(table') /\ CongsTo(j)' = Len(cong')
      BY <1>2, <2>4 DEF RowsTo, CongsTo
    <3> QED BY <1>2, <1>3, <2>1, <2>2, <3>1, <3>2 DEF Scope
  <2> QED BY <2>3, <2>4
<1>6. ASSUME NEW j \in 1 .. n - 1, NEW p \in Computing, Behind(j, p)', NEW m, m = ir[p]
      PROVE  Held(m, j)'
  <2>1. Behind(j, p) /\ j \in 1 .. n
    <3>1. NodesOf(Path(j))' = NodesOf(Path(j))
      BY <1>1, <1>2 DEF NodesOf, Last, Path
    <3> QED BY <1>2, <1>6, <3>1 DEF Behind
  <2>2. Held(m, j)
    BY <1>2, <1>6, <2>1 DEF HeldInv
  <2>3. PICK i \in DOMAIN table : i <= RowsTo(j) /\ Answers(i, m, j)
    BY <2>2 DEF Held
  <2>4. i \in DOMAIN table' /\ table'[i] = table[i]
    <3>1. i \in Nat \ {0}
      BY DEF PInv, DataInv
    <3>2. Top.entries \in Nat /\ i <= Top.entries
      BY <1>2, <1>5, <2>3, <3>1 DEF Scope
    <3> QED BY <1>3, <3>1, <3>2
  <2>5. ASSUME NEW t, NEW w, Leads(t, w, j) PROVE Leads(t, w, j)'
    <3>1. CASE w = t /\ Settled(t)
      BY <1>4, <3>1 DEF Leads
    <3>2. CASE Single(t) /\ \E k \in DOMAIN cong : k <= CongsTo(j) /\ cong[k].from = t /\ cong[k].to = w
      <4>1. PICK k \in DOMAIN cong : k <= CongsTo(j) /\ cong[k].from = t /\ cong[k].to = w
        BY <3>2
      <4>2. k \in DOMAIN cong' /\ cong'[k] = cong[k]
        <5>1. k \in Nat \ {0}
          BY DEF PInv, DataInv
        <5>2. Top.congs \in Nat /\ k <= Top.congs
          BY <1>2, <1>5, <4>1, <5>1 DEF Scope
        <5> QED BY <1>3, <5>1, <5>2
      <4>3. Single(t)'
        BY <1>4, <3>2
      <4> QED BY <1>5, <4>1, <4>2, <4>3 DEF Leads
    <3> QED BY <2>5, <3>1, <3>2 DEF Leads
  <2>6. Answers(i, m, j)'
    BY <2>3, <2>4, <2>5 DEF Answers, Operand
  <2> QED BY <1>5, <2>3, <2>4, <2>6 DEF Held
<1> QED BY <1>1, <1>2, <1>6 DEF HeldInv

(* Every step keeps what the open scopes computed in the tables.            *)
LEMMA HeldStep ==
  ASSUME \A prog \in Programs : LabelsDistinct(prog), EndsKept, AllInv, Rooted, FlatInv, HeldInv,
         [PipeNext]_pipeVars, nodes' = nodes, first' = first, source' = source
  PROVE  HeldInv'
<1>0. ~Analyse
  BY DEF AllInv, SemInv, Analyse
<1>1. CASE StartDce \/ DceDelete \/ DceKeep \/ DceAgain \/ ScanNode \/ EndScan
           \/ CcpNode \/ EndCcp \/ StartRun \/ Run
  <2>1. stage' # "gvn"
    BY <1>1 DEF StartDce, DceDelete, DceKeep, DceAgain, ScanNode, EndScan, CcpNode, EndCcp,
                StartRun, Run, StartSweepAt
  <2> QED BY <2>1 DEF HeldInv
<1>2. CASE StartGvn
  <2>1. SUFFICES ASSUME stage' = "gvn" PROVE HeldInv'
    BY DEF HeldInv
  <2>2. walk' = <<Frame(1)>> /\ cur' = first[1] /\ first' = first /\ nodes' = nodes /\ pc = "done"
        /\ freed' = freed /\ ir' = ir
    BY <1>2, <2>1 DEF StartGvn, vars, listVars
  <2>3. first[1] \in Nat /\ first[1] # 0
    BY <2>2, TreeFacts, NodesType DEF AllInv, PInv
  <2>4. ASSUME NEW p \in Computing', Behind(1, p)' PROVE FALSE
    <3>1. p \in Nat
      BY <2>2, SizeFacts DEF Computing, Listed, AllInv, PInv
    <3>2. Path(1)' = 1 /\ Len(walk') = 1
      BY <2>2 DEF Path, Frame
    <3>3. NodesOf(Path(1))' = NodesOf(1)
      BY <2>2, <3>2 DEF NodesOf, Last
    <3> QED BY <2>2, <2>3, <2>4, <3>1, <3>2, <3>3 DEF Behind, NodesOf
  <2>5. DOMAIN walk' = {1}
    BY <2>2
  <2> QED BY <2>4, <2>5 DEF HeldInv
<1>3. CASE GvnNode
  BY <1>3, HeldNumbers
<1>4. CASE GvnDescend
  BY <1>4, HeldDescends DEF AllInv
<1>5. CASE GvnLeave
  BY <1>5, HeldLeaves DEF AllInv
<1>6. CASE UNCHANGED pipeVars
  <2>1. \A t : (Single(t)' <=> Single(t)) /\ (Settled(t)' <=> Settled(t))
    BY <1>6, FormKept DEF pipeVars, gvnVars, Settled, Congs
  <2>2. /\ walk' = walk /\ table' = table /\ cong' = cong /\ ir' = ir /\ freed' = freed /\ cur' = cur
        /\ stage' = stage /\ full' = full
    BY <1>6 DEF pipeVars, gvnVars, listVars
  <2>3. \A s, w, j : Leads(s, w, j)' <=> Leads(s, w, j)
    BY <2>1, <2>2 DEF Leads, CongsTo
  <2>4. \A m, j : Held(m, j)' <=> Held(m, j)
    BY <2>2, <2>3 DEF Held, Answers, RowsTo, Operand
  <2>5. Computing' = Computing /\ \A j, q : Behind(j, q)' <=> Behind(j, q)
    BY <2>2 DEF Computing, Listed, Behind, Path, NodesOf, Last
  <2> QED BY <2>2, <2>4, <2>5 DEF HeldInv
<1> QED BY <1>0, <1>1, <1>2, <1>3, <1>4, <1>5, <1>6 DEF PipeNext

(* The walk up from b comes to h through a child of h.                      *)
LEMMA ChainEnters ==
  ASSUME BlocksInv, NEW b \in Block, \A x \in Block : idom[x] \in {0} \cup Block, NEW h \in Chain(b), h # b
  PROVE  \E k \in Chain(b) : idom[k] = h
<1> SUFFICES ASSUME \A k \in Chain(b) : idom[k] # h PROVE FALSE
  OBVIOUS
<1> DEFINE S == Chain(b) \ {h}
<1>1. b \in S /\ \A x \in S : x \in Block /\ idom[x] # 0 => idom[x] \in S
  BY ChainIsLeast
<1> HIDE DEF S
<1>2. Chain(b) \subseteq S
  BY <1>1, ChainIsLeast
<1> QED BY <1>2 DEF S

(* The tree the walk follows.                                               *)
LEMMA WalkTree ==
  ASSUME PInv, pc = "done"
  PROVE  BlocksInv /\ 0 \notin Block /\ idom[1] = 0 /\ \A x \in Block : idom[x] \in {0} \cup Block
<1>1. BlocksInv /\ 1 \in Block
  BY TreeFacts DEF PInv
<1>2. \A b \in Block : idom[b] = IF b = 1 THEN 0 ELSE Closest(b)
  BY DEF PInv, GraphInv, PhasesInv, IdomInv
<1>3. idom \in [Block -> {0} \cup Block]
  BY DEF PInv, GraphInv, PhasesInv, IdomInv
<1> QED BY <1>1, <1>2, <1>3 DEF Block

(* Between a block and one above it is a child of the latter.               *)
LEMMA ChildBetween ==
  ASSUME PInv, pc = "done", ChildrenFit, NEW b \in Block, NEW h \in Chain(b), h # b
  PROVE  \E k \in children[h] : Dominates(k, b)
<1>1. BlocksInv /\ 0 \notin Block /\ idom[1] = 0 /\ \A x \in Block : idom[x] \in {0} \cup Block
  BY WalkTree
<1>2. PICK k \in Chain(b) : idom[k] = h
  BY <1>1, ChainEnters
<1>3. k \in Block /\ h \in Block
  BY <1>1, ChainIsLeast
<1>4. k \in Block \ {1} /\ idom[k] # 0
  BY <1>1, <1>2, <1>3
<1>5. k \in children[idom[k]]
  BY <1>4 DEF PInv, GraphInv, KeptTree, ChildrenInv
<1> QED BY <1>2, <1>5 DEF Dominates

(* The blocks above an open scope are the scopes above it.                  *)
LEMMA ChainIsPath ==
  ASSUME PInv, stage = "gvn", NEW j \in DOMAIN walk, NEW a, Dominates(a, Path(j))
  PROVE  \E i \in DOMAIN walk : i <= j /\ a = Path(i)
<1>1. pc = "done" /\ DOMAIN walk = 1 .. Len(walk) /\ Len(walk) \in Nat /\ Path(j) \in Block
  BY TopFacts DEF PInv, ScopeInv, PathInv
<1>2. BlocksInv /\ 0 \notin Block /\ idom[1] = 0 /\ \A x \in Block : idom[x] \in {0} \cup Block
  BY <1>1, WalkTree
<1> DEFINE S == {Path(i) : i \in 1 .. j}
<1>3. Path(j) \in S
  BY <1>1
<1>4. ASSUME NEW x \in S, idom[x] # 0 PROVE idom[x] \in S
  <2>1. PICK i \in 1 .. j : x = Path(i)
    OBVIOUS
  <2>2. i \in DOMAIN walk
    BY <1>1
  <2>3. i # 1
    BY <1>2, <1>4, <2>1, <2>2 DEF PInv, ScopeInv, PathInv
  <2>4. idom[x] = Path(i - 1) /\ i - 1 \in 1 .. j
    BY <1>1, <2>1, <2>2, <2>3 DEF PInv, ScopeInv, PathInv
  <2> QED BY <2>4
<1> HIDE DEF S
<1>5. Chain(Path(j)) \subseteq S
  BY <1>1, <1>2, <1>3, <1>4, ChainIsLeast
<1>6. PICK i \in 1 .. j : a = Path(i)
  BY <1>5 DEF Dominates, S
<1> QED BY <1>1, <1>6

(* A computation that is in the tables is found for its twin.               *)
LEMMA TwinIsKnown ==
  ASSUME \A prog \in Programs : LabelsDistinct(prog), AllInv, Rooted, FlatInv, GvnNode,
         NEW c, c = cur, c \in Computing, NEW n, n = ir[c], NEW m, Alikes(m, n), NEW j, Held(m, j)
  PROVE  Known(n) # {}
<1>1. /\ c \in Reached /\ stage = "gvn" /\ cur # 0
      /\ n.src1 \in Operand /\ Usable(n.src1, c) /\ n.src2 \in Operand /\ Usable(n.src2, c)
  BY NumberFacts
<1>2. /\ \A w : Leads(n.src1, w, j) => w = Leader(n.src1)
      /\ \A w : Leads(n.src2, w, j) => w = Leader(n.src2)
  BY <1>1, LeadsToLeader
<1>3. PICK i \in DOMAIN table : Answers(i, m, j)
  BY DEF Held
<1>4. PICK a, b \in Operand : /\ Leads(m.src1, a, j) /\ Leads(m.src2, b, j)
                             /\ SameOperands(m.op, table[i].src1, table[i].src2, a, b)
  BY <1>3 DEF Answers
<1>5. table[i].op = n.op /\ m.op = n.op
  BY <1>3 DEF Answers, Alikes
<1>6. SameOperands(n.op, table[i].src1, table[i].src2, Leader(n.src1), Leader(n.src2))
  <2>1. CASE m.src1 = n.src1 /\ m.src2 = n.src2
    BY <1>2, <1>4, <1>5, <2>1
  <2>2. CASE n.op \in Commutative /\ m.src1 = n.src2 /\ m.src2 = n.src1
    <3>1. a = Leader(n.src2) /\ b = Leader(n.src1)
      BY <1>2, <1>4, <2>2
    <3> QED BY <1>4, <1>5, <2>2, <3>1 DEF SameOperands
  <2> QED BY <1>5, <2>1, <2>2 DEF Alikes, SameOperands
<1>7. i \in Known(n)
  BY <1>5, <1>6 DEF Known
<1> QED BY <1>7

(* The node that is numbered has no twin above it that is still listed as   *)
(* one.                                                                     *)
LEMMA CleanNumbers ==
  ASSUME \A prog \in Programs : LabelsDistinct(prog), EndsKept, AllInv, Rooted, FlatInv, HeldInv, CleanInv, GvnNode
  PROVE  CleanInv'
<1> SUFFICES ASSUME ~full, ChildrenFit' PROVE CleanInv'
  BY DEF CleanInv, GvnNode
<1> PICK c : c = cur
  OBVIOUS
<1> PICK n : n = Len(walk)
  OBVIOUS
<1>1. /\ stage = "gvn" /\ cur # 0 /\ walk' = walk /\ first' = first /\ nodes' = nodes /\ idom' = idom
      /\ PInv /\ OwnBlockOnly
  BY DEF GvnNode, vars, AllInv
<1>2. /\ c \in DOMAIN ir /\ Listed' = Listed /\ DOMAIN ir' = DOMAIN ir
      /\ \A p \in DOMAIN ir : p # c => ir'[p] = ir[p]
      /\ ir'[c].op \in Pure => ir'[c] = ir[c]
  BY NumberFacts
<1>3. /\ Top.block = Path(n) /\ n \in DOMAIN walk /\ c \in NodesOf(Path(n)) /\ Path(n) \in Block
      /\ pc = "done" /\ Partition
  BY <1>1, TopFacts, TreeFacts DEF OwnBlockOnly, PInv
<1>4. /\ Block' = Block /\ \A b : /\ NodesOf(b)' = NodesOf(b) /\ (Pending(b)' <=> Pending(b))
                                  /\ (Dominates(1, b)' <=> Dominates(1, b))
      /\ Top' = Top /\ ChildrenFit
  BY <1>1 DEF ChildrenFit, Block, NodesOf, Last, Pending, Dominates, Chain, Top
<1>5. \A p : VisibleFrom(p)' = VisibleFrom(p)
  BY <1>1 DEF VisibleFrom, Block, NodesOf, Last, Dominates, Chain
<1>6. ASSUME NEW p \in Computing' PROVE p \in Computing /\ p \in DOMAIN ir /\ ir'[p] = ir[p] /\ p \in Nat
  <2>1. p \in Listed /\ p \in DOMAIN ir /\ ir'[p].op \in Pure /\ p \in Nat
    BY <1>1, <1>2, SizeFacts DEF Computing, Listed, PInv
  <2>2. ir'[p] = ir[p]
    BY <1>2, <2>1
  <2> QED BY <2>1, <2>2 DEF Computing
<1>7. ASSUME NEW b \in Block, NEW q \in Computing', NumberedIn(b, q)', q # c PROVE NumberedIn(b, q)
  <2>1. q \in NodesOf(b) /\ ~Pending(b)
    BY <1>4, <1>7 DEF NumberedIn
  <2>2. ASSUME b = Top.block PROVE q < cur
    <3>1. Behind(n, q)'
      <4>1. NodesOf(Path(n))' = NodesOf(Path(n))
        BY <1>1 DEF NodesOf, Last, Path
      <4> QED BY <1>1, <1>3, <1>4, <1>7, <2>1, <2>2, <4>1 DEF NumberedIn, Behind
    <3>2. Behind(n, q)
      <4>1. q \in Listed
        BY <1>6 DEF Computing
      <4> QED BY <1>1, <1>3, <1>7, <3>1, <4>1, BehindNew
    <3> QED BY <1>1, <3>2 DEF Behind
  <2> QED BY <2>1, <2>2 DEF NumberedIn
<1>8. ASSUME NEW p \in Computing', c \in Computing', Twins(p, c), c \in VisibleFrom(p)
      PROVE  FALSE
  <2>1. PICK x \in Block : /\ c \in NodesOf(x) /\ (p \in NodesOf(x) => p < c)
                           /\ \E a \in Block : p \in NodesOf(a) /\ Dominates(a, x)
    BY <1>8 DEF VisibleFrom
  <2>2. PICK a \in Block : p \in NodesOf(a) /\ Dominates(a, x)
    BY <2>1
  <2>3. x = Path(n)
    BY <1>3, <2>1, NodesOfBlocks
  <2>4. PICK i \in DOMAIN walk : a = Path(i)
    BY <1>1, <1>3, <2>2, <2>3, ChainIsPath
  <2>5. Behind(i, p)
    BY <2>1, <2>2, <2>3, <2>4 DEF Behind
  <2> PICK m : m = ir[p]
    OBVIOUS
  <2>6. p \in Computing /\ c \in Computing
    BY <1>6, <1>8
  <2>7. Held(m, i)
    BY <1>1, <2>5, <2>6 DEF HeldInv
  <2> PICK r : r = ir[c]
    OBVIOUS
  <2>8. Known(r) # {}
    <3>1. Alikes(m, r)
      BY <1>8 DEF Twins
    <3> QED BY <2>6, <2>7, <3>1, TwinIsKnown
  <2> QED BY <1>8, <2>6, <2>8, PureCases
<1>9. ASSUME NEW b \in Block, NEW p \in Computing', NEW q \in Computing', NumberedIn(b, q)', Twins(p, q)',
             Dominates(1, b)'
      PROVE  q \notin VisibleFrom(p)'
  <2>1. p \in Computing /\ q \in Computing /\ Twins(p, q)
    BY <1>6, <1>9 DEF Twins, Alikes
  <2>2. CASE q = c
    BY <1>5, <1>8, <1>9, <2>1, <2>2
  <2>3. CASE q # c
    <3>1. q \notin VisibleFrom(p)
      BY <1>1, <1>4, <1>7, <1>9, <2>1, <2>3 DEF CleanInv
    <3> QED BY <1>5, <3>1
  <2> QED BY <2>2, <2>3
<1> QED BY <1>4, <1>9 DEF CleanInv

(* The lists of children that a descent leaves.                             *)
LEMMA TodoDescends ==
  ASSUME PInv, GvnDescend, NEW n, n = Len(walk), NEW c, c = Head(Top.todo)
  PROVE  /\ \A j \in 1 .. n : j # n => walk'[j].todo = walk[j].todo
         /\ \A i \in DOMAIN walk[n].todo :
              walk[n].todo[i] = c \/ \E k \in DOMAIN walk'[n].todo : walk'[n].todo[k] = walk[n].todo[i]
<1> DEFINE q == walk[n].todo
           w == [walk EXCEPT ![n].todo = Tail(q)]
<1>1. /\ n \in Nat \ {0} /\ n \in DOMAIN walk /\ DOMAIN walk = 1 .. n /\ Top = walk[n]
      /\ walk[n] \in Scope /\ q \in Seq(children[Path(n)]) /\ walk \in Seq(Scope) /\ q # <<>>
  BY TopFacts DEF GvnDescend, PInv, ScopeInv
<1>2. walk' = Append(w, Frame(c))
  BY <1>1 DEF GvnDescend
<1>3. /\ Len(w) = n /\ DOMAIN w = 1 .. n /\ w[n].todo = Tail(q) /\ \A j \in 1 .. n : j # n => w[j] = walk[j]
  <2>1. DOMAIN w = 1 .. n
    BY <1>1
  <2>2. Len(w) = n
    BY <1>1, <2>1
  <2>3. w[n] = [walk[n] EXCEPT !.todo = Tail(q)]
    BY <1>1
  <2>4. w[n].todo = Tail(q)
    BY <1>1, <2>3 DEF Scope
  <2> QED BY <1>1, <2>1, <2>2, <2>4
<1> HIDE DEF w
<1>4. \A j \in 1 .. n : walk'[j] = w[j]
  BY <1>1, <1>2, <1>3
<1>5. c = Head(q)
  BY <1>1
<1> HIDE DEF q
<1>6. ASSUME NEW i \in DOMAIN q PROVE q[i] = c \/ \E k \in DOMAIN Tail(q) : Tail(q)[k] = q[i]
  <2>1. DOMAIN q = 1 .. Len(q) /\ Len(q) \in Nat \ {0}
    BY <1>1, EmptySeq
  <2>2. CASE i = 1
    BY <1>1, <1>5, <2>1, <2>2
  <2>3. CASE i # 1
    <3>1. i - 1 \in DOMAIN Tail(q) /\ Tail(q)[i - 1] = q[i]
      BY <1>1, <2>1, <2>3
    <3> QED BY <3>1
  <2> QED BY <2>2, <2>3
<1>7. walk'[n].todo = Tail(q) /\ n \in 1 .. n
  BY <1>1, <1>3, <1>4
<1>8. \A j \in 1 .. n : j # n => walk'[j].todo = walk[j].todo
  BY <1>3, <1>4
<1> QED BY <1>6, <1>7, <1>8 DEF q

(* A descent comes to one block, the child, and puts those below it on the  *)
(* lists.                                                                   *)
LEMMA PendingDescends ==
  ASSUME PInv, GvnDescend, ChildrenFit, NEW c, c = Head(Top.todo), NEW b \in Block, b # c, Pending(b)
  PROVE  Pending(b)'
<1> PICK n : n = Len(walk)
  OBVIOUS
<1>1. /\ n \in Nat \ {0} /\ DOMAIN walk = 1 .. n /\ DOMAIN walk' = 1 .. n + 1 /\ c \in Block
      /\ Block' = Block /\ idom' = idom /\ walk'[n + 1].todo = Ascending(children[c])
  BY Descent DEF PInv
<1>2. /\ \A j \in 1 .. n : j # n => walk'[j].todo = walk[j].todo
      /\ \A i \in DOMAIN walk[n].todo :
           walk[n].todo[i] = c \/ \E k \in DOMAIN walk'[n].todo : walk'[n].todo[k] = walk[n].todo[i]
  BY TodoDescends
<1>3. \A k : Dominates(k, b)' <=> Dominates(k, b)
  <2>1. first' = first
    BY DEF GvnDescend, vars
  <2> QED BY <1>1, <2>1 DEF Dominates, Chain
<1>4. \A j \in 1 .. n : j \in 1 .. n + 1
  BY <1>1
<1>5. PICK j \in 1 .. n : \E i \in DOMAIN walk[j].todo : Dominates(walk[j].todo[i], b)
  BY <1>1 DEF Pending
<1>6. PICK i \in DOMAIN walk[j].todo : Dominates(walk[j].todo[i], b)
  BY <1>5
<1> PICK d : d = walk[j].todo[i]
  OBVIOUS
<1>7. ASSUME NEW m \in 1 .. n + 1, NEW k \in DOMAIN walk'[m].todo, NEW e, e = walk'[m].todo[k], Dominates(e, b)
      PROVE  Pending(b)'
  <2>1. Dominates(e, b)'
    BY <1>3, <1>7
  <2> QED BY <1>1, <1>7, <2>1 DEF Pending
<1>8. CASE d = c
  <2>1. pc = "done"
    BY TopFacts DEF PInv, GvnDescend
  <2>2. c \in Chain(b)
    BY <1>6, <1>8 DEF Dominates
  <2>3. PICK k \in children[c] : Dominates(k, b)
    BY <1>1, <2>1, <2>2, ChildBetween
  <2>4. children[c] \in SUBSET Nat /\ IsFiniteSet(children[c])
    BY <1>1, <2>1, TreeFacts DEF PInv
  <2>5. PICK m \in 1 .. Len(Ascending(children[c])) : Ascending(children[c])[m] = k
    BY <2>4, AscendingLists
  <2>6. m \in DOMAIN Ascending(children[c])
    BY <2>4, AscendingLists
  <2>7. n + 1 \in 1 .. n + 1
    BY <1>1
  <2> QED BY <1>1, <1>7, <2>3, <2>5, <2>6, <2>7
<1>9. CASE d # c
  <2>1. CASE j = n
    <3>1. PICK k \in DOMAIN walk'[n].todo : walk'[n].todo[k] = d
      BY <1>2, <1>9, <2>1
    <3> QED BY <1>4, <1>6, <1>7, <2>1, <3>1
  <2>2. CASE j # n
    BY <1>2, <1>4, <1>6, <1>7, <2>2
  <2> QED BY <2>1, <2>2
<1> QED BY <1>8, <1>9

(* A block whose nodes are numbered after a step that opens a scope, with   *)
(* the cursor on the first node of a block, was numbered before.            *)
LEMMA CleanDescends ==
  ASSUME PInv, CleanInv, GvnDescend, nodes' = nodes
  PROVE  CleanInv'
<1> SUFFICES ASSUME ~full, ChildrenFit' PROVE CleanInv'
  BY DEF CleanInv, GvnDescend
<1> PICK n : n = Len(walk)
  OBVIOUS
<1> PICK c : c = Head(Top.todo)
  OBVIOUS
<1>1. /\ stage = "gvn" /\ cur = 0 /\ ir' = ir /\ freed' = freed /\ first' = first /\ idom' = idom
      /\ cur' = first[c]
  BY DEF GvnDescend, vars, listVars
<1>2. /\ n \in Nat \ {0} /\ DOMAIN walk' = 1 .. n + 1 /\ Len(walk') = n + 1 /\ c \in Block /\ Path(n + 1)' = c
      /\ Block' = Block
  BY Descent DEF PInv
<1>3. Top'.block = c
  BY <1>2 DEF Top, Path
<1>4. /\ Computing' = Computing /\ \A p : VisibleFrom(p)' = VisibleFrom(p)
      /\ \A b : NodesOf(b)' = NodesOf(b) /\ \A p, q : Twins(p, q)' <=> Twins(p, q)
      /\ \A k, b : Dominates(k, b)' <=> Dominates(k, b)
      /\ ChildrenFit
  BY <1>1 DEF ChildrenFit, Computing, Listed, VisibleFrom, Block, NodesOf, Last, Dominates, Chain, Twins, Alikes
<1>5. first[c] \in Nat /\ first[c] # 0
  <2>1. BlocksInv
    BY BlocksSound
  <2>2. first[c] \in 1 .. Len(nodes) /\ Len(nodes) \in Nat
    BY <1>2, <2>1, NodesType
  <2> QED BY <2>2
<1>6. ASSUME NEW b \in Block, NEW q \in Computing, NumberedIn(b, q)' PROVE NumberedIn(b, q)
  <2>1. q \in Nat
    BY SizeFacts DEF Computing, Listed, PInv
  <2>2. q \in NodesOf(b)
    BY <1>4, <1>6 DEF NumberedIn
  <2>3. b # c
    <3>1. SUFFICES ASSUME b = c PROVE FALSE
      OBVIOUS
    <3>2. q < first[c]
      BY <1>1, <1>3, <1>5, <1>6, <3>1 DEF NumberedIn
    <3>3. first[c] <= q
      BY <1>5, <2>2, <3>1 DEF NodesOf
    <3> QED BY <1>5, <2>1, <3>2, <3>3
  <2>4. ~Pending(b)
    BY <1>4, <1>6, <2>3, PendingDescends DEF NumberedIn
  <2> QED BY <1>1, <2>2, <2>4 DEF NumberedIn
<1>7. ASSUME NEW b \in Block, NEW p \in Computing, NEW q \in Computing, NumberedIn(b, q)', Twins(p, q)',
             Dominates(1, b)'
      PROVE  q \notin VisibleFrom(p)'
  <2>1. NumberedIn(b, q) /\ Twins(p, q) /\ Dominates(1, b)
    BY <1>4, <1>6, <1>7
  <2> QED BY <1>1, <1>4, <2>1 DEF CleanInv
<1> QED BY <1>2, <1>4, <1>7 DEF CleanInv

(* The walk begins with everything to come.                                 *)
LEMMA CleanStarts ==
  ASSUME PInv, StartGvn, nodes' = nodes
  PROVE  CleanInv'
<1> SUFFICES ASSUME stage' = "gvn", ChildrenFit' PROVE CleanInv'
  BY DEF CleanInv
<1>1. /\ walk' = <<Frame(1)>> /\ cur' = first[1] /\ first' = first /\ idom' = idom /\ freed' = freed /\ ir' = ir
      /\ pc = "done"
  BY DEF StartGvn, vars, listVars
<1>2. /\ Block' = Block /\ Computing' = Computing /\ 1 \in Block /\ BlocksInv
      /\ \A b : NodesOf(b)' = NodesOf(b) /\ ChildrenFit
  BY <1>1, TreeFacts DEF PInv, ChildrenFit, Block, Computing, Listed, NodesOf, Last
<1>3. /\ DOMAIN walk' = {1} /\ Top'.block = 1 /\ walk'[1].todo = Ascending(children[1])
  BY <1>1 DEF Top, Frame
<1>4. first[1] \in Nat /\ first[1] # 0
  <2>1. first[1] \in 1 .. Len(nodes) /\ Len(nodes) \in Nat
    BY <1>2, NodesType
  <2> QED BY <2>1
<1>5. ASSUME NEW b \in Block, NEW q \in Computing, NumberedIn(b, q)', Dominates(1, b)' PROVE FALSE
  <2>1. q \in Nat /\ q \in NodesOf(b)
    BY <1>2, <1>5, SizeFacts DEF NumberedIn, Computing, Listed, PInv
  <2>2. CASE b = 1
    <3>1. q < first[1]
      BY <1>1, <1>3, <1>4, <1>5, <2>2 DEF NumberedIn
    <3>2. first[1] <= q
      BY <1>4, <2>1, <2>2 DEF NodesOf
    <3> QED BY <1>4, <2>1, <3>1, <3>2
  <2>3. CASE b # 1
    <3>1. 1 \in Chain(b)
      BY <1>1, <1>2, <1>5 DEF Dominates, Chain
    <3>2. PICK k \in children[1] : Dominates(k, b)
      BY <1>1, <1>2, <2>3, <3>1, ChildBetween
    <3>3. children[1] \in SUBSET Nat /\ IsFiniteSet(children[1])
      BY <1>1, <1>2, TreeFacts DEF PInv
    <3>4. PICK m \in 1 .. Len(Ascending(children[1])) : Ascending(children[1])[m] = k
      BY <3>3, AscendingLists
    <3>5. m \in DOMAIN Ascending(children[1])
      BY <3>3, AscendingLists
    <3>6. Dominates(k, b)'
      BY <1>1, <1>2, <3>2 DEF Dominates, Chain
    <3>7. Pending(b)'
      BY <1>3, <3>4, <3>5, <3>6 DEF Pending
    <3> QED BY <1>5, <3>7 DEF NumberedIn
  <2> QED BY <2>2, <2>3
<1> QED BY <1>2, <1>5 DEF CleanInv

(* Leaving a scope numbers nothing.                                         *)
LEMMA CleanLeaves ==
  ASSUME PInv, CleanInv, GvnLeave, nodes' = nodes
  PROVE  CleanInv'
<1> PICK n : n = Len(walk)
  OBVIOUS
<1> SUFFICES ASSUME ~full, stage' = "gvn", ChildrenFit' PROVE CleanInv'
  BY DEF CleanInv, GvnLeave
<1>1. /\ ir' = ir /\ freed' = freed /\ first' = first /\ idom' = idom /\ Top.todo = <<>>
  BY DEF GvnLeave, vars, listVars
<1>2. /\ Block' = Block /\ Computing' = Computing /\ \A p : VisibleFrom(p)' = VisibleFrom(p)
      /\ \A b : NodesOf(b)' = NodesOf(b) /\ \A p, q : Twins(p, q)' <=> Twins(p, q)
      /\ \A k, b : Dominates(k, b)' <=> Dominates(k, b)
      /\ ChildrenFit
  BY <1>1 DEF ChildrenFit, Computing, Listed, VisibleFrom, Block, NodesOf, Last, Dominates, Chain, Twins, Alikes
<1>3. /\ stage = "gvn" /\ cur = 0 /\ n \in Nat /\ n - 1 \in Nat \ {0} /\ Top = walk[n]
      /\ DOMAIN walk = 1 .. n /\ DOMAIN walk' = 1 .. n - 1
      /\ \A j \in 1 .. n - 1 : walk'[j] = walk[j]
  BY LeavingCuts
<1>4. ASSUME NEW b, Pending(b) PROVE Pending(b)'
  <2>1. PICK j \in 1 .. n : \E i \in DOMAIN walk[j].todo : Dominates(walk[j].todo[i], b)
    BY <1>3, <1>4 DEF Pending
  <2>2. j # n
    <3>1. DOMAIN <<>> = {}
      OBVIOUS
    <3> QED BY <1>1, <1>3, <2>1, <3>1
  <2>3. j \in 1 .. n - 1
    BY <1>3, <2>2
  <2>4. PICK i \in DOMAIN walk[j].todo : Dominates(walk[j].todo[i], b)
    BY <2>1
  <2> PICK d : d = walk[j].todo[i]
    OBVIOUS
  <2>5. Dominates(d, b)'
    BY <1>2, <2>4
  <2> QED BY <1>3, <2>3, <2>4, <2>5 DEF Pending
<1>5. ASSUME NEW b \in Block, NEW p \in Computing, NEW q \in Computing, NumberedIn(b, q)', Twins(p, q)',
             Dominates(1, b)'
      PROVE  q \notin VisibleFrom(p)'
  <2>1. NumberedIn(b, q) /\ Twins(p, q) /\ Dominates(1, b)
    BY <1>2, <1>3, <1>4, <1>5 DEF NumberedIn
  <2> QED BY <1>2, <1>3, <2>1 DEF CleanInv
<1> QED BY <1>2, <1>5 DEF CleanInv

(* Every step keeps what has been numbered clean.                           *)
LEMMA CleanStep ==
  ASSUME \A prog \in Programs : LabelsDistinct(prog), EndsKept,
         AllInv, Rooted, FlatInv, HeldInv, CleanInv, [PipeNext]_pipeVars, nodes' = nodes
  PROVE  CleanInv'
<1>0. ~Analyse
  BY DEF AllInv, SemInv, Analyse
<1>1. CASE StartDce \/ DceDelete \/ DceKeep \/ DceAgain \/ ScanNode \/ EndScan
           \/ CcpNode \/ EndCcp \/ StartRun \/ Run
  <2>1. stage' # "gvn"
    BY <1>1 DEF StartDce, DceDelete, DceKeep, DceAgain, ScanNode, EndScan, CcpNode, EndCcp,
                StartRun, Run, StartSweepAt
  <2> QED BY <2>1 DEF CleanInv
<1>2. CASE StartGvn
  BY <1>2, CleanStarts DEF AllInv
<1>3. CASE GvnNode
  BY <1>3, CleanNumbers
<1>4. CASE GvnDescend
  BY <1>4, CleanDescends DEF AllInv
<1>5. CASE GvnLeave
  BY <1>5, CleanLeaves DEF AllInv
<1>6. CASE UNCHANGED pipeVars
  <2>1. /\ stage' = stage /\ cur' = cur /\ walk' = walk /\ ir' = ir /\ freed' = freed
        /\ first' = first /\ idom' = idom /\ full' = full
    BY <1>6 DEF pipeVars, gvnVars, listVars, vars
  <2>2. /\ Block' = Block /\ Computing' = Computing /\ \A p : VisibleFrom(p)' = VisibleFrom(p)
        /\ \A b, q : NumberedIn(b, q)' <=> NumberedIn(b, q)
        /\ \A p, q : Twins(p, q)' <=> Twins(p, q)
        /\ \A k, b : Dominates(k, b)' <=> Dominates(k, b)
        /\ ChildrenFit' <=> ChildrenFit
    BY <2>1 DEF ChildrenFit, Computing, Listed, Block, NumberedIn, NodesOf, Last, Pending, Dominates, Chain,
                Top, Twins, Alikes, VisibleFrom
  <2> QED BY <2>1, <2>2 DEF CleanInv
<1> QED BY <1>0, <1>1, <1>2, <1>3, <1>4, <1>5, <1>6 DEF PipeNext

(* When nothing is left to come, everything has been numbered.              *)
LEMMA CleanAtEnd ==
  ASSUME PInv, CleanInv, ChildrenFit
  PROVE  NoRedundancyLeft
<1> SUFFICES ASSUME stage = "gvn", cur = 0, Len(walk) = 1, Top.todo = <<>>, ~full,
                    NEW p \in Listed, ir[p].op \in Pure, ir[p].dst # NoTemp,
                    NEW q \in Listed, q \in Walked, ir[q].op \in Pure, ir[q].dst # NoTemp, Twins(p, q)
             PROVE  q \notin VisibleFrom(p)
  BY DEF NoRedundancyLeft, Twins, Alikes
<1>1. DOMAIN walk = {1} /\ walk[1].todo = <<>>
  BY TopFacts DEF PInv, Top
<1>2. PICK b \in Block : q \in NodesOf(b) /\ Dominates(1, b)
  BY DEF Walked, RootedBlocks
<1>3. ~Pending(b)
  <2>1. DOMAIN <<>> = {}
    OBVIOUS
  <2> QED BY <1>1, <2>1 DEF Pending
<1> QED BY <1>2, <1>3 DEF CleanInv, NumberedIn, Computing

-----------------------------------------------------------------------------
(* The theorems.                                                            *)
LEMMA PipelineHolds ==
  ASSUME PredecessorsFit PROVE PipeSpec => []PInv
<1>1. PipeInit => PInv
  BY GraphInit, SourceInit, LinkInit, DataInit, ScopeInit DEF PipeInit, PInv
<1>2. ASSUME PInv, [PipeNext]_pipeVars PROVE PInv'
  BY <1>2, PassesKeepGraph, GraphStep, SourceStep, LinkStep, DataStep, ScopeStep DEF PInv
<1> QED BY <1>1, <1>2, PTL DEF PipeSpec

(* In every function handed to the pipeline, the links of the list stay     *)
(* sound while nodes are unlinked and freed under the cursors, whatever the *)
(* passes write into the others, and the tables stay within their arrays.   *)
THEOREM PipelineTyped ==
  ASSUME PredecessorsFit PROVE PipeSpec => []PipeTypeOK
<1>1. PInv => PipeTypeOK
  <2> SUFFICES ASSUME PInv PROVE PipeTypeOK
    OBVIOUS
  <2>1. /\ source \in Seq(IRNode) /\ ir \in Seq(IRNode) /\ owner \in BOOLEAN
        /\ stage \in {"analyse", "dce", "gvn", "scan", "ccp", "dce2", "run"}
    BY PipelineAssumption DEF PInv, SourceInv
  <2>2. /\ freed \subseteq DOMAIN ir /\ DOMAIN next = Places /\ prev \in Places /\ cur \in Places
        /\ \A p \in {0} \cup Listed : next[p] \notin freed
        /\ \A p \in Places : next[p] = 0 \/ p < next[p]
        /\ next \in [Places -> Places]
    BY DEF PInv, LinkInv
  <2>3. \A p \in DOMAIN next : next[p] = 0 \/ (p < next[p] /\ next[p] \in DOMAIN ir)
    <3>1. Places = {0} \cup DOMAIN ir
      BY SizeFacts DEF PInv, Places
    <3> QED BY <2>2, <3>1
  <2>4. /\ \A i \in DOMAIN table : table[i] \in Row
        /\ \A i \in DOMAIN cong : cong[i] \in Pair
    BY DEF PInv, DataInv
  <2>5. \A i \in DOMAIN walk : walk[i].block \in Block /\ walk[i].entries <= Len(table)
    BY DEF PInv, ScopeInv, PathInv, Path
  <2>6. \A i \in DOMAIN table : /\ table[i].op \in Pure /\ table[i].dst \in Temp
                                /\ {table[i].src1, table[i].src2} \subseteq Temp \cup {NoTemp}
    BY <2>4 DEF Row, Operand
  <2>7. \A i \in DOMAIN cong : cong[i].from \in Temp /\ cong[i].to \in Temp
    BY <2>4 DEF Pair
  <2>8. /\ Len(table) <= MaxEntries /\ Len(cong) <= MaxCongs
        /\ again \in BOOLEAN /\ full \in BOOLEAN /\ strayed \in BOOLEAN
    BY DEF PInv, DataInv
  <2> QED BY <2>1, <2>2, <2>3, <2>5, <2>6, <2>7, <2>8 DEF PipeTypeOK
<1> QED BY <1>1, PipelineHolds, PTL

LEMMA WalkHolds ==
  ASSUME PredecessorsFit, EndsKept
  PROVE  PipeSpec => [](PInv /\ OwnBlockOnly /\ RecordInv)
<1>1. PipeInit => OwnBlockOnly /\ RecordInv
  BY DEF PipeInit, OwnBlockOnly, RecordInv
<1>2. ASSUME PInv, OwnBlockOnly, RecordInv, [PipeNext]_pipeVars PROVE OwnBlockOnly' /\ RecordInv'
  BY <1>2, OwnBlockStep, RecordStep DEF PInv
<1> QED BY <1>1, <1>2, PipelineHolds, PTL DEF PipeSpec

(* Value numbering stops where the block whose scope is open ends, although *)
(* it follows the links that dead code elimination has changed since the    *)
(* ends of the blocks were recorded.                                        *)
THEOREM WalkStaysInBlock ==
  ASSUME PredecessorsFit, EndsKept PROVE PipeSpec => []OwnBlockOnly
BY WalkHolds, PTL

(* For every function, what the value table holds while a node is numbered  *)
(* has been computed on every path of the graph that leads to that node:    *)
(* the scopes that are open are dominators of the block, and the sets of    *)
(* dominators are sound.                                                    *)
THEOREM TableIsAvailable ==
  ASSUME PredecessorsFit, EndsKept, \A prog \in Programs : LabelsDistinct(prog)
  PROVE  PipeSpec => []AvailableOnAllPaths
<1>1. PInv /\ OwnBlockOnly /\ RecordInv => AvailableOnAllPaths
  <2> SUFFICES ASSUME PInv, OwnBlockOnly, RecordInv, stage = "gvn", cur # 0, NEW i \in DOMAIN table
               PROVE  cur \notin ReachAvoiding({p \in DOMAIN ir : ir[p].dst = table[i].dst})
    BY DEF AvailableOnAllPaths
  <2> DEFINE D == {p \in DOMAIN ir : ir[p].dst = table[i].dst}
  <2>1. /\ Top.block = Path(Len(walk)) /\ Top.block \in Block /\ pc = "done"
        /\ Len(walk) \in Nat /\ DOMAIN walk = 1 .. Len(walk) /\ Len(walk) \in DOMAIN walk
        /\ cur \in NodesOf(Top.block)
    BY TopFacts DEF PInv, OwnBlockOnly
  <2>2. /\ Computed /\ Partition /\ BlocksInv /\ \A b \in Block : b \in dom[b]
    BY <2>1, TreeFacts DEF PInv, GraphInv, PhasesInv, SweepInv
  <2>3. PICK j \in DOMAIN walk : \E q \in Nat : RecordedAt(i, j, q)
    BY DEF RecordInv
  <2>4. PICK q \in Nat : RecordedAt(i, j, q)
    BY <2>3
  <2>5. Path(j) \in Block /\ q \in NodesOf(Path(j))
    BY <2>4 DEF PInv, ScopeInv, PathInv, RecordedAt
  <2>6. Path(j) \in dom[Top.block] /\ (Top.block = Path(j) => q < cur)
    <3>1. CASE j = Len(walk)
      BY <2>1, <2>2, <2>4, <3>1 DEF RecordedAt
    <3>2. CASE j # Len(walk)
      <4>1. j < Len(walk)
        BY <2>1, <3>2
      <4> QED BY <2>1, <4>1 DEF PInv, ScopeInv, PathInv
    <3> QED BY <3>1, <3>2
  <2>7. cur \notin ReachAvoiding({q})
    BY <2>1, <2>2, <2>5, <2>6, SetsAreSound
  <2>8. q \in D
    <3>1. NodesOf(Path(j)) \subseteq DOMAIN nodes
      BY <2>2, <2>5, NodesOfBlocks
    <3> QED BY <2>4, <2>5, <3>1, SizeFacts DEF PInv, RecordedAt
  <2> HIDE DEF D
  <2>9. ReachAvoiding(D) \subseteq ReachAvoiding({q})
    <3>1. {1} \ D \subseteq ReachAvoiding({q})
      BY <2>2, <2>8, ReachIsLeast
    <3>2. \A p \in ReachAvoiding({q}) : Flow(p) \ D \subseteq ReachAvoiding({q})
      BY <2>2, <2>8, ReachIsLeast
    <3> QED BY <2>2, <3>1, <3>2, ReachIsLeast
  <2> QED BY <2>7, <2>9 DEF D
<1> QED BY <1>1, WalkHolds, PTL

LEMMA SemHolds ==
  ASSUME PredecessorsFit, EndsKept, \A prog \in Programs : LabelsDistinct(prog)
  PROVE  PipeSpec /\ [](stage # "analyse" => SsaForm)
           => [](PInv /\ Fresh /\ (stage # "analyse" => AllInv /\ RunInv))
<1> DEFINE Inv == PInv /\ OwnBlockOnly /\ RecordInv /\ Fresh /\ (stage # "analyse" => SemInv /\ RunInv)
           Kept == stage # "analyse" => SsaForm
<1>1. PipeInit /\ PInv /\ OwnBlockOnly /\ RecordInv => Inv
  BY DEF PipeInit, Fresh, NoConst
<1>2. ASSUME Inv, [PipeNext]_pipeVars, Kept', PInv', OwnBlockOnly', RecordInv' PROVE Inv'
  <2>1. Fresh'
    BY <1>2, FreshStep
  <2>2. CASE stage # "analyse"
    <3>1. AllInv /\ RunInv
      BY <1>2, <2>2 DEF AllInv
    <3> QED BY <1>2, <2>1, <3>1, SemStep, RunStep
  <2>3. CASE StartDce
    <3>1. stage = "analyse" /\ stage' = "dce" /\ before' = before /\ after' = after
      BY <2>3 DEF StartDce, StartSweepAt, execVars
    <3>2. SemInv'
      BY <1>2, <2>3, <3>1, SemStarts
    <3>3. RunInv'
      BY <1>2, <3>1 DEF RunInv, Fresh
    <3> QED BY <1>2, <2>1, <3>2, <3>3
  <2>4. CASE stage = "analyse" /\ ~StartDce
    <3>1. stage' = "analyse"
      BY <1>2, <2>4 DEF PipeNext, pipeVars, Analyse, DceDelete, DceKeep, DceAgain, StartGvn, GvnNode,
                GvnDescend, GvnLeave, ScanNode, EndScan, CcpNode, EndCcp, StartRun, Run
    <3> QED BY <1>2, <2>1, <3>1
  <2> QED BY <2>2, <2>3, <2>4
<1>3. Inv => PInv /\ Fresh /\ (stage # "analyse" => AllInv /\ RunInv)
  BY DEF AllInv
<1> QED BY <1>1, <1>2, <1>3, WalkHolds, PTL DEF PipeSpec

(* In every function in which each temporary has one definition, or is the  *)
(* result of a "?:", and each use is behind it on every path of the graph,  *)
(* the list that dead code elimination, value numbering and propagation     *)
(* leave does what the source does, whichever of the branches that the      *)
(* graph accounts for are taken: it stores the same values to the same      *)
(* addresses, branches alike and returns the same value.                    *)
THEOREM MeaningKept ==
  ASSUME PredecessorsFit, EndsKept, \A prog \in Programs : LabelsDistinct(prog)
  PROVE  PipeSpec /\ [](stage # "analyse" => SsaForm) => []SameEffects
<1>1. PInv /\ (stage # "analyse" => AllInv /\ RunInv) => SameEffects
  <2> SUFFICES ASSUME PInv, stage # "analyse" => AllInv /\ RunInv PROVE SameEffects
    OBVIOUS
  <2>1. CASE stage = "analyse"
    BY <2>1 DEF SameEffects, EffectsAgree
  <2>2. CASE stage # "analyse"
    BY <2>2, EffectsSame DEF AllInv, SemInv
  <2> QED BY <2>1, <2>2
<1> QED BY <1>1, SemHolds, PTL

(* In every such function without a loop that nothing leads to, value       *)
(* numbering misses nothing that its walk comes to, as long as its table    *)
(* has never been full: when the walk is back at the entry, no operation in *)
(* a block below the entry repeats one that dominates it.  Congruences that *)
(* find no room are no loss.  No block may have more children than its list *)
(* holds, since the walk does not go where the list does not lead.          *)
THEOREM NothingMissed ==
  ASSUME PredecessorsFit, EndsKept, \A prog \in Programs : LabelsDistinct(prog)
  PROVE  PipeSpec /\ [](stage # "analyse" => SsaForm /\ Rooted) => [](ChildrenFit => NoRedundancyLeft)
<1> DEFINE Known1 == PInv /\ Fresh /\ (stage # "analyse" => AllInv /\ RunInv)
           Inv == FlatInv /\ HeldInv /\ CleanInv
<1>1. PipeInit => Inv
  BY DEF PipeInit, FlatInv, HeldInv, CleanInv
<1>2. ASSUME Inv, Known1, [PipeNext]_pipeVars, stage # "analyse" => SsaForm /\ Rooted PROVE Inv'
  <2>1. CASE stage # "analyse"
    <3>1. AllInv /\ Rooted
      BY <1>2, <2>1
    <3>2. nodes' = nodes /\ first' = first /\ source' = source
      BY <1>2, <3>1, GraphKept DEF AllInv, SemInv
    <3> QED BY <1>2, <3>1, <3>2, FlatStep, HeldStep, CleanStep
  <2>2. CASE stage = "analyse"
    <3>1. stage' # "gvn"
      BY <1>2, <2>2 DEF PipeNext, pipeVars, Analyse, StartDce, DceDelete, DceKeep, DceAgain, StartGvn, GvnNode,
                GvnDescend, GvnLeave, ScanNode, EndScan, CcpNode, EndCcp, StartRun, Run, StartSweepAt
    <3> QED BY <3>1 DEF FlatInv, HeldInv, CleanInv
  <2> QED BY <2>1, <2>2
<1>3. Known1 /\ Inv => (ChildrenFit => NoRedundancyLeft)
  BY CleanAtEnd
<1>4. PipeSpec /\ [](stage # "analyse" => SsaForm /\ Rooted) => []Known1
  BY SemHolds, PTL
<1> QED BY <1>1, <1>2, <1>3, <1>4, PTL DEF PipeSpec
=============================================================================
