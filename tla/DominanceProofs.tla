-------------------------- MODULE DominanceProofs --------------------------
(***************************************************************************)
(* The dominance pass computes dominance: proofs for every node list.       *)
(***************************************************************************)
EXTENDS Dominance, FiniteSetTheorems, FunctionTheorems, SequenceTheorems, WellFoundedInduction, TLAPS

(* Least and greatest numbers.                                              *)
LEMMA LeastExists ==
  ASSUME NEW S \in SUBSET Nat, S # {}
  PROVE  \E x \in S : \A y \in S : x <= y
<1> DEFINE R == OpToRel(<, Nat)
<1>1. IsWellFoundedOn(R, Nat)
  BY NatLessThanWellFounded
<1>2. \A x, y \in Nat : <<y, x>> \in R <=> y < x
  BY DEF OpToRel
<1> HIDE DEF R
<1>3. PICK x \in S : \A y \in S : ~ (<<y, x>> \in R)
  BY <1>1, WFMin
<1>4. \A y \in S : ~(y < x) /\ x \in Nat /\ y \in Nat
  BY <1>2, <1>3
<1> QED BY <1>4

LEMMA GreatestExists ==
  ASSUME NEW S \in SUBSET Nat, S # {}, NEW m \in Nat, \A x \in S : x <= m
  PROVE  \E x \in S : \A y \in S : y <= x
<1> DEFINE D == {m - x : x \in S}
<1>1. D \in SUBSET Nat /\ D # {}
  <2>1. \A x \in S : x \in Nat /\ m - x \in Nat
    OBVIOUS
  <2> QED BY <2>1
<1>2. PICK d \in D : \A e \in D : d <= e
  BY <1>1, LeastExists
<1>3. PICK x \in S : d = m - x
  OBVIOUS
<1>4. ASSUME NEW y \in S PROVE y <= x
  <2>1. d <= m - y /\ x \in Nat /\ y \in Nat
    BY <1>2
  <2> QED BY <1>3, <2>1
<1> QED BY <1>4

-----------------------------------------------------------------------------
(* Growing a set along a relation, as often as it has elements.             *)
Closed(S, G) == \A x \in S : G[x] \subseteq S

Grows(f, A, G, n) ==
  f = [k \in 0 .. n |-> IF k = 0 THEN A ELSE f[k - 1] \cup UNION {G[x] : x \in f[k - 1]}]

LEMMA GrowthExists ==
  ASSUME NEW N, NEW n \in Nat, NEW A \in SUBSET N, NEW G \in [N -> SUBSET N]
  PROVE  \E f \in [0 .. n -> SUBSET N] : Grows(f, A, G, n)
<1> DEFINE bad == {m \in Nat : ~ \E f \in [0 .. m -> SUBSET N] : Grows(f, A, G, m)}
<1>1. ASSUME bad # {} PROVE FALSE
  <2>1. PICK m \in bad : \A k \in bad : m <= k
    BY <1>1, LeastExists
  <2>2. m # 0
    <3>1. Grows([k \in 0 .. 0 |-> A], A, G, 0)
      BY DEF Grows
    <3>2. [k \in 0 .. 0 |-> A] \in [0 .. 0 -> SUBSET N]
      OBVIOUS
    <3> QED BY <3>1, <3>2
  <2>3. m - 1 \in Nat /\ m - 1 \notin bad
    BY <2>1, <2>2
  <2>4. PICK f \in [0 .. m - 1 -> SUBSET N] : Grows(f, A, G, m - 1)
    BY <2>3
  <2> DEFINE g == [k \in 0 .. m |-> IF k = m THEN f[m - 1] \cup UNION {G[x] : x \in f[m - 1]}
                                    ELSE f[k]]
  <2>5. \A k \in 0 .. m - 1 : g[k] = f[k] /\ f[k] \in SUBSET N /\ k \in 0 .. m /\ k # m
    BY <2>3, <2>4
  <2>6. g \in [0 .. m -> SUBSET N]
    <3>1. m - 1 \in 0 .. m - 1
      BY <2>3
    <3>2. f[m - 1] \cup UNION {G[x] : x \in f[m - 1]} \in SUBSET N
      BY <3>1, <2>4
    <3>3. \A k \in 0 .. m : k # m => k \in 0 .. m - 1
      OBVIOUS
    <3> QED BY <2>4, <3>2, <3>3
  <2>7. ASSUME NEW k \in 0 .. m
        PROVE  g[k] = IF k = 0 THEN A ELSE g[k - 1] \cup UNION {G[x] : x \in g[k - 1]}
    <3>1. CASE k = m
      <4>1. g[m] = f[m - 1] \cup UNION {G[x] : x \in f[m - 1]}
        OBVIOUS
      <4>2. g[m - 1] = f[m - 1]
        BY <2>3
      <4> QED BY <2>2, <3>1, <4>1, <4>2
    <3>2. CASE k # m
      <4>1. k \in 0 .. m - 1
        BY <3>2
      <4>2. f[k] = IF k = 0 THEN A ELSE f[k - 1] \cup UNION {G[x] : x \in f[k - 1]}
        BY <2>4, <4>1 DEF Grows
      <4>3. k # 0 => k - 1 \in 0 .. m - 1
        BY <4>1
      <4>4. g[k] = f[k] /\ (k # 0 => g[k - 1] = f[k - 1])
        BY <2>5, <4>1, <4>3
      <4> QED BY <4>2, <4>4
    <3> QED BY <3>1, <3>2
  <2>8. Grows(g, A, G, m)
    <3> DEFINE h == [k \in 0 .. m |-> IF k = 0 THEN A
                                      ELSE g[k - 1] \cup UNION {G[x] : x \in g[k - 1]}]
    <3>1. DOMAIN g = 0 .. m /\ DOMAIN h = 0 .. m /\ g = [k \in 0 .. m |-> g[k]]
      BY <2>6
    <3>2. \A k \in 0 .. m : g[k] = h[k]
      BY <2>7
    <3> HIDE DEF g
    <3>3. g = h
      BY <3>1, <3>2
    <3> QED BY <3>3 DEF Grows
  <2> HIDE DEF g
  <2> QED BY <2>1, <2>6, <2>8
<1> QED BY <1>1

LEMMA GrowthCloses ==
  ASSUME NEW N, IsFiniteSet(N), NEW n \in Nat, NEW A \in SUBSET N, NEW G \in [N -> SUBSET N],
         Cardinality(N) <= n \/ (A # {} /\ Cardinality(N) <= n + 1),
         NEW f, Grows(f, A, G, n)
  PROVE  /\ A \subseteq f[n] /\ f[n] \subseteq N /\ Closed(f[n], G)
         /\ \A S : A \subseteq S /\ Closed(S, G) => f[n] \subseteq S
<1> DEFINE Step(S) == S \cup UNION {G[x] : x \in S}
<1>1. f[0] = A /\ \A k \in 1 .. n : f[k] = Step(f[k - 1])
  <2>1. \A k \in 0 .. n : f[k] = IF k = 0 THEN A ELSE f[k - 1] \cup UNION {G[x] : x \in f[k - 1]}
    BY DEF Grows
  <2>2. 0 \in 0 .. n /\ \A k \in 1 .. n : k \in 0 .. n /\ k # 0
    OBVIOUS
  <2> QED BY <2>1, <2>2
<1>2. \A k \in 0 .. n : A \subseteq f[k] /\ f[k] \subseteq N
  <2> DEFINE bad == {k \in 0 .. n : ~(A \subseteq f[k] /\ f[k] \subseteq N)}
  <2> SUFFICES ASSUME bad # {} PROVE FALSE
    OBVIOUS
  <2>1. PICK k \in bad : \A j \in bad : k <= j
    <3>1. bad \in SUBSET Nat
      OBVIOUS
    <3> QED BY <3>1, LeastExists
  <2>2. k # 0
    BY <1>1
  <2>3. k - 1 \in 0 .. n /\ k - 1 \notin bad /\ k \in 1 .. n
    BY <2>1, <2>2
  <2>4. A \subseteq f[k - 1] /\ f[k - 1] \subseteq N /\ f[k] = Step(f[k - 1])
    BY <1>1, <2>3
  <2>5. A \subseteq f[k] /\ f[k] \subseteq N
    BY <2>4
  <2> QED BY <2>1, <2>5
<1>3. ASSUME NEW S, A \subseteq S, Closed(S, G) PROVE f[n] \subseteq S
  <2> DEFINE bad == {k \in 0 .. n : ~(f[k] \subseteq S)}
  <2> SUFFICES ASSUME bad # {} PROVE FALSE
    OBVIOUS
  <2>1. PICK k \in bad : \A j \in bad : k <= j
    <3>1. bad \in SUBSET Nat
      OBVIOUS
    <3> QED BY <3>1, LeastExists
  <2>2. k # 0
    BY <1>1, <1>3
  <2>3. k - 1 \in 0 .. n /\ k - 1 \notin bad /\ k \in 1 .. n
    BY <2>1, <2>2
  <2>4. f[k - 1] \subseteq S /\ f[k] = Step(f[k - 1])
    BY <1>1, <2>3
  <2>5. f[k] \subseteq S
    BY <2>4, <1>3 DEF Closed
  <2> QED BY <2>1, <2>5
<1>4. Closed(f[n], G)
  <2> SUFFICES ASSUME ~Closed(f[n], G) PROVE FALSE
    OBVIOUS
  <2>1. ASSUME NEW k \in 0 .. n, Closed(f[k], G) PROVE FALSE
    <3> DEFINE bad == {j \in k .. n : f[j] # f[k]}
    <3>1. k \in Nat /\ bad \in SUBSET Nat
      OBVIOUS
    <3>2. n \in bad
      BY <2>1
    <3>3. PICK j \in bad : \A i \in bad : j <= i
      BY <3>1, <3>2, LeastExists
    <3>4. j # k /\ j - 1 \in k .. n /\ j - 1 \notin bad /\ j \in 1 .. n
      BY <3>1, <3>3
    <3>5. f[j] = Step(f[k])
      BY <1>1, <3>4
    <3>6. Step(f[k]) = f[k]
      BY <2>1 DEF Closed
    <3> QED BY <3>3, <3>5, <3>6
  <2>2. \A k \in 0 .. n : IsFiniteSet(f[k]) /\ Cardinality(f[k]) \in Nat
                          /\ Cardinality(f[k]) <= Cardinality(N) /\ Cardinality(N) \in Nat
    BY <1>2, FS_Subset, FS_CardinalityType
  <2>3. ASSUME NEW k \in 1 .. n PROVE Cardinality(f[k]) >= Cardinality(f[k - 1]) + 1
    <3>1. k - 1 \in 0 .. n /\ k \in 0 .. n
      OBVIOUS
    <3>2. PICK x : x \in UNION {G[y] : y \in f[k - 1]} /\ x \notin f[k - 1]
      BY <2>1, <3>1 DEF Closed
    <3>3. f[k - 1] \cup {x} \subseteq f[k]
      BY <1>1, <3>2
    <3>4. /\ IsFiniteSet(f[k - 1]) /\ IsFiniteSet(f[k])
          /\ Cardinality(f[k - 1] \cup {x}) = Cardinality(f[k - 1]) + 1
      BY <2>2, <3>1, <3>2, FS_AddElement
    <3>5. Cardinality(f[k - 1] \cup {x}) <= Cardinality(f[k])
      BY <3>3, <3>4, FS_Subset
    <3> QED BY <3>4, <3>5, <3>1, <2>2
  <2> DEFINE c0 == IF A = {} THEN 0 ELSE 1
  <2>4. \A k \in 0 .. n : Cardinality(f[k]) >= k + c0
    <3> DEFINE bad == {k \in 0 .. n : ~(Cardinality(f[k]) >= k + c0)}
    <3> SUFFICES ASSUME bad # {} PROVE FALSE
      OBVIOUS
    <3>1. PICK k \in bad : \A j \in bad : k <= j
      <4>1. bad \in SUBSET Nat
        OBVIOUS
      <4> QED BY <4>1, LeastExists
    <3>2. k # 0
      <4>1. Cardinality(A) \in Nat /\ (A # {} => Cardinality(A) # 0)
        BY <1>1, <2>2, FS_EmptySet
      <4> QED BY <1>1, <3>1, <4>1
    <3>3. k - 1 \in 0 .. n /\ k - 1 \notin bad /\ k \in 1 .. n /\ k \in 0 .. n
      BY <3>1, <3>2
    <3>4. Cardinality(f[k - 1]) >= (k - 1) + c0 /\ Cardinality(f[k]) >= Cardinality(f[k - 1]) + 1
      BY <2>3, <3>3
    <3>5. Cardinality(f[k - 1]) \in Nat /\ Cardinality(f[k]) \in Nat /\ c0 \in Nat
      BY <2>2, <3>3
    <3> HIDE DEF c0
    <3>6. Cardinality(f[k]) >= k + c0
      BY <3>3, <3>4, <3>5
    <3> QED BY <3>1, <3>6
  <2>5. n \in 0 .. n /\ Cardinality(f[n]) >= n + c0
    BY <2>4
  <2>6. Cardinality(f[n]) >= Cardinality(N)
    BY <2>2, <2>5
  <2>7. f[n] = N
    <3>1. f[n] \in SUBSET N
      BY <1>2, <2>5
    <3>2. Cardinality(f[n]) = Cardinality(N)
      BY <2>2, <2>5, <2>6
    <3> QED BY <3>1, <3>2, FS_Subset
  <2>8. Closed(N, G)
    BY DEF Closed
  <2> QED BY <2>7, <2>8
<1> QED BY <1>2, <1>3, <1>4
-----------------------------------------------------------------------------
(* Blocks.  first[] begins at 1, grows, and holds exactly the labels met.   *)
BlocksInv ==
  /\ nodes \in Programs
  /\ first \in Seq(DOMAIN nodes)
  /\ Len(first) \in 1 .. MaxBlocks
  /\ first[1] = 1
  /\ \A a, b \in Block : a < b => first[a] < first[b]
  /\ \A b \in Block : b # 1 => nodes[first[b]].op = "label"
  /\ pc \in {"split", "failed"} => at \in 2 .. Len(nodes) + 1
  /\ pc = "split" => \A b \in Block : first[b] < at
  /\ pc # "failed" => \A p \in 2 .. Len(nodes) :
        nodes[p].op = "label" /\ (pc = "split" => p < at) => \E b \in Block : first[b] = p

Partition == BlocksInv /\ pc \notin {"split", "failed"}

Graph == <<nodes, first>>

LEMMA NodesType ==
  ASSUME BlocksInv
  PROVE  /\ nodes \in Seq(Node) /\ Len(nodes) \in Nat \ {0} /\ DOMAIN nodes = 1 .. Len(nodes)
         /\ Len(first) \in Nat \ {0} /\ DOMAIN first = Block
         /\ \A b \in Block : first[b] \in 1 .. Len(nodes)
<1>1. nodes \in Seq(Node) /\ nodes # <<>>
  BY DominanceAssumption DEF BlocksInv
<1>2. first \in Seq(DOMAIN nodes) /\ Len(first) \in Nat \ {0}
  BY DominanceAssumption DEF BlocksInv
<1> QED BY <1>1, <1>2, EmptySeq DEF Block

LEMMA BlocksInit == Init => BlocksInv
<1> SUFFICES ASSUME Init PROVE BlocksInv
  OBVIOUS
<1>1. nodes \in Seq(Node) /\ nodes # <<>> /\ Len(nodes) \in Nat \ {0} /\ DOMAIN nodes = 1 .. Len(nodes)
  BY DominanceAssumption, EmptySeq DEF Init
<1>2. first = <<1>> /\ Len(first) = 1 /\ Block = {1} /\ first[1] = 1 /\ first \in Seq(DOMAIN nodes)
  BY <1>1 DEF Init, Block
<1>3. at = 2 /\ pc = "split" /\ nodes \in Programs /\ 1 \in 1 .. MaxBlocks
  BY DominanceAssumption DEF Init
<1> QED BY <1>1, <1>2, <1>3 DEF BlocksInv

LEMMA BlocksSplit == BlocksInv /\ Split => BlocksInv'
<1> SUFFICES ASSUME BlocksInv, Split PROVE BlocksInv'
  OBVIOUS
<1> DEFINE N == Len(nodes)
<1>1. /\ pc = "split" /\ at \in 2 .. N /\ at' = at + 1 /\ nodes' = nodes /\ N \in Nat
      /\ at \in DOMAIN nodes
  BY NodesType DEF Split, BlocksInv
<1>2. CASE nodes[at].op # "label"
  <2>1. first' = first /\ pc' = pc
    BY <1>2 DEF Split
  <2>2. Block' = Block
    BY <2>1 DEF Block
  <2>3. \A b \in Block : first[b] \in Nat /\ first[b] < at + 1
    <3>1. \A b \in Block : first[b] \in 1 .. Len(nodes)
      BY NodesType
    <3>2. \A b \in Block : first[b] < at
      BY <1>1 DEF BlocksInv
    <3> QED BY <1>1, <3>1, <3>2
  <2>4. \A p \in 2 .. Len(nodes) : nodes[p].op = "label" /\ p < at + 1 => p < at
    BY <1>1, <1>2
  <2>5. \A p \in 2 .. Len(nodes') :
            nodes'[p].op = "label" /\ (pc' = "split" => p < at') => \E b \in Block' : first'[b] = p
    BY <1>1, <2>1, <2>2, <2>4 DEF BlocksInv
  <2>6. at' \in 2 .. Len(nodes') + 1 /\ \A b \in Block' : first'[b] < at'
    BY <1>1, <2>1, <2>2, <2>3
  <2> QED BY <1>1, <2>1, <2>2, <2>5, <2>6 DEF BlocksInv
<1>3. CASE nodes[at].op = "label" /\ Len(first) = MaxBlocks
  <2>1. first' = first /\ pc' = "failed"
    BY <1>3 DEF Split
  <2>2. Block' = Block
    BY <2>1 DEF Block
  <2> QED BY <1>1, <2>1, <2>2 DEF BlocksInv
<1>4. CASE nodes[at].op = "label" /\ Len(first) # MaxBlocks
  <2>1. first' = Append(first, at) /\ pc' = pc
    BY <1>4 DEF Split
  <2> DEFINE k == Len(first) + 1
  <2>2. /\ Len(first') = k /\ first' \in Seq(DOMAIN nodes)
        /\ \A b \in Block : first'[b] = first[b]
        /\ first'[k] = at
        /\ k \in 1 .. MaxBlocks /\ Block' = Block \cup {k} /\ k \notin Block
    <3>1. Len(first) \in Nat \ {0} /\ Len(first) <= MaxBlocks /\ MaxBlocks \in Nat
      BY DominanceAssumption DEF BlocksInv
    <3>2. first \in Seq(DOMAIN nodes)
      BY DEF BlocksInv
    <3>3. /\ first' \in Seq(DOMAIN nodes) /\ Len(first') = k
          /\ \A b \in 1 .. Len(first) : first'[b] = first[b]
          /\ first'[k] = at
      BY <1>1, <2>1, <3>1, <3>2, AppendProperties
    <3> QED BY <1>4, <3>1, <3>3 DEF Block
  <2>3. 1 \in Block /\ k # 1
    BY NodesType DEF Block
  <2>4. \A b \in Block : first[b] < at /\ b < k /\ first[b] \in Nat
    <3>1. \A b \in Block : first[b] \in 1 .. Len(nodes)
      BY NodesType
    <3>2. \A b \in Block : first[b] < at
      BY <1>1 DEF BlocksInv
    <3>3. \A b \in Block : b < k
      BY NodesType DEF Block
    <3> QED BY <1>1, <3>1, <3>2, <3>3
  <2> HIDE DEF k
  <2>5. ASSUME NEW a \in Block', NEW b \in Block', a < b PROVE first'[a] < first'[b]
    <3>1. k \in Nat /\ \A c \in Block : c \in Nat
      BY <2>2, DominanceAssumption DEF Block
    <3>2. a \in Block
      <4>1. b \in Block \/ b = k
        BY <2>2
      <4>2. b <= k
        BY <2>4, <3>1, <4>1
      <4>3. a # k
        BY <2>5, <3>1, <4>1, <4>2
      <4> QED BY <2>2, <4>3
    <3>3. CASE b \in Block
      <4>1. first[a] < first[b]
        BY <2>5, <3>2, <3>3 DEF BlocksInv
      <4> QED BY <2>2, <3>2, <3>3, <4>1
    <3>4. CASE b = k
      BY <2>2, <2>4, <3>2, <3>4
    <3> QED BY <2>2, <3>3, <3>4
  <2>6. \A b \in Block' : b # 1 => nodes'[first'[b]].op = "label"
    BY <1>1, <1>4, <2>2 DEF BlocksInv
  <2>7. \A b \in Block' : first'[b] < at'
    BY <1>1, <2>2, <2>4
  <2>8. ASSUME NEW p \in 2 .. Len(nodes), nodes[p].op = "label", p < at'
        PROVE  \E b \in Block' : first'[b] = p
    <3>1. CASE p = at
      BY <2>2, <3>1
    <3>2. CASE p # at
      <4>1. p < at
        BY <1>1, <2>8, <3>2
      <4> QED BY <1>1, <2>2, <2>8, <4>1 DEF BlocksInv
    <3> QED BY <3>1, <3>2
  <2>9. /\ Len(first') \in 1 .. MaxBlocks /\ first'[1] = 1 /\ at' \in 2 .. Len(nodes') + 1
        /\ nodes' \in Programs /\ first' \in Seq(DOMAIN nodes') /\ pc' = "split"
    BY <1>1, <2>1, <2>2, <2>3 DEF BlocksInv
  <2>10. \A p \in 2 .. Len(nodes') :
            nodes'[p].op = "label" /\ (pc' = "split" => p < at') => \E b \in Block' : first'[b] = p
    BY <1>1, <2>8, <2>9
  <2> QED BY <2>5, <2>6, <2>7, <2>9, <2>10 DEF BlocksInv
<1> QED BY <1>2, <1>3, <1>4

LEMMA BlocksRest ==
  ASSUME BlocksInv, [Next]_vars, ~Split
  PROVE  BlocksInv' /\ UNCHANGED Graph /\ (pc = "failed" => pc' = "failed" /\ at' = at)
         /\ (pc' = "split" => UNCHANGED vars) /\ (pc' = "failed" => pc = "failed")
<1>1. UNCHANGED Graph
  BY DEF Next, StartWire, Wire, StartSweep, SweepBlock, EndSweep, ExtractIdom, StartTree,
         Number, NumberRest, vars, Graph
<1>2. \/ UNCHANGED vars
      \/ pc = "split" /\ pc' = "wire" /\ at = Len(nodes) + 1
      \/ pc \notin {"split", "failed"} /\ pc' \notin {"split", "failed"}
  <2>1. CASE StartWire
    <3>1. Len(nodes) \in Nat /\ at \in 2 .. Len(nodes) + 1
      BY <2>1, NodesType DEF StartWire, BlocksInv
    <3> QED BY <2>1, <3>1 DEF StartWire
  <2>2. CASE ~StartWire
    BY <2>2 DEF Next, Wire, StartSweep, SweepBlock, EndSweep, ExtractIdom, StartTree,
                Number, NumberRest
  <2> QED BY <2>1, <2>2
<1>3. BlocksInv'
  <2>1. nodes' = nodes /\ first' = first /\ Block' = Block
    BY <1>1 DEF Graph, Block
  <2>2. CASE UNCHANGED vars
    BY <2>1, <2>2 DEF BlocksInv, vars
  <2>3. CASE pc = "split" /\ pc' = "wire" /\ at = Len(nodes) + 1
    <3>1. \A p \in 2 .. Len(nodes) : p < at
      BY <2>3, NodesType
    <3> QED BY <2>1, <2>3, <3>1 DEF BlocksInv
  <2>4. CASE pc \notin {"split", "failed"} /\ pc' \notin {"split", "failed"}
    BY <2>1, <2>4 DEF BlocksInv
  <2> QED BY <1>2, <2>2, <2>3, <2>4
<1> QED BY <1>1, <1>2, <1>3 DEF vars

(* The blocks are a partition of the nodes.                                 *)
LEMMA NodesOfBlocks ==
  ASSUME Partition
  PROVE  /\ \A b \in Block : first[b] \in NodesOf(b) /\ Last(b) \in NodesOf(b)
                             /\ NodesOf(b) \subseteq DOMAIN nodes /\ Last(b) \in Nat
         /\ \A p \in DOMAIN nodes : \E b \in Block : p \in NodesOf(b)
         /\ \A a, b \in Block : \A p : p \in NodesOf(a) /\ p \in NodesOf(b) => a = b
<1>1. /\ Len(nodes) \in Nat \ {0} /\ DOMAIN nodes = 1 .. Len(nodes)
      /\ Len(first) \in Nat \ {0} /\ Block = 1 .. Len(first)
      /\ \A b \in Block : first[b] \in 1 .. Len(nodes)
      /\ \A a, b \in Block : a < b => first[a] < first[b]
      /\ first[1] = 1
  BY NodesType DEF Partition, BlocksInv, Block
<1>2. ASSUME NEW b \in Block
      PROVE  /\ Last(b) \in Nat /\ first[b] <= Last(b) /\ Last(b) <= Len(nodes)
             /\ \A c \in Block : c > b => Last(b) < first[c]
  <2>1. CASE b = Len(first)
    BY <1>1, <2>1 DEF Last
  <2>2. CASE b # Len(first)
    <3>1. b + 1 \in Block /\ b < b + 1
      BY <1>1, <2>2
    <3>2. first[b] < first[b + 1] /\ first[b + 1] \in 1 .. Len(nodes) /\ first[b] \in Nat
      BY <1>1, <3>1
    <3>3. \A c \in Block : c > b => first[b + 1] <= first[c] /\ first[c] \in Nat
      <4> SUFFICES ASSUME NEW c \in Block, c > b PROVE first[b + 1] <= first[c] /\ first[c] \in Nat
        OBVIOUS
      <4>1. c = b + 1 \/ b + 1 < c
        BY <1>1
      <4> QED BY <1>1, <3>1, <4>1
    <3> QED BY <2>2, <3>2, <3>3 DEF Last
  <2> QED BY <2>1, <2>2
<1>3. \A b \in Block : /\ first[b] \in NodesOf(b) /\ Last(b) \in NodesOf(b)
                       /\ NodesOf(b) \subseteq DOMAIN nodes /\ Last(b) \in Nat
  BY <1>1, <1>2 DEF NodesOf
<1>4. ASSUME NEW p \in DOMAIN nodes PROVE \E b \in Block : p \in NodesOf(b)
  <2> DEFINE S == {b \in Block : first[b] <= p}
  <2>1. 1 \in S /\ S \in SUBSET Nat /\ \A b \in S : b <= Len(first)
    BY <1>1
  <2>2. PICK b \in S : \A c \in S : c <= b
    BY <1>1, <2>1, GreatestExists
  <2>3. p <= Last(b)
    <3>1. CASE b = Len(first)
      BY <1>1, <3>1 DEF Last
    <3>2. CASE b # Len(first)
      <4>1. b + 1 \in Block /\ ~(b + 1 <= b)
        BY <1>1, <3>2
      <4>2. b + 1 \notin S
        BY <2>2, <4>1
      <4>3. ~(first[b + 1] <= p) /\ first[b + 1] \in 1 .. Len(nodes)
        BY <1>1, <4>1, <4>2
      <4> QED BY <1>1, <3>2, <4>3 DEF Last
    <3> QED BY <3>1, <3>2
  <2> QED BY <1>1, <1>2, <2>3 DEF NodesOf
<1>5. ASSUME NEW a \in Block, NEW b \in Block, NEW p, p \in NodesOf(a), p \in NodesOf(b)
      PROVE  a = b
  <2>1. ~(a < b) /\ ~(b < a)
    BY <1>1, <1>2, <1>3, <1>5 DEF NodesOf
  <2> QED BY <1>1, <2>1
<1> QED BY <1>3, <1>4, <1>5

-----------------------------------------------------------------------------
(* What the two recursive definitions compute.                              *)
ReachRec(f, start, avoid) ==
  f = [k \in 0 .. Len(nodes) |->
         IF k = 0 THEN start \ avoid
         ELSE f[k - 1] \cup ((UNION {Flow(p) : p \in f[k - 1]}) \ avoid)]

LEMMA UnionWithout ==
  ASSUME NEW S, NEW F, NEW G, NEW avoid, \A x \in S : G[x] = F[x] \ avoid
  PROVE  UNION {G[x] : x \in S} = (UNION {F[x] : x \in S}) \ avoid
<1> DEFINE L == UNION {G[x] : x \in S}
           R == UNION {F[x] : x \in S}
<1>1. \A q : q \in L <=> \E x \in S : q \in G[x]
  OBVIOUS
<1>2. \A q : q \in R <=> \E x \in S : q \in F[x]
  OBVIOUS
<1> HIDE DEF L, R
<1>3. \A q : q \in L <=> q \in R \ avoid
  BY <1>1, <1>2
<1>4. L = R \ avoid
  BY <1>3
<1> QED BY <1>4 DEF L, R

LEMMA ReachUnfolds ==
  ASSUME NEW start, NEW avoid, NEW f, ReachRec(f, start, avoid)
  PROVE  \E g : ReachRec(g, start, avoid) /\ Reaching(start, avoid) = g[Len(nodes)]
<1> DEFINE R == CHOOSE g : ReachRec(g, start, avoid)
<1>1. ReachRec(R, start, avoid)
  OBVIOUS
<1>2. Reaching(start, avoid) = R[Len(nodes)]
  BY DEF Reaching, ReachRec
<1> HIDE DEF R
<1> QED BY <1>1, <1>2

(* Reaching is the least set with "start" that the flow of control does not *)
(* leave, except into "avoid".                                              *)
LEMMA ReachingIsLeast ==
  ASSUME BlocksInv, NEW start \in SUBSET DOMAIN nodes, NEW avoid,
         \A p : Flow(p) \subseteq DOMAIN nodes
  PROVE  /\ start \ avoid \subseteq Reaching(start, avoid)
         /\ Reaching(start, avoid) \subseteq DOMAIN nodes
         /\ Reaching(start, avoid) \cap avoid = {}
         /\ \A p \in Reaching(start, avoid) : Flow(p) \ avoid \subseteq Reaching(start, avoid)
         /\ \A S : start \ avoid \subseteq S /\ (\A p \in S : Flow(p) \ avoid \subseteq S)
                     => Reaching(start, avoid) \subseteq S
<1> DEFINE n == Len(nodes)
           A == start \ avoid
           N == DOMAIN nodes \ avoid
           G == [p \in N |-> Flow(p) \ avoid]
<1>1. n \in Nat /\ DOMAIN nodes = 1 .. n /\ 1 \in DOMAIN nodes
  BY NodesType
<1>2. A \in SUBSET N /\ \A p : Flow(p) \subseteq DOMAIN nodes
  OBVIOUS
<1>3. G \in [N -> SUBSET N] /\ \A p \in N : G[p] = Flow(p) \ avoid
  BY <1>2
<1>4. IsFiniteSet(N) /\ Cardinality(N) <= n
  <2>1. IsFiniteSet(1 .. n) /\ Cardinality(1 .. n) = n
    BY <1>1, FS_Interval
  <2> QED BY <1>1, <2>1, FS_Subset
<1> HIDE DEF G, N
<1>5. ASSUME NEW S \in SUBSET N
      PROVE  UNION {G[x] : x \in S} = (UNION {Flow(p) : p \in S}) \ avoid
  <2> DEFINE F == [p \in S |-> Flow(p)]
  <2>1. \A x \in S : F[x] = Flow(x) /\ G[x] = F[x] \ avoid
    BY <1>3
  <2> HIDE DEF F
  <2>2. {Flow(p) : p \in S} = {F[p] : p \in S}
    BY <2>1, Zenon
  <2>3. UNION {G[x] : x \in S} = (UNION {F[x] : x \in S}) \ avoid
    BY <2>1, UnionWithout
  <2> QED BY <2>2, <2>3, Zenon
<1>6. PICK f \in [0 .. n -> SUBSET N] : Grows(f, A, G, n)
  BY <1>1, <1>2, <1>3, GrowthExists
<1>7. ReachRec(f, start, avoid)
  <2> DEFINE h == [k \in 0 .. n |-> IF k = 0 THEN A
                      ELSE f[k - 1] \cup ((UNION {Flow(p) : p \in f[k - 1]}) \ avoid)]
  <2>1. ASSUME NEW k \in 0 .. n PROVE f[k] = h[k]
    <3>1. f[k] = IF k = 0 THEN A ELSE f[k - 1] \cup UNION {G[x] : x \in f[k - 1]}
      BY <1>6 DEF Grows
    <3>2. CASE k = 0
      BY <3>1, <3>2
    <3>3. CASE k # 0
      <4>1. f[k - 1] \in SUBSET N
        BY <1>6, <3>3
      <4>2. UNION {G[x] : x \in f[k - 1]} = (UNION {Flow(p) : p \in f[k - 1]}) \ avoid
        BY <1>5, <4>1
      <4> QED BY <3>1, <3>3, <4>2
    <3> QED BY <3>2, <3>3
  <2>2. f = [k \in 0 .. n |-> f[k]] /\ DOMAIN h = 0 .. n /\ h = [k \in 0 .. n |-> h[k]]
    BY <1>6
  <2> HIDE DEF h
  <2>3. f = h
    BY <2>1, <2>2
  <2> QED BY <2>3 DEF ReachRec, h
<1>8. PICK g : ReachRec(g, start, avoid) /\ Reaching(start, avoid) = g[n]
  BY <1>7, ReachUnfolds
<1>9. \A k \in 0 .. n : g[k] = IF k = 0 THEN A
                               ELSE g[k - 1] \cup ((UNION {Flow(p) : p \in g[k - 1]}) \ avoid)
  BY <1>8 DEF ReachRec
<1>10. \A k \in 0 .. n : g[k] \in SUBSET N
  <2> DEFINE bad == {k \in 0 .. n : g[k] \notin SUBSET N}
  <2> SUFFICES ASSUME bad # {} PROVE FALSE
    OBVIOUS
  <2>1. PICK k \in bad : \A j \in bad : k <= j
    <3>1. bad \in SUBSET Nat
      OBVIOUS
    <3> QED BY <3>1, LeastExists
  <2>2. k # 0
    BY <1>2, <1>9
  <2>3. k - 1 \in 0 .. n /\ k - 1 \notin bad /\ k \in 0 .. n
    BY <2>1, <2>2
  <2>4. g[k - 1] \in SUBSET N
    BY <2>3
  <2>5. (UNION {Flow(p) : p \in g[k - 1]}) \ avoid \in SUBSET N
    BY <1>2 DEF N
  <2> QED BY <1>9, <2>1, <2>2, <2>3, <2>4, <2>5
<1>11. Grows(g, A, G, n)
  <2> DEFINE h == [k \in 0 .. n |-> IF k = 0 THEN A ELSE g[k - 1] \cup UNION {G[x] : x \in g[k - 1]}]
  <2>1. ASSUME NEW k \in 0 .. n PROVE g[k] = h[k]
    <3>1. CASE k = 0
      BY <1>9, <3>1
    <3>2. CASE k # 0
      <4>1. k - 1 \in 0 .. n
        BY <1>1, <3>2
      <4>2. UNION {G[x] : x \in g[k - 1]} = (UNION {Flow(p) : p \in g[k - 1]}) \ avoid
        BY <1>5, <1>10, <4>1
      <4> QED BY <1>9, <3>2, <4>2
    <3> QED BY <3>1, <3>2
  <2>2. g = [k \in 0 .. n |-> g[k]] /\ h = [k \in 0 .. n |-> h[k]]
    BY <1>8 DEF ReachRec
  <2> HIDE DEF h
  <2>3. g = h
    BY <2>1, <2>2
  <2> QED BY <2>3 DEF Grows, h
<1>12. /\ A \subseteq g[n] /\ g[n] \subseteq N /\ Closed(g[n], G)
       /\ \A S : A \subseteq S /\ Closed(S, G) => g[n] \subseteq S
  BY <1>1, <1>2, <1>3, <1>4, <1>11, GrowthCloses
<1>13. \A p \in g[n] : Flow(p) \ avoid \subseteq g[n]
  BY <1>3, <1>12 DEF Closed
<1>14. ASSUME NEW S, A \subseteq S, \A p \in S : Flow(p) \ avoid \subseteq S
       PROVE  g[n] \subseteq S
  <2>1. A \subseteq S \cap N /\ Closed(S \cap N, G)
    BY <1>2, <1>3, <1>14 DEF Closed
  <2> QED BY <1>12, <2>1
<1> QED BY <1>8, <1>12, <1>13, <1>14 DEF N

(* The walk along idom: the least set that idom does not leave.             *)
ChainRec(f, b) ==
  f = [k \in 0 .. Len(first) |->
         IF k = 0 THEN {b} ELSE f[k - 1] \cup {idom[x] : x \in f[k - 1] \cap Block}]

LEMMA ChainUnfolds ==
  ASSUME NEW b, NEW f, ChainRec(f, b)
  PROVE  \E g : ChainRec(g, b) /\ Chain(b) = g[Len(first)] \cap Block
<1> DEFINE R == CHOOSE g : ChainRec(g, b)
<1>1. ChainRec(R, b)
  OBVIOUS
<1>2. Chain(b) = R[Len(first)] \cap Block
  BY DEF Chain, ChainRec
<1> HIDE DEF R
<1> QED BY <1>1, <1>2

LEMMA ChainIsLeast ==
  ASSUME BlocksInv, NEW b \in Block, \A x \in Block : idom[x] \in {0} \cup Block
  PROVE  /\ b \in Chain(b) /\ Chain(b) \subseteq Block
         /\ \A x \in Chain(b) : idom[x] # 0 => idom[x] \in Chain(b)
         /\ \A S : b \in S /\ (\A x \in S : x \in Block /\ idom[x] # 0 => idom[x] \in S)
                     => Chain(b) \subseteq S
<1> DEFINE n == Len(first)
           N == {0} \cup Block
           G == [x \in N |-> IF x \in Block THEN {idom[x]} ELSE {}]
<1>1. n \in Nat /\ Block = 1 .. n /\ 0 \notin Block
  BY NodesType DEF Block
<1>2. {b} \in SUBSET N
  OBVIOUS
<1>3. G \in [N -> SUBSET N] /\ \A x \in N : G[x] = IF x \in Block THEN {idom[x]} ELSE {}
  OBVIOUS
<1> HIDE DEF G
<1>4. IsFiniteSet(N) /\ Cardinality(N) = n + 1
  <2> HIDE DEF n
  <2>1. IsFiniteSet(1 .. n) /\ Cardinality(1 .. n) = n
    BY <1>1, FS_Interval
  <2>2. IsFiniteSet(Block) /\ Cardinality(Block) = n /\ 0 \notin Block
    BY <1>1, <2>1
  <2>3. IsFiniteSet(Block \cup {0}) /\ Cardinality(Block \cup {0}) = n + 1
    BY <2>2, FS_AddElement
  <2>4. N = Block \cup {0}
    OBVIOUS
  <2> QED BY <2>3, <2>4
<1> HIDE DEF N
<1>5. ASSUME NEW S \in SUBSET N
      PROVE  UNION {G[x] : x \in S} = {idom[x] : x \in S \cap Block}
  BY <1>3
<1>6. PICK f \in [0 .. n -> SUBSET N] : Grows(f, {b}, G, n)
  BY <1>1, <1>2, <1>3, GrowthExists
<1>7. ChainRec(f, b)
  <2> DEFINE h == [k \in 0 .. n |-> IF k = 0 THEN {b}
                      ELSE f[k - 1] \cup {idom[x] : x \in f[k - 1] \cap Block}]
  <2>1. ASSUME NEW k \in 0 .. n PROVE f[k] = h[k]
    <3>1. f[k] = IF k = 0 THEN {b} ELSE f[k - 1] \cup UNION {G[x] : x \in f[k - 1]}
      BY <1>6 DEF Grows
    <3>2. CASE k = 0
      BY <3>1, <3>2
    <3>3. CASE k # 0
      <4>1. f[k - 1] \in SUBSET N
        BY <1>6, <3>3
      <4>2. UNION {G[x] : x \in f[k - 1]} = {idom[x] : x \in f[k - 1] \cap Block}
        BY <1>5, <4>1
      <4> QED BY <3>1, <3>3, <4>2
    <3> QED BY <3>2, <3>3
  <2>2. f = [k \in 0 .. n |-> f[k]] /\ DOMAIN h = 0 .. n /\ h = [k \in 0 .. n |-> h[k]]
    BY <1>6
  <2> HIDE DEF h
  <2>3. f = h
    BY <2>1, <2>2
  <2> QED BY <2>3 DEF ChainRec, h
<1>8. PICK g : ChainRec(g, b) /\ Chain(b) = g[n] \cap Block
  BY <1>7, ChainUnfolds
<1>9. \A k \in 0 .. n : g[k] = IF k = 0 THEN {b}
                               ELSE g[k - 1] \cup {idom[x] : x \in g[k - 1] \cap Block}
  BY <1>8 DEF ChainRec
<1>10. \A k \in 0 .. n : g[k] \in SUBSET N
  <2> DEFINE bad == {k \in 0 .. n : g[k] \notin SUBSET N}
  <2> SUFFICES ASSUME bad # {} PROVE FALSE
    OBVIOUS
  <2>1. PICK k \in bad : \A j \in bad : k <= j
    <3>1. bad \in SUBSET Nat
      OBVIOUS
    <3> QED BY <3>1, LeastExists
  <2>2. k # 0
    BY <1>2, <1>9
  <2>3. k - 1 \in 0 .. n /\ k - 1 \notin bad /\ k \in 0 .. n
    BY <2>1, <2>2
  <2>4. g[k - 1] \in SUBSET N
    BY <2>3
  <2>5. {idom[x] : x \in g[k - 1] \cap Block} \in SUBSET N
    BY DEF N
  <2> QED BY <1>9, <2>1, <2>2, <2>3, <2>4, <2>5
<1>11. Grows(g, {b}, G, n)
  <2> DEFINE h == [k \in 0 .. n |-> IF k = 0 THEN {b} ELSE g[k - 1] \cup UNION {G[x] : x \in g[k - 1]}]
  <2>1. ASSUME NEW k \in 0 .. n PROVE g[k] = h[k]
    <3>1. CASE k = 0
      BY <1>9, <3>1
    <3>2. CASE k # 0
      <4>1. k - 1 \in 0 .. n
        BY <1>1, <3>2
      <4>2. UNION {G[x] : x \in g[k - 1]} = {idom[x] : x \in g[k - 1] \cap Block}
        BY <1>5, <1>10, <4>1
      <4> QED BY <1>9, <3>2, <4>2
    <3> QED BY <3>1, <3>2
  <2>2. g = [k \in 0 .. n |-> g[k]] /\ h = [k \in 0 .. n |-> h[k]]
    BY <1>8 DEF ChainRec
  <2> HIDE DEF h
  <2>3. g = h
    BY <2>1, <2>2
  <2> QED BY <2>3 DEF Grows, h
<1>12. /\ {b} \subseteq g[n] /\ g[n] \subseteq N /\ Closed(g[n], G)
       /\ \A S : {b} \subseteq S /\ Closed(S, G) => g[n] \subseteq S
  <2>1. {b} # {} /\ n \in Nat
    BY <1>1
  <2>2. Cardinality(N) <= n + 1
    BY <1>1, <1>4
  <2> DEFINE A == {b}
  <2> HIDE DEF n, A
  <2>3. A \in SUBSET N /\ A # {} /\ Grows(g, A, G, n)
    BY <1>2, <1>11 DEF A
  <2>4. /\ A \subseteq g[n] /\ g[n] \subseteq N /\ Closed(g[n], G)
        /\ \A S : A \subseteq S /\ Closed(S, G) => g[n] \subseteq S
    BY <1>3, <1>4, <2>1, <2>2, <2>3, GrowthCloses
  <2> QED BY <2>4 DEF A
<1>13. ASSUME NEW x \in Chain(b), idom[x] # 0 PROVE idom[x] \in Chain(b)
  <2>1. x \in g[n] /\ x \in Block /\ x \in N
    BY <1>8, <1>12, <1>13
  <2>2. G[x] = {idom[x]} /\ G[x] \subseteq g[n]
    BY <1>3, <1>12, <2>1 DEF Closed
  <2> QED BY <1>8, <1>13, <2>1, <2>2
<1>14. ASSUME NEW S, b \in S, \A x \in S : x \in Block /\ idom[x] # 0 => idom[x] \in S
       PROVE  Chain(b) \subseteq S
  <2> DEFINE T == {0} \cup (S \cap Block)
  <2>1. \A x \in T : x \in N
    BY DEF N
  <2>2. {b} \subseteq T /\ Closed(T, G)
    BY <1>3, <1>14, <2>1 DEF Closed
  <2>3. g[n] \subseteq T
    BY <1>12, <2>2
  <2> QED BY <1>1, <1>8, <2>3
<1> QED BY <1>8, <1>12, <1>13, <1>14
-----------------------------------------------------------------------------
(* What the front end must hand over: no label is placed twice.             *)
LabelsDistinct(prog) ==
  \A p, q \in DOMAIN prog : prog[p].op = "label" /\ prog[q].op = "label"
                              /\ prog[p].label = prog[q].label => p = q

(* A block that is not the first one and no successor of any.               *)
Heads == {b \in Block : b = 1 \/ \A a \in Block : b \notin Successors(a)}

(* The last node of a block jumps to the first nodes of its successors.     *)
LEMMA JumpsAreSuccessors ==
  ASSUME Partition, \A prog \in Programs : LabelsDistinct(prog), NEW a \in Block
  PROVE  /\ Successors(a) \subseteq Block
         /\ \A q : q \in Jumps(Last(a)) <=> \E b \in Successors(a) : first[b] = q
         /\ \A b \in Block : b \in Successors(a) <=> first[b] \in Jumps(Last(a))
         /\ ~Inside(Last(a))
         /\ \A p \in NodesOf(a) : p # Last(a) => Inside(p) /\ p + 1 \in NodesOf(a)
<1>1. /\ Len(nodes) \in Nat \ {0} /\ DOMAIN nodes = 1 .. Len(nodes)
      /\ Len(first) \in Nat \ {0} /\ Block = 1 .. Len(first)
      /\ \A b \in Block : first[b] \in 1 .. Len(nodes) /\ b \in Nat
      /\ nodes \in Seq(Node) /\ LabelsDistinct(nodes)
  BY NodesType DEF Partition, BlocksInv, Block
<1>2. /\ first[1] = 1 /\ 1 \in Block
      /\ \A b \in Block : b # 1 => nodes[first[b]].op = "label"
      /\ \A p \in DOMAIN nodes : nodes[p].op = "label" => \E b \in Block : first[b] = p
  BY <1>1 DEF Partition, BlocksInv
<1>3. \A b, c \in Block : first[b] = first[c] => b = c
  BY NodesOfBlocks
<1>4. \A p \in NodesOf(a) : p \in DOMAIN nodes /\ p \in Nat /\ first[a] <= p /\ p <= Last(a)
                            /\ Last(a) \in Nat /\ Last(a) <= Len(nodes)
                            /\ (p # Last(a) => p + 1 \in NodesOf(a) /\ p + 1 \in DOMAIN nodes)
  <2>1. /\ Last(a) \in Nat /\ Last(a) \in DOMAIN nodes /\ first[a] \in Nat
        /\ NodesOf(a) \subseteq DOMAIN nodes
    BY <1>1, NodesOfBlocks
  <2> QED BY <1>1, <2>1 DEF NodesOf
<1>5. ASSUME NEW p \in NodesOf(a), p # Last(a) PROVE nodes[p + 1].op # "label"
  <2>1. SUFFICES ASSUME nodes[p + 1].op = "label" PROVE FALSE
    OBVIOUS
  <2>2. PICK b \in Block : first[b] = p + 1
    BY <1>2, <1>4, <1>5, <2>1
  <2>3. b = a
    BY <1>4, <1>5, <2>2, NodesOfBlocks
  <2> QED BY <1>4, <1>5, <2>2, <2>3
<1>7. ASSUME NEW l PROVE /\ Target(l) \subseteq Block
                         /\ \A q : (\E b \in Target(l) : first[b] = q)
                                    <=> q \in DOMAIN nodes /\ nodes[q] = [op |-> "label", label |-> l]
  <2> DEFINE found == {b \in Block : nodes[first[b]] = [op |-> "label", label |-> l]}
  <2>1. CASE found = {}
    <3>1. Target(l) = {}
      BY <2>1 DEF Target
    <3>2. \A q \in DOMAIN nodes : nodes[q] # [op |-> "label", label |-> l]
      BY <1>2, <2>1
    <3> QED BY <3>1, <3>2
  <2>2. CASE found # {}
    <3>1. PICK b \in found : TRUE
      BY <2>2
    <3>2. ASSUME NEW c \in found PROVE c = b
      <4>1. /\ first[b] \in DOMAIN nodes /\ first[c] \in DOMAIN nodes
            /\ nodes[first[b]] = [op |-> "label", label |-> l] /\ nodes[first[c]] = nodes[first[b]]
        BY <1>1, <3>1
      <4>2. nodes[first[b]].op = "label" /\ nodes[first[c]].op = "label"
            /\ nodes[first[b]].label = nodes[first[c]].label
        BY <4>1
      <4>3. first[b] = first[c]
        BY <1>1, <4>1, <4>2 DEF LabelsDistinct
      <4> QED BY <1>3, <3>1, <4>3
    <3>3. found = {b}
      BY <3>1, <3>2
    <3>4. Least({b}) = b
      BY <1>1, <3>1 DEF Least
    <3>5. Target(l) = {b}
      BY <3>3, <3>4 DEF Target
    <3>6. \A q \in DOMAIN nodes : nodes[q] = [op |-> "label", label |-> l] => q = first[b]
      BY <1>1, <3>1 DEF LabelsDistinct
    <3>7. nodes[first[b]] = [op |-> "label", label |-> l] /\ first[b] \in DOMAIN nodes
      BY <1>1, <3>1
    <3> QED BY <3>1, <3>5, <3>6, <3>7
  <2> QED BY <2>1, <2>2
<1>8. Last(a) \in NodesOf(a) /\ Last(a) \in DOMAIN nodes
  BY NodesOfBlocks
<1>9. a + 1 \in Block => first[a + 1] = Last(a) + 1
  <2>1. a + 1 \in Block => a # Len(first) /\ first[a + 1] \in Nat
    BY <1>1
  <2> QED BY <2>1 DEF Last
<1>10. Last(a) + 1 \in DOMAIN nodes => a + 1 \in Block
  <2>1. a = Len(first) => Last(a) = Len(nodes)
    BY DEF Last
  <2>2. a # Len(first) => a + 1 \in Block
    BY <1>1
  <2> QED BY <1>1, <2>1, <2>2
<1>11. Successors(a) \subseteq Block
  BY <1>7 DEF Successors
<1>12. \A q : q \in Jumps(Last(a)) <=> \E b \in Successors(a) : first[b] = q
  <2> DEFINE last == nodes[Last(a)]
             J == IF last.op \in {"br", "br_if"} THEN Target(last.label) ELSE {}
             T == IF last.op \notin {"br", "ret"} THEN {a + 1} \cap Block ELSE {}
             FJ == IF last.op \in {"br", "br_if"}
                   THEN {q \in DOMAIN nodes : nodes[q] = [op |-> "label", label |-> last.label]}
                   ELSE {}
             FT == IF last.op \notin {"br", "ret"} THEN {Last(a) + 1} \cap DOMAIN nodes ELSE {}
  <2>1. Successors(a) = J \cup T /\ Jumps(Last(a)) = FJ \cup FT
    BY DEF Successors, Jumps
  <2>2. \A q : q \in FJ <=> \E b \in J : first[b] = q
    BY <1>7
  <2>3. \A q : q \in FT <=> \E b \in T : first[b] = q
    BY <1>1, <1>9, <1>10
  <2> HIDE DEF J, T, FJ, FT
  <2> QED BY <2>1, <2>2, <2>3
<1>13. ASSUME NEW p \in NodesOf(a), p # Last(a) PROVE Inside(p) /\ p + 1 \in NodesOf(a)
  BY <1>4, <1>5, <1>13 DEF Inside
<1>14. ~Inside(Last(a))
  <2>1. SUFFICES ASSUME Last(a) + 1 \in DOMAIN nodes PROVE nodes[Last(a) + 1].op = "label"
    BY DEF Inside
  <2>2. a + 1 \in Block /\ a + 1 # 1
    BY <1>1, <1>10, <2>1
  <2> QED BY <1>2, <1>9, <2>2
<1>15. \A b \in Block : b \in Successors(a) <=> first[b] \in Jumps(Last(a))
  BY <1>3, <1>11, <1>12
<1> QED BY <1>11, <1>12, <1>13, <1>14, <1>15

LEMMA EntriesAreHeads ==
  ASSUME Partition, \A prog \in Programs : LabelsDistinct(prog)
  PROVE  Entries = Heads
<1>1. 1 \in Block
  BY NodesType DEF Partition, BlocksInv, Block
<1>2. \A c \in Block : \A b \in Block : c \in Successors(b) <=> first[c] \in Jumps(Last(b))
  BY JumpsAreSuccessors
<1>3. \A c \in Block : Enders(c) = {} <=> \A b \in Block : c \notin Successors(b)
  BY <1>2 DEF Enders
<1> QED BY <1>1, <1>3 DEF Entries, Heads

(* Control stays in a block until its last node, and leaves that only for   *)
(* the first node of a successor; a branch inside the block counts only     *)
(* when it leads to an entry of the graph.                                  *)
LEMMA FlowFollowsBlocks ==
  ASSUME Partition, \A prog \in Programs : LabelsDistinct(prog), NEW a \in Block
  PROVE  /\ \A p \in NodesOf(a) : \A q \in Flow(p) :
              \/ p # Last(a) /\ q = p + 1 /\ q \in NodesOf(a)
              \/ p # Last(a) /\ \E c \in Heads : q = first[c]
              \/ p = Last(a) /\ \E b \in Successors(a) : q = first[b]
         /\ Successors(a) \subseteq Block
         /\ \A b \in Successors(a) : first[b] \in Flow(Last(a))
         /\ \A p \in NodesOf(a) : p # Last(a) => p + 1 \in Flow(p) /\ p + 1 \in NodesOf(a)
<1>1. Flow(Last(a)) = Jumps(Last(a))
  BY JumpsAreSuccessors DEF Flow
<1>2. \A p \in NodesOf(a) : p # Last(a) =>
        /\ p + 1 \in NodesOf(a)
        /\ Flow(p) = {p + 1} \cup {first[c] : c \in {e \in Heads : first[e] \in Jumps(p)}}
  BY JumpsAreSuccessors, EntriesAreHeads DEF Flow
<1>3. /\ Successors(a) \subseteq Block
      /\ \A q : q \in Jumps(Last(a)) <=> \E b \in Successors(a) : first[b] = q
  BY JumpsAreSuccessors
<1>4. \A b \in Successors(a) : first[b] \in Flow(Last(a))
  BY <1>1, <1>3
<1>5. ASSUME NEW p \in NodesOf(a), NEW q \in Flow(p)
      PROVE  \/ p # Last(a) /\ q = p + 1 /\ q \in NodesOf(a)
             \/ p # Last(a) /\ \E c \in Heads : q = first[c]
             \/ p = Last(a) /\ \E b \in Successors(a) : q = first[b]
  BY <1>1, <1>2, <1>3, <1>5
<1> QED BY <1>2, <1>3, <1>4, <1>5

LEMMA FlowIsInNodes ==
  ASSUME BlocksInv, NEW p
  PROVE  Flow(p) \subseteq DOMAIN nodes
<1>1. Jumps(p) \subseteq DOMAIN nodes
  BY DEF Jumps
<1>2. \A c \in Entries : first[c] \in DOMAIN nodes
  <2>1. Entries \subseteq Block /\ \A c \in Block : first[c] \in DOMAIN nodes
    BY NodesType DEF BlocksInv, Block, Entries
  <2> QED BY <2>1
<1> QED BY <1>1, <1>2 DEF Flow, Inside

(* Reachability from the first node and from the entries.                   *)
LEMMA ReachIsLeast ==
  ASSUME BlocksInv, NEW avoid
  PROVE  /\ {1} \ avoid \subseteq ReachAvoiding(avoid)
         /\ ReachAvoiding(avoid) \subseteq DOMAIN nodes
         /\ ReachAvoiding(avoid) \cap avoid = {}
         /\ \A p \in ReachAvoiding(avoid) : Flow(p) \ avoid \subseteq ReachAvoiding(avoid)
         /\ \A S : {1} \ avoid \subseteq S /\ (\A p \in S : Flow(p) \ avoid \subseteq S)
                     => ReachAvoiding(avoid) \subseteq S
<1> DEFINE start == {1}
<1>1. start \in SUBSET DOMAIN nodes
  BY NodesType
<1>2. ReachAvoiding(avoid) = Reaching(start, avoid)
  BY DEF ReachAvoiding
<1> HIDE DEF start
<1>3. /\ start \ avoid \subseteq Reaching(start, avoid)
      /\ Reaching(start, avoid) \subseteq DOMAIN nodes
      /\ Reaching(start, avoid) \cap avoid = {}
      /\ \A p \in Reaching(start, avoid) : Flow(p) \ avoid \subseteq Reaching(start, avoid)
      /\ \A S : start \ avoid \subseteq S /\ (\A p \in S : Flow(p) \ avoid \subseteq S)
                  => Reaching(start, avoid) \subseteq S
  BY <1>1, FlowIsInNodes, ReachingIsLeast
<1> QED BY <1>2, <1>3 DEF start

Heading == {first[c] : c \in Heads}

LEMMA EntriesReachLeast ==
  ASSUME Partition, \A prog \in Programs : LabelsDistinct(prog), NEW avoid
  PROVE  /\ Heading \ avoid \subseteq EntriesAvoiding(avoid)
         /\ EntriesAvoiding(avoid) \subseteq DOMAIN nodes
         /\ EntriesAvoiding(avoid) \cap avoid = {}
         /\ \A p \in EntriesAvoiding(avoid) : Flow(p) \ avoid \subseteq EntriesAvoiding(avoid)
         /\ \A S : Heading \ avoid \subseteq S /\ (\A p \in S : Flow(p) \ avoid \subseteq S)
                     => EntriesAvoiding(avoid) \subseteq S
<1>1. BlocksInv /\ Heading \in SUBSET DOMAIN nodes
  BY NodesType DEF Partition, BlocksInv, Block, Heads, Heading
<1>2. EntriesAvoiding(avoid) = Reaching(Heading, avoid)
  BY EntriesAreHeads DEF EntriesAvoiding, Heading
<1>3. /\ Heading \ avoid \subseteq Reaching(Heading, avoid)
      /\ Reaching(Heading, avoid) \subseteq DOMAIN nodes
      /\ Reaching(Heading, avoid) \cap avoid = {}
      /\ \A p \in Reaching(Heading, avoid) : Flow(p) \ avoid \subseteq Reaching(Heading, avoid)
      /\ \A S : Heading \ avoid \subseteq S /\ (\A p \in S : Flow(p) \ avoid \subseteq S)
                  => Reaching(Heading, avoid) \subseteq S
  BY <1>1, FlowIsInNodes, ReachingIsLeast
<1> QED BY <1>2, <1>3

-----------------------------------------------------------------------------
(* The phases: predecessors are complete, the sets are a fixed point, and   *)
(* every idom is the closest strict dominator of those sets.                *)
Wired(n) == pred = [b \in Block |-> {a \in 1 .. n : b \in Successors(a)}]

FixedPoint == \A b \in Block \ {1} : dom[b] = NewDom(b)

WireInv ==
  /\ pc = "wire" => at \in 1 .. Len(first) + 1 /\ Wired(at - 1)
  /\ pc \in {"sweep", "idom", "tree", "done"} => Wired(Len(first))

SweepInv ==
  /\ pc \in {"sweep", "idom", "tree", "done"} =>
       /\ dom \in [Block -> SUBSET Block] /\ dom[1] = {1}
       /\ \A b \in Block : b \in dom[b]
  /\ pc = "sweep" => /\ at \in 2 .. Len(first) + 1 /\ changed \in BOOLEAN
                     /\ ~changed => \A b \in 2 .. at - 1 : dom[b] = NewDom(b)
  /\ pc \in {"idom", "tree", "done"} => FixedPoint

IdomInv ==
  /\ pc = "idom" =>
       /\ at \in 2 .. Len(first) + 1
       /\ idom \in [Block -> {0} \cup Block]
       /\ \A b \in Block : idom[b] = IF b \in 2 .. at - 1 THEN Closest(b) ELSE 0
  /\ pc \in {"tree", "done"} =>
       /\ idom \in [Block -> {0} \cup Block]
       /\ \A b \in Block : idom[b] = IF b = 1 THEN 0 ELSE Closest(b)

PhasesInv == BlocksInv /\ WireInv /\ SweepInv /\ IdomInv

LEMMA SetsOfBlocks ==
  ASSUME BlocksInv, NEW S \in SUBSET Block
  PROVE  /\ IsFiniteSet(S) /\ Cardinality(S) \in Nat /\ Cardinality(S) <= Len(first)
         /\ \A T \in SUBSET S : /\ Cardinality(T) \in Nat /\ Cardinality(T) <= Cardinality(S)
                                /\ Cardinality(T) = Cardinality(S) => T = S
<1> DEFINE n == Len(first)
<1>1. n \in Nat /\ Block = 1 .. n
  BY NodesType DEF Block
<1> HIDE DEF n
<1>2. IsFiniteSet(1 .. n) /\ Cardinality(1 .. n) = n
  BY <1>1, FS_Interval
<1>3. IsFiniteSet(S) /\ Cardinality(S) <= n
  BY <1>1, <1>2, FS_Subset
<1>4. \A T \in SUBSET S : /\ Cardinality(T) \in Nat /\ Cardinality(T) <= Cardinality(S)
                          /\ Cardinality(T) = Cardinality(S) => T = S
  BY <1>3, FS_Subset, FS_CardinalityType
<1>5. Cardinality(S) \in Nat
  BY <1>3, FS_CardinalityType
<1> QED BY <1>3, <1>4, <1>5 DEF n

LEMMA ClosestIsStrict ==
  ASSUME BlocksInv, dom \in [Block -> SUBSET Block], NEW b \in Block
  PROVE  IF dom[b] \ {b} = {} THEN Closest(b) = 0
         ELSE /\ Closest(b) \in dom[b] \ {b}
              /\ \A e \in dom[b] \ {b} : Cardinality(dom[Closest(b)]) >= Cardinality(dom[e])
<1> DEFINE strict == dom[b] \ {b}
           best == {d \in strict : \A e \in strict : Cardinality(dom[d]) >= Cardinality(dom[e])}
<1>1. Len(first) \in Nat /\ Block = 1 .. Len(first)
  BY NodesType DEF Block
<1>2. CASE strict = {}
  BY <1>2 DEF Closest
<1>3. CASE strict # {}
  <2>1. \A d \in strict : d \in Block /\ Cardinality(dom[d]) \in Nat
                          /\ Cardinality(dom[d]) <= Len(first)
    <3> SUFFICES ASSUME NEW d \in strict
                 PROVE  d \in Block /\ Cardinality(dom[d]) \in Nat
                        /\ Cardinality(dom[d]) <= Len(first)
      OBVIOUS
    <3>1. d \in Block /\ dom[d] \subseteq Block
      BY DEF Block
    <3> QED BY <3>1, SetsOfBlocks
  <2> DEFINE sizes == {Cardinality(dom[d]) : d \in strict}
  <2>2. sizes \in SUBSET Nat /\ sizes # {} /\ \A n \in sizes : n <= Len(first)
    BY <1>3, <2>1
  <2>3. PICK n \in sizes : \A m \in sizes : m <= n
    BY <1>1, <2>2, GreatestExists
  <2>4. PICK d \in strict : n = Cardinality(dom[d])
    OBVIOUS
  <2>5. \A e \in strict : Cardinality(dom[d]) >= Cardinality(dom[e])
    BY <2>1, <2>3, <2>4
  <2>6. best # {} /\ best \in SUBSET Nat
    BY <1>1, <2>5
  <2>7. Least(best) \in best
    BY <2>6, LeastExists DEF Least
  <2>8. Closest(b) = Least(best)
    BY <1>3 DEF Closest
  <2> QED BY <1>3, <2>7, <2>8
<1> QED BY <1>2, <1>3

LEMMA PhasesInit == Init => PhasesInv
BY BlocksInit DEF Init, PhasesInv, WireInv, SweepInv, IdomInv

LEMMA SameGraph ==
  ASSUME UNCHANGED Graph
  PROVE  Block' = Block /\ \A b : Successors(b)' = Successors(b)
BY DEF Graph, Block, Successors, Target, Last, Least

(* No predecessor is cut off: there are no more blocks than the list holds, *)
(* or fewer branches to each label (one place is left for the block above). *)
PredecessorsFit ==
  \/ MaxBlocks <= MaxPreds
  \/ \A prog \in Programs : \A l :
       Cardinality({p \in DOMAIN prog : prog[p].op \in {"br", "br_if"} /\ prog[p].label = l}) < MaxPreds

LEMMA RoomForPredecessors ==
  ASSUME PredecessorsFit, Partition, NEW b \in Block, NEW w \in Block, b \in Successors(w)
  PROVE  Cardinality({a \in 1 .. w - 1 : b \in Successors(a)}) < MaxPreds
<1> DEFINE P == {a \in 1 .. w - 1 : b \in Successors(a)}
           Q == P \cup {w}
<1>1. /\ BlocksInv /\ Len(first) \in Nat /\ Block = 1 .. Len(first) /\ Len(first) <= MaxBlocks
      /\ MaxPreds \in Nat /\ MaxBlocks \in Nat
  BY NodesType, DominanceAssumption DEF Partition, Block, BlocksInv
<1>2. P \in SUBSET Block /\ w \notin P /\ Q \in SUBSET Block /\ \A a \in Q : b \in Successors(a)
  BY <1>1
<1> HIDE DEF P
<1>3. /\ Cardinality(P) \in Nat /\ Cardinality(Q) = Cardinality(P) + 1
      /\ IsFiniteSet(Q) /\ Cardinality(Q) \in Nat /\ Cardinality(Q) <= Len(first)
  <2>1. IsFiniteSet(P) /\ Cardinality(P) \in Nat
    BY <1>1, <1>2, SetsOfBlocks
  <2>2. Cardinality(Q) = Cardinality(P) + 1
    BY <1>2, <2>1, FS_AddElement
  <2> HIDE DEF Q
  <2> QED BY <1>1, <1>2, <2>1, <2>2, SetsOfBlocks
<1> HIDE DEF Q
<1>4. CASE MaxBlocks <= MaxPreds
  BY <1>1, <1>3, <1>4 DEF P
<1>5. CASE ~(MaxBlocks <= MaxPreds)
  <2> DEFINE l == nodes[first[b]].label
             K == {p \in DOMAIN nodes : nodes[p].op \in {"br", "br_if"} /\ nodes[p].label = l}
             J == {a \in Q : a + 1 # b}
             f == [a \in J |-> Last(a)]
  <2>1. Cardinality(K) < MaxPreds
    <3>1. nodes \in Programs
      BY <1>1 DEF BlocksInv
    <3>2. \A prog \in Programs : \A x :
            Cardinality({p \in DOMAIN prog : prog[p].op \in {"br", "br_if"} /\ prog[p].label = x})
              < MaxPreds
      BY <1>5, Zenon DEF PredecessorsFit
    <3> HIDE DEF l
    <3> QED BY <3>1, <3>2, Zenon
  <2>2. IsFiniteSet(K) /\ Cardinality(K) \in Nat
    <3>1. IsFiniteSet(DOMAIN nodes)
      BY <1>1, NodesType, FS_Interval
    <3> QED BY <3>1, FS_Subset, FS_CardinalityType
  <2>3. ASSUME NEW a \in J PROVE Last(a) \in K
    <3>1. a \in Block /\ b \in Successors(a) /\ b # a + 1
      BY <1>2
    <3>2. nodes[Last(a)].op \in {"br", "br_if"} /\ b \in Target(nodes[Last(a)].label)
      BY <3>1 DEF Successors
    <3> DEFINE found == {c \in Block : nodes[first[c]] = [op |-> "label", label |-> nodes[Last(a)].label]}
    <3>3. b \in found
      <4>1. found # {} /\ b = Least(found)
        BY <3>2 DEF Target
      <4>2. found \in SUBSET Nat
        BY <1>1
      <4> HIDE DEF found
      <4> QED BY <4>1, <4>2, LeastExists DEF Least
    <3>4. nodes[Last(a)].label = l
      BY <3>3
    <3> QED BY <3>1, <3>2, <3>4, NodesOfBlocks
  <2>4. \A a, c \in J : Last(a) = Last(c) => a = c
    <3>1. J \subseteq Block
      BY <1>2
    <3> HIDE DEF J
    <3> QED BY <3>1, NodesOfBlocks
  <2>5. f \in Injection(J, K)
    <3> HIDE DEF J, K
    <3> QED BY <2>3, <2>4, Fun_IsInj
  <2> HIDE DEF f, K
  <2>6. IsFiniteSet(J) /\ Cardinality(J) <= Cardinality(K) /\ Cardinality(J) \in Nat
    BY <2>2, <2>5, FS_Injection, FS_CardinalityType
  <2>7. Q \subseteq J \cup {b - 1}
    <3>1. \A a \in Q : a \in Nat /\ b \in Nat
      BY <1>1, <1>2
    <3> QED BY <3>1
  <2> HIDE DEF J
  <2>8. /\ IsFiniteSet(J \cup {b - 1}) /\ Cardinality(J \cup {b - 1}) \in Nat
        /\ Cardinality(J \cup {b - 1}) <= Cardinality(J) + 1
    <3> DEFINE x == b - 1
    <3> HIDE DEF x
    <3>1. IsFiniteSet(J \cup {x}) /\ Cardinality(J \cup {x}) \in {Cardinality(J), Cardinality(J) + 1}
      BY <2>6, FS_AddElement
    <3>2. IsFiniteSet(J \cup {x}) /\ Cardinality(J \cup {x}) \in Nat
          /\ Cardinality(J \cup {x}) <= Cardinality(J) + 1
      BY <2>6, <3>1
    <3> QED BY <3>2 DEF x
  <2>9. Cardinality(Q) <= Cardinality(J \cup {b - 1})
    BY <2>7, <2>8, FS_Subset
  <2>10. Cardinality(P) < MaxPreds
    BY <1>1, <1>3, <2>1, <2>2, <2>6, <2>8, <2>9
  <2> QED BY <2>10 DEF P
<1> QED BY <1>4, <1>5

LEMMA WireStep ==
  ASSUME PredecessorsFit, BlocksInv, WireInv, [Next]_vars
  PROVE  WireInv'
<1>1. CASE Split
  <2>1. pc' \in {"split", "failed"}
    BY <1>1 DEF Split
  <2> QED BY <2>1 DEF WireInv
<1>2. CASE ~Split
  <2>1. UNCHANGED Graph /\ Block' = Block /\ (\A b : Successors(b)' = Successors(b))
        /\ first' = first
    BY <1>2, BlocksRest, SameGraph DEF Graph
  <2>2. Len(first) \in Nat \ {0} /\ Block = 1 .. Len(first) /\ Len(first) <= MaxBlocks
        /\ MaxPreds \in Nat /\ MaxBlocks \in Nat
    BY NodesType, DominanceAssumption DEF Block, BlocksInv
  <2>3. CASE StartWire
    <3>1. pc' = "wire" /\ at' = 1 /\ pred' = [b \in Block |-> {}]
      BY <2>3 DEF StartWire
    <3>2. Wired(at - 1)'
      BY <2>1, <3>1 DEF Wired
    <3> QED BY <2>1, <2>2, <3>1, <3>2 DEF WireInv
  <2>4. CASE Wire
    <3>1. /\ pc = "wire" /\ pc' = "wire" /\ at \in 1 .. Len(first) /\ at' = at + 1
          /\ Wired(at - 1)
          /\ pred' = [b \in Block |-> IF b \in Successors(at) /\ Cardinality(pred[b]) < MaxPreds
                              THEN pred[b] \cup {at} ELSE pred[b]]
      BY <2>2, <2>4 DEF Wire, WireInv
    <3>2. ASSUME NEW b \in Block
          PROVE  pred'[b] = {a \in 1 .. at : b \in Successors(a)}
      <4>1. pred[b] = {a \in 1 .. at - 1 : b \in Successors(a)}
        BY <3>1 DEF Wired
      <4>2. b \in Successors(at) => Cardinality(pred[b]) < MaxPreds
        <5>1. Partition /\ at \in Block
          BY <2>2, <3>1 DEF Partition
        <5> QED BY <4>1, <5>1, RoomForPredecessors
      <4>3. pred'[b] = IF b \in Successors(at) THEN pred[b] \cup {at} ELSE pred[b]
        BY <3>1, <4>2
      <4> QED BY <3>1, <4>1, <4>3
    <3>3. at' - 1 = at
      BY <3>1
    <3>4. Wired(at - 1)'
      BY <2>1, <3>1, <3>2, <3>3 DEF Wired
    <3> QED BY <2>1, <2>2, <3>1, <3>4 DEF WireInv
  <2>5. CASE StartSweep
    <3>1. pc = "wire" /\ pc' = "sweep" /\ at = Len(first) + 1 /\ Wired(at - 1) /\ pred' = pred
      BY <2>2, <2>5 DEF StartSweep, WireInv
    <3>2. Wired(Len(first))'
      <4>1. at - 1 = Len(first)
        BY <2>2, <3>1
      <4> QED BY <2>1, <3>1, <4>1 DEF Wired
    <3> QED BY <3>1, <3>2 DEF WireInv
  <2>6. CASE SweepBlock \/ EndSweep \/ ExtractIdom \/ StartTree \/ Number \/ NumberRest
    <3>1. pred' = pred /\ pc \in {"sweep", "idom", "tree"} /\ pc' \in {"sweep", "idom", "tree", "done"}
      BY <2>6 DEF SweepBlock, EndSweep, ExtractIdom, StartTree, Number, NumberRest
    <3>2. Wired(Len(first))'
      BY <2>1, <3>1 DEF Wired, WireInv
    <3> QED BY <3>1, <3>2 DEF WireInv
  <2>7. CASE UNCHANGED vars
    BY <2>1, <2>7 DEF vars, WireInv, Wired
  <2> QED BY <1>2, <2>3, <2>4, <2>5, <2>6, <2>7 DEF Next
<1> QED BY <1>1, <1>2

LEMMA SweepStep ==
  ASSUME BlocksInv, SweepInv, [Next]_vars
  PROVE  SweepInv'
<1>1. CASE Split
  <2>1. pc' \in {"split", "failed"}
    BY <1>1 DEF Split
  <2> QED BY <2>1 DEF SweepInv
<1>2. CASE ~Split
  <2>1. Block' = Block /\ first' = first
    BY <1>2, BlocksRest, SameGraph DEF Graph
  <2>2. Len(first) \in Nat \ {0} /\ Block = 1 .. Len(first)
    BY NodesType DEF Block
  <2>3. CASE StartWire \/ Wire
    <3>1. pc' = "wire"
      BY <2>3 DEF StartWire, Wire
    <3> QED BY <3>1 DEF SweepInv
  <2>4. CASE StartSweep
    <3>1. pc' = "sweep" /\ at' = 2 /\ dom' = [b \in Block |-> IF b = 1 THEN {1} ELSE Block]
          /\ changed' = FALSE
      BY <2>4 DEF StartSweep
    <3>2. dom' \in [Block -> SUBSET Block] /\ dom'[1] = {1} /\ \A b \in Block : b \in dom'[b]
      BY <2>2, <3>1
    <3>3. at' \in 2 .. Len(first) + 1 /\ \A b \in 2 .. at' - 1 : FALSE
      BY <2>2, <3>1
    <3> QED BY <2>1, <3>1, <3>2, <3>3 DEF SweepInv
  <2>5. CASE SweepBlock
    <3>1. /\ pc = "sweep" /\ pc' = "sweep" /\ at \in 2 .. Len(first) /\ at' = at + 1
          /\ pred' = pred /\ dom' = [dom EXCEPT ![at] = NewDom(at)]
          /\ changed' = (changed \/ dom' # dom)
          /\ dom \in [Block -> SUBSET Block] /\ dom[1] = {1} /\ changed \in BOOLEAN
          /\ \A b \in Block : b \in dom[b]
      BY <2>2, <2>5 DEF SweepBlock, SweepInv
    <3>2. NewDom(at) \in SUBSET Block /\ at \in NewDom(at) /\ at \in Block /\ at # 1
      BY <2>2, <3>1 DEF NewDom
    <3>3. dom' \in [Block -> SUBSET Block] /\ dom'[1] = {1} /\ \A b \in Block : b \in dom'[b]
      BY <2>2, <3>1, <3>2
    <3>4. changed' \in BOOLEAN /\ (~changed' => ~changed /\ dom' = dom)
      BY <3>1
    <3>5. ASSUME ~changed', NEW b \in 2 .. at' - 1 PROVE dom'[b] = NewDom(b)'
      <4>1. ~changed /\ dom' = dom /\ dom[at] = NewDom(at)
        BY <3>1, <3>2, <3>4, <3>5
      <4>2. NewDom(b)' = NewDom(b)
        BY <2>1, <3>1, <4>1 DEF NewDom
      <4>3. b \in 2 .. at - 1 \/ b = at
        BY <3>1
      <4>4. b \in 2 .. at - 1 => dom[b] = NewDom(b)
        BY <3>1, <4>1 DEF SweepInv
      <4> QED BY <4>1, <4>2, <4>3, <4>4
    <3>6. at' \in 2 .. Len(first) + 1
      BY <2>2, <3>1
    <3> QED BY <2>1, <3>1, <3>3, <3>4, <3>5, <3>6 DEF SweepInv
  <2>6. CASE EndSweep
    <3>1. /\ pc = "sweep" /\ at = Len(first) + 1 /\ at' = 2 /\ changed' = FALSE
          /\ UNCHANGED <<pred, dom>> /\ pc' = IF changed THEN "sweep" ELSE "idom"
          /\ dom \in [Block -> SUBSET Block] /\ dom[1] = {1} /\ \A b \in Block : b \in dom[b]
          /\ changed \in BOOLEAN
      BY <2>2, <2>6 DEF EndSweep, SweepInv
    <3>2. at' \in 2 .. Len(first) + 1 /\ \A b \in 2 .. at' - 1 : FALSE
      BY <2>2, <3>1
    <3>3. CASE changed
      BY <2>1, <3>1, <3>2, <3>3 DEF SweepInv
    <3>4. CASE ~changed
      <4>1. \A b \in Block \ {1} : dom[b] = NewDom(b)
        <5>1. \A b \in 2 .. at - 1 : dom[b] = NewDom(b)
          BY <3>1, <3>4 DEF SweepInv
        <5>2. \A b \in Block \ {1} : b \in 2 .. at - 1
          BY <2>2, <3>1
        <5> QED BY <5>1, <5>2
      <4>2. \A b : NewDom(b)' = NewDom(b)
        BY <2>1, <3>1 DEF NewDom
      <4> QED BY <2>1, <3>1, <3>4, <4>1, <4>2 DEF SweepInv, FixedPoint
    <3> QED BY <3>3, <3>4
  <2>7. CASE ExtractIdom \/ StartTree \/ Number \/ NumberRest
    <3>1. UNCHANGED <<pred, dom>> /\ pc \in {"idom", "tree"} /\ pc' \in {"idom", "tree", "done"}
      BY <2>7 DEF ExtractIdom, StartTree, Number, NumberRest
    <3>2. \A b : NewDom(b)' = NewDom(b)
      BY <2>1, <3>1 DEF NewDom
    <3> QED BY <2>1, <3>1, <3>2 DEF SweepInv, FixedPoint
  <2>8. CASE UNCHANGED vars
    <3>1. UNCHANGED <<pc, at, pred, dom, changed>>
      BY <2>8 DEF vars
    <3>2. \A b : NewDom(b)' = NewDom(b)
      BY <2>1, <3>1 DEF NewDom
    <3> QED BY <2>1, <3>1, <3>2 DEF SweepInv, FixedPoint
  <2> QED BY <1>2, <2>3, <2>4, <2>5, <2>6, <2>7, <2>8 DEF Next
<1> QED BY <1>1, <1>2

LEMMA IdomStep ==
  ASSUME BlocksInv, SweepInv, IdomInv, [Next]_vars
  PROVE  IdomInv'
<1>1. CASE Split \/ StartWire \/ Wire \/ StartSweep \/ SweepBlock
  <2>1. pc' \in {"split", "failed", "wire", "sweep"}
    BY <1>1 DEF Split, StartWire, Wire, StartSweep, SweepBlock
  <2> QED BY <2>1 DEF IdomInv
<1>2. CASE EndSweep \/ ExtractIdom \/ StartTree \/ Number \/ NumberRest \/ UNCHANGED vars
  <2>1. UNCHANGED Graph
    BY <1>2 DEF EndSweep, ExtractIdom, StartTree, Number, NumberRest, vars, Graph
  <2>2. Block' = Block /\ first' = first /\ Len(first) \in Nat \ {0} /\ Block = 1 .. Len(first)
    BY <2>1, SameGraph, NodesType DEF Graph, Block
  <2>3. dom' = dom
    BY <1>2 DEF EndSweep, ExtractIdom, StartTree, Number, NumberRest, vars
  <2>4. \A b : Closest(b)' = Closest(b)
    BY <2>3 DEF Closest, Least
  <2>5. CASE EndSweep
    <3>1. \/ pc' = "sweep"
          \/ pc' = "idom" /\ at' = 2 /\ idom' = [b \in Block |-> 0]
      BY <2>5 DEF EndSweep
    <3>2. \A b \in 2 .. 2 - 1 : FALSE
      OBVIOUS
    <3> QED BY <2>2, <3>1, <3>2 DEF IdomInv
  <2>6. CASE ExtractIdom
    <3>1. /\ pc = "idom" /\ pc' = "idom" /\ at \in 2 .. Len(first) /\ at' = at + 1
          /\ idom' = [idom EXCEPT ![at] = Closest(at)]
          /\ idom \in [Block -> {0} \cup Block]
          /\ \A b \in Block : idom[b] = IF b \in 2 .. at - 1 THEN Closest(b) ELSE 0
      BY <2>2, <2>6 DEF ExtractIdom, IdomInv
    <3>2. at \in Block /\ Closest(at) \in {0} \cup Block
      <4>1. dom \in [Block -> SUBSET Block] /\ at \in Block
        BY <2>2, <3>1 DEF SweepInv
      <4> QED BY <4>1, ClosestIsStrict
    <3>3. idom' \in [Block -> {0} \cup Block]
      BY <3>1, <3>2
    <3>4. ASSUME NEW b \in Block
          PROVE  idom'[b] = IF b \in 2 .. at' - 1 THEN Closest(b) ELSE 0
      <4>1. b \in 2 .. at' - 1 <=> b \in 2 .. at - 1 \/ b = at
        BY <3>1
      <4> QED BY <2>2, <3>1, <4>1
    <3>5. at' \in 2 .. Len(first) + 1
      BY <2>2, <3>1
    <3> QED BY <2>2, <2>4, <3>1, <3>3, <3>4, <3>5 DEF IdomInv
  <2>7. CASE StartTree
    <3>1. /\ pc = "idom" /\ pc' = "tree" /\ at = Len(first) + 1 /\ idom' = idom
          /\ idom \in [Block -> {0} \cup Block]
          /\ \A b \in Block : idom[b] = IF b \in 2 .. at - 1 THEN Closest(b) ELSE 0
      BY <2>2, <2>7 DEF StartTree, IdomInv
    <3>2. \A b \in Block : b \in 2 .. at - 1 <=> b # 1
      BY <2>2, <3>1
    <3> QED BY <2>2, <2>4, <3>1, <3>2 DEF IdomInv
  <2>8. CASE Number \/ NumberRest
    <3>1. pc = "tree" /\ pc' \in {"tree", "done"} /\ idom' = idom
      BY <2>8 DEF Number, NumberRest
    <3> QED BY <2>2, <2>4, <3>1 DEF IdomInv
  <2>9. CASE UNCHANGED vars
    BY <2>2, <2>4, <2>9 DEF vars, IdomInv
  <2> QED BY <1>2, <2>5, <2>6, <2>7, <2>8, <2>9
<1> QED BY <1>1, <1>2 DEF Next

LEMMA PhasesStep ==
  ASSUME PredecessorsFit, PhasesInv, [Next]_vars
  PROVE  PhasesInv'
<1>1. BlocksInv'
  BY BlocksSplit, BlocksRest DEF PhasesInv
<1>2. WireInv' /\ SweepInv' /\ IdomInv'
  BY WireStep, SweepStep, IdomStep DEF PhasesInv
<1> QED BY <1>1, <1>2 DEF PhasesInv

LEMMA PhasesHold == ASSUME PredecessorsFit PROVE Spec => []PhasesInv
<1>1. PhasesInv /\ [Next]_vars => PhasesInv'
  BY PhasesStep
<1> QED BY <1>1, PhasesInit, PTL DEF Spec
-----------------------------------------------------------------------------
Computed == PhasesInv /\ pc \in {"idom", "tree", "done"}

(* The sets are sound: where a is in the set of x, no node of x behind p    *)
(* executes before the node p of a has.                                     *)
LEMMA SetsAreSound ==
  ASSUME Computed, \A prog \in Programs : LabelsDistinct(prog),
         NEW a \in Block, NEW p \in NodesOf(a),
         NEW x \in Block, a \in dom[x],
         NEW q \in NodesOf(x), x = a => p < q
  PROVE  q \notin ReachAvoiding({p})
<1> DEFINE W == {r \in DOMAIN nodes : \/ r \in NodesOf(a) /\ r < p
                                      \/ \E y \in Block : r \in NodesOf(y) /\ y # a /\ a \notin dom[y]}
<1>1. Partition /\ BlocksInv /\ Wired(Len(first)) /\ dom[1] = {1} /\ FixedPoint
  BY DEF Computed, PhasesInv, Partition, WireInv, SweepInv
<1>2. /\ 1 \in Block /\ first[1] = 1 /\ DOMAIN nodes \subseteq Nat /\ Block = 1 .. Len(first)
      /\ \A b \in Block : first[b] \in Nat /\ Last(b) \in Nat
      /\ \A b \in Block : \A r \in NodesOf(b) : r \in DOMAIN nodes /\ first[b] <= r /\ r <= Last(b)
      /\ \A b \in Block : first[b] \in NodesOf(b)
  <2>1. 1 \in Block /\ first[1] = 1 /\ DOMAIN nodes \subseteq Nat /\ Block = 1 .. Len(first)
    BY <1>1, NodesType DEF BlocksInv, Block
  <2>2. \A b \in Block : first[b] \in Nat /\ Last(b) \in Nat /\ NodesOf(b) \subseteq DOMAIN nodes
                          /\ first[b] \in NodesOf(b)
    BY <1>1, <2>1, NodesType, NodesOfBlocks
  <2>3. \A b \in Block : \A r \in NodesOf(b) : first[b] <= r /\ r <= Last(b)
    BY DEF NodesOf
  <2> QED BY <2>1, <2>2, <2>3
<1>3. {1} \ {p} \subseteq W
  <2>1. CASE a = 1
    <3>1. 1 <= p /\ 1 \in NodesOf(1)
      BY <1>2, <2>1
    <3> QED BY <1>2, <2>1, <3>1
  <2>2. CASE a # 1
    BY <1>1, <1>2, <2>2
  <2> QED BY <2>1, <2>2
<1>4. ASSUME NEW r \in W, NEW s \in Flow(r), s # p PROVE s \in W
  <2>1. PICK y \in Block : r \in NodesOf(y) /\ (y = a => r < p) /\ (y # a => a \notin dom[y])
    BY <1>1, NodesOfBlocks
  <2>2. CASE s = r + 1 /\ s \in NodesOf(y)
    <3>1. y = a => s < p
      BY <1>2, <1>4, <2>1, <2>2
    <3> QED BY <1>2, <2>1, <2>2, <3>1
  <2>3. CASE r = Last(y) /\ \E b \in Successors(y) : s = first[b]
    <3>1. y # a /\ a \notin dom[y]
      BY <1>2, <2>1, <2>3
    <3>2. PICK z \in Successors(y) : s = first[z]
      BY <2>3
    <3>3. z \in Block /\ s \in NodesOf(z)
      BY <1>1, <1>2, <3>2, FlowFollowsBlocks
    <3>4. CASE z = a
      BY <1>2, <1>4, <3>2, <3>3, <3>4
    <3>5. CASE z # a
      <4>1. y \in pred[z]
        BY <1>1, <1>2, <3>2, <3>3 DEF Wired
      <4>2. CASE z = 1
        BY <1>1, <1>2, <3>3, <3>5, <4>2
      <4>3. CASE z # 1
        <5>1. dom[z] = NewDom(z)
          BY <1>1, <3>3, <4>3 DEF FixedPoint
        <5>2. a \notin dom[z]
          BY <3>1, <3>5, <4>1, <5>1 DEF NewDom
        <5> QED BY <1>2, <3>3, <3>5, <5>2
      <4> QED BY <4>2, <4>3
    <3> QED BY <3>4, <3>5
  <2>4. CASE \E c \in Heads : s = first[c]
    <3>1. PICK c \in Heads : s = first[c]
      BY <2>4
    <3>2. c \in Block /\ s \in NodesOf(c)
      BY <1>2, <3>1 DEF Heads
    <3>3. CASE c = a
      BY <1>2, <1>4, <3>1, <3>2, <3>3
    <3>4. CASE c # a
      <4>1. CASE c = 1
        BY <1>1, <1>2, <3>2, <3>4, <4>1
      <4>2. CASE c # 1
        <5>1. dom[c] = NewDom(c) /\ pred[c] = {}
          BY <1>1, <1>2, <3>1, <4>2 DEF Heads, FixedPoint, Wired
        <5>2. a \notin dom[c]
          BY <3>4, <5>1 DEF NewDom
        <5> QED BY <1>2, <3>2, <3>4, <5>2
      <4> QED BY <4>1, <4>2
    <3> QED BY <3>3, <3>4
  <2> QED BY <1>1, <2>1, <2>2, <2>3, <2>4, FlowFollowsBlocks
<1>5. q \notin W
  <2>1. ~(q \in NodesOf(a) /\ q < p)
    <3>1. SUFFICES ASSUME q \in NodesOf(a), q < p PROVE FALSE
      OBVIOUS
    <3>2. x = a
      BY <1>1, <3>1, NodesOfBlocks
    <3> QED BY <1>2, <3>1, <3>2
  <2>2. ASSUME NEW y \in Block, q \in NodesOf(y) PROVE a \in dom[y]
    BY <1>1, <2>2, NodesOfBlocks
  <2> QED BY <2>1, <2>2
<1>6. ReachAvoiding({p}) \subseteq W
  <2>1. \A r \in W : Flow(r) \ {p} \subseteq W
    BY <1>4
  <2> HIDE DEF W
  <2> QED BY <1>1, <1>3, <2>1, ReachIsLeast
<1> QED BY <1>5, <1>6

(* What cannot execute before p, when that cannot execute before r, cannot  *)
(* execute before r.                                                        *)
LEMMA AvoidingBoth ==
  ASSUME BlocksInv, NEW p, NEW r, r \notin ReachAvoiding({p})
  PROVE  ReachAvoiding({p}) \subseteq ReachAvoiding({r})
<1> DEFINE S == ReachAvoiding({p}) \cap ReachAvoiding({r})
<1>1. {1} \ {p} \subseteq S
  BY ReachIsLeast
<1>2. \A x \in S : Flow(x) \ {p} \subseteq S
  <2>1. ASSUME NEW x \in S, NEW y \in Flow(x), y # p PROVE y \in S
    <3>1. y \in ReachAvoiding({p})
      BY <2>1, ReachIsLeast
    <3>2. y # r
      BY <3>1
    <3> QED BY <2>1, <3>1, <3>2, ReachIsLeast
  <2> QED BY <2>1
<1> HIDE DEF S
<1>3. ReachAvoiding({p}) \subseteq S
  BY <1>1, <1>2, ReachIsLeast
<1> QED BY <1>3 DEF S

(* DefinitionsVisible (ir_dominance.c, lines 10-12): every definition that   *)
(* value numbering may reuse has executed on each path that takes no branch *)
(* hidden from the graph, for every node list, branches inside blocks       *)
(* included, and every number of blocks the predecessor lists can hold.     *)
THEOREM VisibleMeansExecuted ==
  ASSUME PredecessorsFit, \A prog \in Programs : LabelsDistinct(prog)
  PROVE  Spec => []DefinitionsVisible
<1>1. PhasesInv => DefinitionsVisible
  <2> SUFFICES ASSUME PhasesInv, pc = "done", NEW p \in DOMAIN nodes,
                      NEW q \in VisibleFrom(p)
               PROVE  q \notin ReachAvoiding({p})
    BY Zenon DEF DefinitionsVisible
  <2>1. Computed /\ Partition /\ BlocksInv /\ dom \in [Block -> SUBSET Block]
        /\ (\A b \in Block : b \in dom[b])
        /\ idom \in [Block -> {0} \cup Block]
        /\ (\A b \in Block : idom[b] = IF b = 1 THEN 0 ELSE Closest(b))
    BY DEF PhasesInv, Computed, Partition, SweepInv, IdomInv
  <2>2. PICK x \in Block : q \in NodesOf(x) /\ (p \in NodesOf(x) => p < q)
                           /\ \E a \in Block : p \in NodesOf(a) /\ a \in Chain(x)
    BY DEF VisibleFrom, Dominates
  <2>3. PICK a \in Block : p \in NodesOf(a) /\ a \in Chain(x)
    BY <2>2
  <2> DEFINE S == {z \in Block : \A r \in NodesOf(z) : \A s \in NodesOf(x) :
                     (r \in NodesOf(x) => r < s) => s \notin ReachAvoiding({r})}
  <2>4. x \in S
    BY <2>1, SetsAreSound
  <2>5. ASSUME NEW y \in S, idom[y] # 0 PROVE idom[y] \in S
    <3> DEFINE z == idom[y]
    <3>1. y \in Block /\ z \in Block /\ z \in dom[y] /\ z # y
      <4>1. y \in Block /\ z = Closest(y) /\ z # 0
        BY <2>1, <2>5
      <4>2. z \in dom[y] \ {y}
        BY <2>1, <2>5, <4>1, ClosestIsStrict
      <4> QED BY <2>1, <4>1, <4>2
    <3> HIDE DEF z
    <3>2. ASSUME NEW r \in NodesOf(z), NEW s \in NodesOf(x), r \in NodesOf(x) => r < s
          PROVE  s \notin ReachAvoiding({r})
      <4>1. CASE y = x
        BY <2>1, <3>1, <3>2, <4>1, SetsAreSound
      <4>2. CASE y # x
        <5>1. first[y] \in NodesOf(y) /\ first[y] \notin NodesOf(x)
          BY <2>1, <3>1, <4>2, NodesOfBlocks
        <5>2. first[y] \notin ReachAvoiding({r})
          BY <2>1, <3>1, <5>1, SetsAreSound
        <5>3. s \notin ReachAvoiding({first[y]})
          BY <5>1
        <5> QED BY <2>1, <5>2, <5>3, AvoidingBoth
      <4> QED BY <4>1, <4>2
    <3> QED BY <3>1, <3>2 DEF z
  <2>6. Chain(x) \subseteq S
    <3>1. \A y \in Block : idom[y] \in {0} \cup Block
      BY <2>1
    <3>2. \A y \in S : y \in Block /\ idom[y] # 0 => idom[y] \in S
      BY <2>5
    <3> HIDE DEF S
    <3> QED BY <2>1, <2>4, <3>1, <3>2, ChainIsLeast
  <2> QED BY <2>2, <2>3, <2>6
<1> QED BY <1>1, PhasesHold, PTL
-----------------------------------------------------------------------------
(* The other direction.  A block that no branch leads to is an entry of the *)
(* data flow, reachable or not; what control can do from the entries        *)
(* without passing a is the least set that ClosedFor describes, and the     *)
(* sweep never takes a out of the set of a block outside of it.             *)
ClosedFor(S, a) ==
  /\ Heads \ {a} \subseteq S
  /\ \A y \in S : Successors(y) \ {a} \subseteq S

Without(a) == {b \in Block : a \notin dom[b]}

CompleteInv ==
  pc \in {"sweep", "idom", "tree", "done"} =>
    \A a \in Block : \A S \in SUBSET Block : ClosedFor(S, a) => Without(a) \subseteq S

LEMMA CompleteStep ==
  ASSUME PhasesInv, CompleteInv, [Next]_vars
  PROVE  CompleteInv'
<1>1. CASE Split \/ StartWire \/ Wire
  <2>1. pc' \in {"split", "failed", "wire"}
    BY <1>1 DEF Split, StartWire, Wire
  <2> QED BY <2>1 DEF CompleteInv
<1>2. CASE StartSweep \/ SweepBlock \/ EndSweep \/ ExtractIdom \/ StartTree \/ Number
           \/ NumberRest \/ UNCHANGED vars
  <2>1. UNCHANGED Graph
    BY <1>2 DEF StartSweep, SweepBlock, EndSweep, ExtractIdom, StartTree, Number, NumberRest,
                vars, Graph
  <2>2. Block' = Block /\ (\A b : Successors(b)' = Successors(b))
    BY <2>1, SameGraph
  <2>3. \A a, S : ClosedFor(S, a)' <=> ClosedFor(S, a)
    BY <2>2 DEF ClosedFor, Heads
  <2>4. CASE StartSweep
    <3>1. dom' = [b \in Block |-> IF b = 1 THEN {1} ELSE Block]
      BY <2>4 DEF StartSweep
    <3>2. ASSUME NEW a \in Block, NEW S \in SUBSET Block, ClosedFor(S, a)
          PROVE  Without(a)' \subseteq S
      <4>1. ASSUME NEW b \in Block, a \notin dom'[b] PROVE b \in S
        <5>1. b = 1 /\ a # 1
          BY <3>1, <4>1
        <5> QED BY <3>2, <5>1 DEF ClosedFor, Heads
      <4> QED BY <2>2, <4>1 DEF Without
    <3> QED BY <2>2, <2>3, <3>2 DEF CompleteInv
  <2>5. CASE SweepBlock
    <3>1. /\ pc = "sweep" /\ at \in Block /\ at # 1 /\ dom' = [dom EXCEPT ![at] = NewDom(at)]
          /\ dom \in [Block -> SUBSET Block] /\ Wired(Len(first)) /\ Block = 1 .. Len(first)
      <4>1. pc = "sweep" /\ at \in 2 .. Len(first) + 1 /\ at <= Len(first)
            /\ dom' = [dom EXCEPT ![at] = NewDom(at)]
            /\ dom \in [Block -> SUBSET Block] /\ Wired(Len(first))
        BY <2>5 DEF SweepBlock, PhasesInv, SweepInv, WireInv
      <4>2. Len(first) \in Nat
        BY NodesType DEF PhasesInv
      <4> QED BY <4>1, <4>2 DEF Block
    <3>2. ASSUME NEW a \in Block, NEW S \in SUBSET Block, ClosedFor(S, a)
          PROVE  Without(a)' \subseteq S
      <4>1. \A b \in Block : a \notin dom[b] => b \in S
        BY <3>1, <3>2 DEF CompleteInv, Without
      <4>2. ASSUME a \notin NewDom(at) PROVE at \in S
        <5>1. a # at /\ (pred[at] = {} \/ \E p \in pred[at] : a \notin dom[p])
          BY <4>2 DEF NewDom
        <5>2. pred[at] = {p \in Block : at \in Successors(p)}
          BY <3>1 DEF Wired
        <5>3. CASE pred[at] = {}
          BY <3>1, <3>2, <5>1, <5>2, <5>3 DEF ClosedFor, Heads
        <5>4. CASE \E p \in pred[at] : a \notin dom[p]
          <6>1. PICK p \in Block : at \in Successors(p) /\ a \notin dom[p]
            BY <5>2, <5>4
          <6>2. p \in S
            BY <4>1, <6>1
          <6> QED BY <3>2, <5>1, <6>1, <6>2 DEF ClosedFor
        <5> QED BY <5>1, <5>3, <5>4
      <4>3. \A b \in Block : dom'[b] = IF b = at THEN NewDom(at) ELSE dom[b]
        BY <3>1
      <4>4. \A b \in Block : a \notin dom'[b] => b \in S
        BY <4>1, <4>2, <4>3
      <4> QED BY <2>2, <4>4 DEF Without
    <3> QED BY <2>2, <2>3, <3>2 DEF CompleteInv
  <2>6. CASE EndSweep \/ ExtractIdom \/ StartTree \/ Number \/ NumberRest
    <3>1. dom' = dom /\ pc \in {"sweep", "idom", "tree", "done"}
      BY <2>6 DEF EndSweep, ExtractIdom, StartTree, Number, NumberRest
    <3>2. \A a : Without(a)' = Without(a)
      BY <2>2, <3>1 DEF Without
    <3> QED BY <2>2, <2>3, <3>1, <3>2 DEF CompleteInv
  <2>7. CASE UNCHANGED vars
    <3>1. dom' = dom /\ pc' = pc
      BY <2>7 DEF vars
    <3>2. \A a : Without(a)' = Without(a)
      BY <2>2, <3>1 DEF Without
    <3> QED BY <2>2, <2>3, <3>1, <3>2 DEF CompleteInv
  <2> QED BY <1>2, <2>4, <2>5, <2>6, <2>7
<1> QED BY <1>1, <1>2 DEF Next

LEMMA CompleteHolds ==
  ASSUME PredecessorsFit PROVE Spec => [](PhasesInv /\ CompleteInv)
<1>1. Init => CompleteInv
  BY DEF Init, CompleteInv
<1>2. PhasesInv /\ CompleteInv /\ [Next]_vars => CompleteInv'
  BY CompleteStep
<1> QED BY <1>1, <1>2, PhasesHold, PTL DEF Spec

LEMMA SuccessorsAreBlocks ==
  ASSUME BlocksInv, NEW y PROVE Successors(y) \subseteq Block
<1>1. Block \in SUBSET Nat
  BY NodesType DEF Block
<1>2. ASSUME NEW l PROVE Target(l) \subseteq Block
  <2> DEFINE found == {b \in Block : nodes[first[b]] = [op |-> "label", label |-> l]}
  <2>1. found # {} => Least(found) \in found
    BY <1>1, LeastExists DEF Least
  <2> QED BY <2>1 DEF Target
<1> QED BY <1>2 DEF Successors

(* At the fixed point Without(a) is that least set.                         *)
LEMMA WithoutIsClosed ==
  ASSUME Computed, NEW a \in Block
  PROVE  ClosedFor(Without(a), a)
<1>1. /\ Wired(Len(first)) /\ dom[1] = {1} /\ FixedPoint /\ dom \in [Block -> SUBSET Block]
      /\ Block = 1 .. Len(first)
  BY DEF Computed, PhasesInv, WireInv, SweepInv, Block
<1>2. \A b \in Block : pred[b] = {p \in Block : b \in Successors(p)}
  BY <1>1 DEF Wired
<1>3. ASSUME NEW b \in Heads, b # a PROVE b \in Without(a)
  <2>1. CASE b = 1
    BY <1>1, <1>3, <2>1 DEF Without, Heads
  <2>2. CASE b # 1
    <3>1. b \in Block /\ pred[b] = {} /\ dom[b] = NewDom(b)
      BY <1>1, <1>2, <2>2 DEF Heads, FixedPoint
    <3> QED BY <1>3, <3>1 DEF Without, NewDom
  <2> QED BY <2>1, <2>2
<1>4. ASSUME NEW y \in Without(a), NEW z \in Successors(y), z # a PROVE z \in Without(a)
  <2>1. z \in Block
    BY SuccessorsAreBlocks DEF Computed, PhasesInv
  <2>2. CASE z = 1
    BY <1>1, <1>4, <2>1, <2>2 DEF Without
  <2>3. CASE z # 1
    <3>1. y \in pred[z] /\ a \notin dom[y] /\ dom[z] = NewDom(z)
      BY <1>1, <1>2, <2>1, <2>3 DEF Without, FixedPoint
    <3> QED BY <1>4, <2>1, <3>1 DEF Without, NewDom
  <2> QED BY <2>2, <2>3
<1> QED BY <1>3, <1>4 DEF ClosedFor

LEMMA DominanceIsTransitive ==
  ASSUME Computed, CompleteInv, NEW a \in Block, NEW d \in Block, NEW b \in Block,
         a \in dom[d], d \in dom[b]
  PROVE  a \in dom[b]
<1> DEFINE S == Without(a) \cap Without(d)
<1>1. d \notin Without(a) /\ S \in SUBSET Block
  BY DEF Without
<1>2. ClosedFor(Without(a), a) /\ ClosedFor(Without(d), d)
  BY WithoutIsClosed
<1>3. ClosedFor(S, a)
  <2>1. ASSUME NEW x \in Heads, x # a PROVE x \in S
    <3>1. x \in Without(a)
      BY <1>2, <2>1 DEF ClosedFor
    <3> QED BY <1>1, <1>2, <3>1 DEF ClosedFor
  <2>2. ASSUME NEW y \in S, NEW z \in Successors(y), z # a PROVE z \in S
    <3>1. z \in Without(a)
      BY <1>2, <2>2 DEF ClosedFor
    <3> QED BY <1>1, <1>2, <2>2, <3>1 DEF ClosedFor
  <2> HIDE DEF S
  <2> QED BY <2>1, <2>2 DEF ClosedFor
<1>4. Without(a) \subseteq S
  <2> HIDE DEF S
  <2> QED BY <1>1, <1>3 DEF CompleteInv, Computed
<1> QED BY <1>4 DEF Without

(* Control that gets to a block gets to its last node, and from there to the *)
(* successors.                                                              *)
LEMMA ReachGoesOn ==
  ASSUME Computed, \A prog \in Programs : LabelsDistinct(prog), NEW avoid,
         NEW y \in Block, avoid \cap NodesOf(y) \subseteq {first[y]},
         first[y] \in EntriesAvoiding(avoid),
         NEW z \in Successors(y), first[z] \notin avoid
  PROVE  z \in Block /\ first[z] \in EntriesAvoiding(avoid)
<1> DEFINE RA == EntriesAvoiding(avoid)
           bad == {r \in NodesOf(y) : r \notin RA}
<1>1. Partition /\ BlocksInv
  BY DEF Computed, PhasesInv, Partition
<1>2. \A r \in RA : Flow(r) \ avoid \subseteq RA
  BY <1>1, EntriesReachLeast
<1>3. first[y] \in RA
  OBVIOUS
<1> HIDE DEF RA
<1>4. ASSUME bad # {} PROVE FALSE
  <2>1. NodesOf(y) \subseteq Nat /\ first[y] \in Nat /\ Last(y) \in Nat
    <3>1. DOMAIN nodes \subseteq Nat
      BY <1>1, NodesType
    <3>2. NodesOf(y) \subseteq DOMAIN nodes /\ first[y] \in NodesOf(y) /\ Last(y) \in Nat
      BY <1>1, NodesOfBlocks
    <3> QED BY <3>1, <3>2
  <2>2. PICK r \in bad : \A s \in bad : r <= s
    <3>1. bad \in SUBSET Nat
      BY <2>1
    <3> QED BY <1>4, <3>1, LeastExists
  <2>3. r # first[y] /\ r - 1 \in NodesOf(y) /\ r - 1 # Last(y) /\ r \in Nat
    BY <1>3, <2>1, <2>2 DEF NodesOf
  <2>4. r - 1 \in RA
    BY <2>2, <2>3
  <2>5. (r - 1) + 1 \in Flow(r - 1)
    BY <1>1, <2>3, FlowFollowsBlocks
  <2>6. r \notin avoid
    BY <2>2, <2>3
  <2>7. (r - 1) + 1 = r
    BY <2>3
  <2> QED BY <1>2, <2>2, <2>4, <2>5, <2>6, <2>7
<1>5. Last(y) \in RA
  BY <1>1, <1>4, NodesOfBlocks
<1>6. z \in Block /\ first[z] \in Flow(Last(y))
  BY <1>1, FlowFollowsBlocks
<1> QED BY <1>2, <1>5, <1>6 DEF RA

(* A block that is rooted is in every set of blocks that holds the entries  *)
(* and that no branch leaves.                                               *)
LEMMA RootedMeets ==
  ASSUME Computed, \A prog \in Programs : LabelsDistinct(prog), NEW b \in RootedBlocks,
         NEW S \in SUBSET Block, Heads \subseteq S, \A y \in S : Successors(y) \subseteq S
  PROVE  b \in S
<1> DEFINE W == {r \in DOMAIN nodes : \E y \in S : r \in NodesOf(y)}
<1>1. Partition /\ BlocksInv
  BY DEF Computed, PhasesInv, Partition
<1>2. /\ b \in Block /\ first[b] \in EntriesAvoiding({})
      /\ \A y \in Block : first[y] \in NodesOf(y) /\ NodesOf(y) \subseteq DOMAIN nodes
  BY <1>1, NodesOfBlocks DEF RootedBlocks
<1>3. Heading \ {} \subseteq W
  BY <1>2 DEF Heading
<1>4. ASSUME NEW r \in W, NEW s \in Flow(r) PROVE s \in W
  <2>1. PICK y \in S : r \in NodesOf(y)
    OBVIOUS
  <2>2. CASE s \in NodesOf(y)
    BY <1>2, <2>2
  <2>3. CASE \E z \in Successors(y) : s = first[z]
    BY <1>2, <2>1, <2>3
  <2>4. CASE \E c \in Heads : s = first[c]
    BY <1>2, <2>4
  <2> QED BY <1>1, <2>1, <2>2, <2>3, <2>4, FlowFollowsBlocks
<1>5. EntriesAvoiding({}) \subseteq W
  <2>1. \A r \in W : Flow(r) \ {} \subseteq W
    BY <1>4
  <2> HIDE DEF W
  <2> QED BY <1>1, <1>3, <2>1, EntriesReachLeast
<1>6. PICK y \in S : first[b] \in NodesOf(y)
  BY <1>2, <1>5
<1>7. y = b
  BY <1>1, <1>2, <1>6, NodesOfBlocks
<1> QED BY <1>6, <1>7

(* The entries are rooted, and so is a block that another one leads to.     *)
LEMMA RootedSpreads ==
  ASSUME Computed, \A prog \in Programs : LabelsDistinct(prog)
  PROVE  /\ Heads \subseteq RootedBlocks /\ RootedBlocks \subseteq Block
         /\ \A y \in RootedBlocks : Successors(y) \subseteq RootedBlocks
<1>1. Partition /\ BlocksInv
  BY DEF Computed, PhasesInv, Partition
<1>2. Heads \subseteq RootedBlocks
  <2>1. Heading \ {} \subseteq EntriesAvoiding({})
    BY <1>1, EntriesReachLeast
  <2> QED BY <2>1 DEF Heading, Heads, RootedBlocks
<1>3. ASSUME NEW y \in RootedBlocks, NEW z \in Successors(y) PROVE z \in RootedBlocks
  <2>1. y \in Block /\ first[y] \in EntriesAvoiding({})
    BY DEF RootedBlocks
  <2>2. z \in Block /\ first[z] \in EntriesAvoiding({})
    BY <2>1, ReachGoesOn
  <2> QED BY <2>2 DEF RootedBlocks
<1> QED BY <1>2, <1>3 DEF RootedBlocks

LEMMA DominatorsAreLinear ==
  ASSUME Computed, \A prog \in Programs : LabelsDistinct(prog), NEW b \in RootedBlocks,
         NEW d \in dom[b], NEW e \in dom[b]
  PROVE  d \in dom[e] \/ e \in dom[d]
<1>1. b \in Block /\ d \in Block /\ e \in Block /\ 1 \in Block /\ \A x \in Block : x \in dom[x]
  <2>1. dom \in [Block -> SUBSET Block] /\ BlocksInv /\ \A x \in Block : x \in dom[x]
    BY DEF Computed, PhasesInv, SweepInv
  <2> QED BY <2>1, NodesType DEF RootedBlocks, Block
<1> SUFFICES ASSUME d \notin dom[e], e \notin dom[d] PROVE FALSE
  OBVIOUS
<1> DEFINE S == Without(d) \cup Without(e)
<1>2. ClosedFor(Without(d), d) /\ ClosedFor(Without(e), e)
  BY <1>1, WithoutIsClosed
<1>3. e \in Without(d) /\ d \in Without(e) /\ d # e
  BY <1>1 DEF Without
<1>4. S \in SUBSET Block /\ Heads \subseteq S
  BY <1>2, <1>3 DEF ClosedFor, Without
<1>5. ASSUME NEW y \in S, NEW z \in Successors(y) PROVE z \in S
  BY <1>2, <1>3 DEF ClosedFor
<1>6. b \in S
  <2> HIDE DEF S
  <2> QED BY <1>4, <1>5, RootedMeets
<1> QED BY <1>6 DEF Without

LEMMA DominatorsAreOrdered ==
  ASSUME Computed, CompleteInv, \A prog \in Programs : LabelsDistinct(prog),
         NEW b \in RootedBlocks, NEW d \in dom[b], d # b
  PROVE  b \notin dom[d]
<1>1. b \in Block /\ d \in Block /\ 1 \in Block /\ \A x \in Block : x \in dom[x]
  <2>1. dom \in [Block -> SUBSET Block] /\ BlocksInv /\ \A x \in Block : x \in dom[x]
    BY DEF Computed, PhasesInv, SweepInv
  <2> QED BY <2>1, NodesType DEF RootedBlocks, Block
<1> SUFFICES ASSUME b \in dom[d] PROVE FALSE
  OBVIOUS
<1> DEFINE S == Without(d)
<1>2. ClosedFor(Without(d), d) /\ ClosedFor(Without(b), b)
  BY <1>1, WithoutIsClosed
<1>3. Without(b) = Without(d)
  <2>1. ASSUME NEW x \in Block, b \in dom[x] PROVE d \in dom[x]
    BY <1>1, <2>1, DominanceIsTransitive
  <2>2. ASSUME NEW x \in Block, d \in dom[x] PROVE b \in dom[x]
    BY <1>1, <2>2, DominanceIsTransitive
  <2> QED BY <2>1, <2>2 DEF Without
<1>4. S \in SUBSET Block /\ Heads \subseteq S
  BY <1>2, <1>3 DEF ClosedFor, Without
<1>5. ASSUME NEW y \in S, NEW z \in Successors(y) PROVE z \in S
  BY <1>2, <1>3 DEF ClosedFor
<1>6. b \in S
  <2> HIDE DEF S
  <2> QED BY <1>4, <1>5, RootedMeets
<1> QED BY <1>6 DEF Without

(* idom is the closest strict dominator of every rooted block.              *)
LEMMA IdomCloses ==
  ASSUME Computed, CompleteInv, \A prog \in Programs : LabelsDistinct(prog),
         NEW b \in RootedBlocks, Closest(b) # 0
  PROVE  /\ Closest(b) \in dom[b] \ {b} /\ Closest(b) \in Block
         /\ dom[b] = dom[Closest(b)] \cup {b}
<1> DEFINE z == Closest(b)
<1>1. /\ BlocksInv /\ b \in Block /\ dom \in [Block -> SUBSET Block] /\ b \in dom[b]
  BY DEF RootedBlocks, Computed, PhasesInv, SweepInv
<1>2. /\ z \in dom[b] \ {b} /\ z \in Block
      /\ \A e \in dom[b] \ {b} : Cardinality(dom[z]) >= Cardinality(dom[e])
  BY <1>1, ClosestIsStrict
<1> HIDE DEF z
<1>3. dom[z] \cup {b} \subseteq dom[b]
  BY <1>1, <1>2, DominanceIsTransitive
<1>4. ASSUME NEW e \in dom[b], e # b PROVE e \in dom[z]
  <2>1. e \in Block /\ e \in dom[e] /\ Cardinality(dom[z]) >= Cardinality(dom[e])
    BY <1>1, <1>2, <1>4 DEF Computed, PhasesInv, SweepInv
  <2>2. e \in dom[z] \/ z \in dom[e]
    BY <1>2, DominatorsAreLinear
  <2>3. ASSUME z \in dom[e] PROVE e \in dom[z]
    <3>1. dom[z] \subseteq dom[e]
      BY <1>1, <1>2, <2>1, <2>3, DominanceIsTransitive
    <3>2. dom[z] \in SUBSET Block /\ dom[e] \in SUBSET Block
      BY <1>1, <1>2, <2>1
    <3>3. /\ Cardinality(dom[e]) \in Nat /\ Cardinality(dom[z]) \in Nat
          /\ Cardinality(dom[z]) <= Cardinality(dom[e])
          /\ Cardinality(dom[z]) = Cardinality(dom[e]) => dom[z] = dom[e]
      BY <1>1, <3>1, <3>2, SetsOfBlocks
    <3>4. dom[z] = dom[e]
      BY <2>1, <3>3
    <3> QED BY <2>1, <3>4
  <2> QED BY <2>2, <2>3
<1> QED BY <1>2, <1>3, <1>4, <1>1 DEF z

(* IdomIsClosest (dom_compute_idom): idom is dominated by all the other      *)
(* strict dominators of a block that the graph leads to.                    *)
THEOREM IdomIsTheClosest ==
  ASSUME PredecessorsFit, \A prog \in Programs : LabelsDistinct(prog)
  PROVE  Spec => []IdomIsClosest
<1>1. PhasesInv /\ CompleteInv => IdomIsClosest
  <2> SUFFICES ASSUME PhasesInv, CompleteInv, pc = "done", NEW b \in RootedBlocks, idom[b] # 0
               PROVE  dom[b] = dom[idom[b]] \cup {b}
    BY DEF IdomIsClosest
  <2>1. Computed /\ b \in Block /\ \A x \in Block : idom[x] = IF x = 1 THEN 0 ELSE Closest(x)
    BY DEF Computed, PhasesInv, IdomInv, RootedBlocks
  <2>2. idom[b] = Closest(b)
    BY <2>1
  <2> QED BY <2>1, <2>2, IdomCloses
<1> QED BY <1>1, CompleteHolds, PTL

(* Control gets from the entries to a block the set of which does not hold  *)
(* a without passing the first node of a.                                   *)
LEMMA SetsAreComplete ==
  ASSUME Computed, CompleteInv, \A prog \in Programs : LabelsDistinct(prog),
         NEW a \in Block, NEW b \in Block, a \notin dom[b]
  PROVE  first[b] \in EntriesAvoiding({first[a]})
<1> DEFINE RA == EntriesAvoiding({first[a]})
           S == {x \in Block : first[x] \in RA}
<1>1. /\ Partition /\ BlocksInv
      /\ \A x, y \in Block : first[x] = first[y] => x = y
      /\ \A x, y \in Block : first[x] \in NodesOf(y) => x = y
  <2>1. Partition /\ BlocksInv
    BY DEF Computed, PhasesInv, Partition
  <2>2. \A x \in Block : first[x] \in NodesOf(x)
    BY <2>1, NodesOfBlocks
  <2> QED BY <2>1, <2>2, NodesOfBlocks
<1>2. Heads \ {a} \subseteq S
  <2>1. Heading \ {first[a]} \subseteq RA
    BY <1>1, EntriesReachLeast
  <2> HIDE DEF RA
  <2> QED BY <1>1, <2>1 DEF Heading, Heads
<1>3. first[a] \notin RA
  BY <1>1, EntriesReachLeast
<1>4. ASSUME NEW y \in S, NEW z \in Successors(y), z # a PROVE z \in S
  <2>1. y \in Block /\ first[y] \in EntriesAvoiding({first[a]}) /\ z \in Block
    BY <1>1, SuccessorsAreBlocks
  <2>2. {first[a]} \cap NodesOf(y) \subseteq {first[y]} /\ first[z] \notin {first[a]}
    BY <1>1, <1>4, <2>1
  <2> QED BY <2>1, <2>2, ReachGoesOn
<1>5. ClosedFor(S, a)
  <2> HIDE DEF S
  <2> QED BY <1>2, <1>4 DEF ClosedFor
<1>6. b \in S
  <2>1. S \in SUBSET Block /\ b \in Without(a)
    BY DEF Without
  <2> HIDE DEF S
  <2> QED BY <1>5, <2>1 DEF CompleteInv, Computed
<1> QED BY <1>6

(* A dominator of a rooted block is rooted.                                 *)
LEMMA DominatorsAreRooted ==
  ASSUME Computed, CompleteInv, \A prog \in Programs : LabelsDistinct(prog),
         NEW b \in RootedBlocks, NEW z \in dom[b], z \in Block
  PROVE  z \in RootedBlocks
<1> SUFFICES ASSUME z \notin RootedBlocks PROVE FALSE
  OBVIOUS
<1> DEFINE S == RootedBlocks \cap Without(z)
<1>1. /\ Heads \subseteq RootedBlocks /\ RootedBlocks \subseteq Block
      /\ \A y \in RootedBlocks : Successors(y) \subseteq RootedBlocks
  BY RootedSpreads
<1>2. ClosedFor(Without(z), z)
  BY WithoutIsClosed
<1>3. S \in SUBSET Block /\ Heads \subseteq S /\ \A y \in S : Successors(y) \subseteq S
  BY <1>1, <1>2 DEF ClosedFor
<1>4. b \in S
  <2> HIDE DEF S
  <2> QED BY <1>3, RootedMeets
<1> QED BY <1>4 DEF Without

LEMMA FoundWhenDone ==
  ASSUME PhasesInv, CompleteInv, \A prog \in Programs : LabelsDistinct(prog)
  PROVE  AllDominatorsFound
<1> SUFFICES ASSUME pc = "done", NEW a \in Block
             PROVE  \A b \in RootedBlocks : first[b] \notin EntriesAvoiding({first[a]}) => a \in Chain(b)
  BY Zenon DEF AllDominatorsFound, Dominates
<1>1. Computed /\ BlocksInv /\ dom \in [Block -> SUBSET Block]
      /\ dom[1] = {1} /\ (\A b \in Block : b \in dom[b])
      /\ idom \in [Block -> {0} \cup Block]
      /\ (\A b \in Block : idom[b] = IF b = 1 THEN 0 ELSE Closest(b))
  BY DEF PhasesInv, Computed, SweepInv, IdomInv
<1>2. \A b \in Block : first[b] \notin EntriesAvoiding({first[a]}) => a \in dom[b]
  BY <1>1, SetsAreComplete
<1>0. RootedBlocks \subseteq Block
  BY DEF RootedBlocks
<1> DEFINE bad == {b \in RootedBlocks : a \in dom[b] /\ a \notin Chain(b)}
           sizes == {Cardinality(dom[b]) : b \in bad}
<1>3. ASSUME bad # {} PROVE FALSE
  <2>1. \A b \in Block : Cardinality(dom[b]) \in Nat
    BY <1>1, SetsOfBlocks
  <2>2. PICK n \in sizes : \A m \in sizes : n <= m
    <3>1. sizes \in SUBSET Nat /\ sizes # {}
      BY <1>0, <1>3, <2>1
    <3> HIDE DEF sizes
    <3> QED BY <3>1, LeastExists
  <2>3. PICK b \in bad : n = Cardinality(dom[b]) /\ b \in Block
    BY <1>0
  <2>4. \A x \in Block : idom[x] \in {0} \cup Block
    BY <1>1
  <2>5. b \in Chain(b) /\ \A x \in Chain(b) : idom[x] # 0 => idom[x] \in Chain(b)
    BY <1>1, <2>3, <2>4, ChainIsLeast
  <2>6. b \in Block /\ a \in dom[b] \ {b} /\ b # 1
    BY <1>1, <2>3, <2>5
  <2> DEFINE z == Closest(b)
  <2>7. z \in dom[b] \ {b} /\ z \in Block /\ idom[b] = z /\ z # 0
    <3>1. z \in dom[b] \ {b} /\ idom[b] = z
      BY <1>1, <2>6, ClosestIsStrict
    <3>2. 0 \notin Block
      BY DEF Block
    <3> QED BY <1>1, <2>6, <3>1, <3>2
  <2>8. dom[b] = dom[z] \cup {b} /\ b \notin dom[z]
    BY <1>1, <2>6, <2>7, IdomCloses, DominatorsAreOrdered
  <2> HIDE DEF z
  <2>9. a \in dom[z] /\ z \in Chain(b)
    BY <2>5, <2>6, <2>7, <2>8
  <2>10. Cardinality(dom[z]) < n
    <3>1. dom[b] \in SUBSET Block /\ dom[z] \in SUBSET dom[b] /\ dom[z] # dom[b]
      BY <1>1, <2>6, <2>7, <2>8
    <3>2. /\ Cardinality(dom[b]) \in Nat /\ Cardinality(dom[z]) \in Nat
          /\ Cardinality(dom[z]) <= Cardinality(dom[b])
          /\ Cardinality(dom[z]) = Cardinality(dom[b]) => dom[z] = dom[b]
      BY <1>1, <3>1, SetsOfBlocks
    <3> QED BY <2>3, <3>1, <3>2
  <2>11. a \in Chain(z)
    <3>1. z \notin bad
      <4>1. SUFFICES ASSUME z \in bad PROVE FALSE
        OBVIOUS
      <4>2. n <= Cardinality(dom[z])
        BY <2>2, <4>1
      <4>3. n \in Nat /\ Cardinality(dom[z]) \in Nat
        BY <2>1, <2>3, <2>6, <2>7
      <4> QED BY <2>10, <4>2, <4>3
    <3>2. z \in RootedBlocks
      BY <1>1, <2>3, <2>7, DominatorsAreRooted
    <3> QED BY <2>9, <3>1, <3>2
  <2>12. Chain(z) \subseteq Chain(b)
    <3>1. z \in Chain(b)
      BY <2>9
    <3>2. \A x \in Chain(b) : x \in Block /\ idom[x] # 0 => idom[x] \in Chain(b)
      BY <2>5
    <3> QED BY <1>1, <2>4, <2>7, <3>1, <3>2, ChainIsLeast
  <2> QED BY <2>3, <2>11, <2>12
<1> QED BY <1>0, <1>2, <1>3

(* AllDominatorsFound (dom_compute_idom, dom_dominates): a block that lies on *)
(* every path of the graph from its entries to another one dominates that   *)
(* one.  It is said of the graph as it is built: a block that the list       *)
(* reaches through a branch inside a block only, such as what follows a     *)
(* "while", is an entry of its own.                                         *)
THEOREM DominatorsAreFound ==
  ASSUME PredecessorsFit, \A prog \in Programs : LabelsDistinct(prog)
  PROVE  Spec => []AllDominatorsFound
BY FoundWhenDone, CompleteHolds, PTL
-----------------------------------------------------------------------------
(* The tree and its preorder.  Rank counts a set of numbers off.            *)
LEMMA RankCounts ==
  ASSUME NEW S \in SUBSET Nat, IsFiniteSet(S)
  PROVE  /\ Cardinality(S) \in Nat
         /\ \A c \in S : Rank(S, c) \in 1 .. Cardinality(S)
         /\ \A c, d \in S : Rank(S, c) = Rank(S, d) => c = d
         /\ \A i \in 1 .. Cardinality(S) : \E c \in S : Rank(S, c) = i
<1> DEFINE upto(c) == {d \in S : d <= c}
           n == Cardinality(S)
<1>1. n \in Nat
  BY FS_CardinalityType
<1>2. ASSUME NEW c \in S
      PROVE  IsFiniteSet(upto(c)) /\ Cardinality(upto(c)) \in 1 .. n
  <2>1. upto(c) \in SUBSET S /\ c \in upto(c)
    OBVIOUS
  <2> HIDE DEF upto
  <2>2. IsFiniteSet(upto(c)) /\ Cardinality(upto(c)) <= n /\ Cardinality(upto(c)) \in Nat
    BY <2>1, FS_Subset, FS_CardinalityType
  <2>3. Cardinality(upto(c)) # 0
    BY <2>1, <2>2, FS_EmptySet
  <2> QED BY <1>1, <2>2, <2>3
<1>3. ASSUME NEW c \in S, NEW d \in S, c < d
      PROVE  Cardinality(upto(c)) # Cardinality(upto(d))
  <2>1. upto(c) \in SUBSET upto(d) /\ d \in upto(d) /\ d \notin upto(c)
    <3>1. \A x \in S : x \in Nat
      OBVIOUS
    <3>2. \A x \in S : x <= c => x <= d
      BY <1>3, <3>1
    <3>3. d <= d /\ ~(d <= c)
      BY <1>3, <3>1
    <3> QED BY <3>2, <3>3
  <2>2. IsFiniteSet(upto(d))
    BY <1>2
  <2> HIDE DEF upto
  <2> QED BY <2>1, <2>2, FS_Subset
<1>4. \A c, d \in S : Rank(S, c) = Rank(S, d) => c = d
  <2> SUFFICES ASSUME NEW c \in S, NEW d \in S, Rank(S, c) = Rank(S, d) PROVE c = d
    OBVIOUS
  <2>1. Cardinality(upto(c)) = Cardinality(upto(d)) /\ c \in Nat /\ d \in Nat
    BY DEF Rank
  <2> HIDE DEF upto
  <2>2. ~(c < d) /\ ~(d < c)
    BY <1>3, <2>1
  <2> QED BY <2>1, <2>2
<1>5. \A c \in S : Rank(S, c) \in 1 .. n
  BY <1>2 DEF Rank
<1>6. ASSUME NEW i \in 1 .. n, \A c \in S : Rank(S, c) # i PROVE FALSE
  <2> DEFINE T == (1 .. n) \ {i}
             f == [c \in S |-> Rank(S, c)]
  <2>1. IsFiniteSet(1 .. n) /\ Cardinality(1 .. n) = n
    <3> HIDE DEF n
    <3> QED BY <1>1, FS_Interval
  <2>2. IsFiniteSet(T) /\ Cardinality(T) = n - 1
    <3> DEFINE D == 1 .. n
    <3>1. i \in D /\ IsFiniteSet(D) /\ Cardinality(D) = n
      BY <1>6, <2>1
    <3> HIDE DEF D, n
    <3>2. IsFiniteSet(D \ {i}) /\ Cardinality(D \ {i}) = n - 1
      BY <3>1, FS_RemoveElement
    <3> QED BY <3>2 DEF D
  <2>3. f \in [S -> T]
    BY <1>5, <1>6
  <2>4. Cardinality(T) < Cardinality(S)
    BY <1>1, <2>2
  <2> HIDE DEF T, f
  <2>5. PICK x, y \in S : x # y /\ f[x] = f[y]
    BY <2>2, <2>3, <2>4, FS_PigeonHole
  <2> QED BY <1>4, <2>5 DEF f
<1> QED BY <1>1, <1>4, <1>5, <1>6

LEMMA AscendingLists ==
  ASSUME NEW S \in SUBSET Nat, IsFiniteSet(S)
  PROVE  /\ Ascending(S) \in Seq(S)
         /\ Len(Ascending(S)) \in Nat
         /\ \A i, j \in 1 .. Len(Ascending(S)) : Ascending(S)[i] = Ascending(S)[j] => i = j
         /\ \A c \in S : \E i \in 1 .. Len(Ascending(S)) : Ascending(S)[i] = c
<1> DEFINE n == Cardinality(S)
           nth(i) == CHOOSE c \in S : Rank(S, c) = i
<1>1. /\ n \in Nat
      /\ \A c \in S : Rank(S, c) \in 1 .. n
      /\ \A c, d \in S : Rank(S, c) = Rank(S, d) => c = d
      /\ \A i \in 1 .. n : \E c \in S : Rank(S, c) = i
  BY RankCounts
<1> HIDE DEF n
<1>2. \A i \in 1 .. n : nth(i) \in S /\ Rank(S, nth(i)) = i
  BY <1>1
<1>3. Ascending(S) = [i \in 1 .. n |-> nth(i)]
  BY DEF Ascending, n
<1> HIDE DEF nth
<1>4. Ascending(S) \in [1 .. n -> S]
  BY <1>2, <1>3
<1>5. Ascending(S) \in Seq(S) /\ Len(Ascending(S)) = n
  BY <1>1, <1>4
<1>6. \A i, j \in 1 .. n : Ascending(S)[i] = Ascending(S)[j] => i = j
  BY <1>2, <1>3
<1>7. \A c \in S : \E i \in 1 .. n : Ascending(S)[i] = c
  <2> SUFFICES ASSUME NEW c \in S PROVE \E i \in 1 .. n : Ascending(S)[i] = c
    OBVIOUS
  <2>1. nth(Rank(S, c)) = c
    BY <1>1, <1>2
  <2> QED BY <1>1, <1>3, <2>1
<1> QED BY <1>1, <1>5, <1>6, <1>7

(* The walk: numbers are given without gaps, a block waits once and behind  *)
(* its numbered idom, and no recorded child is forgotten.                   *)
Waiting == {todo[i] : i \in DOMAIN todo}

(* No list of children is cut off.                                          *)
ChildrenFit == \A b \in Block : Cardinality({c \in Block \ {1} : idom[c] = b}) <= MaxChildren

ChildrenInv ==
  /\ children \in [Block -> SUBSET Block]
  /\ \A b \in Block : \A c \in children[b] : c # 1 /\ idom[c] = b
  /\ ChildrenFit =>
       \A c \in Block \ {1} : idom[c] # 0 => c \in children[idom[c]]

WalkInv ==
  pc = "tree" =>
    /\ ChildrenInv
    /\ order \in [Block -> {0} \cup Block]
    /\ \A b \in Numbered : order[b] <= Cardinality(Numbered)
    /\ \A i \in 1 .. Cardinality(Numbered) : \E b \in Numbered : order[b] = i
    /\ todo \in Seq(Block)
    /\ \A i, j \in 1 .. Len(todo) : todo[i] = todo[j] => i = j
    /\ \A i \in 1 .. Len(todo) : /\ todo[i] \notin Numbered
                                 /\ todo[i] # 1 => idom[todo[i]] \in Numbered
    /\ 1 \in Numbered \cup Waiting
    /\ \A b \in Numbered : /\ children[b] \subseteq Numbered \cup Waiting
                           /\ b # 1 => idom[b] \in Numbered /\ order[idom[b]] < order[b]

TreeInv ==
  pc = "done" =>
    /\ children \in [Block -> SUBSET Block]
    /\ order \in [Block -> {0} \cup Block]
    /\ \A i \in Block : \E b \in Block : order[b] = i
    /\ \A b \in Block : order[b] # 0
    /\ ChildrenFit =>
         \A b \in RootedBlocks \ {1} : 1 \in dom[b] => order[idom[b]] < order[b]

LEMMA WalkStarts ==
  ASSUME PhasesInv, StartTree
  PROVE  WalkInv'
<1>1. /\ BlocksInv /\ Block = 1 .. Len(first) /\ Len(first) \in Nat \ {0}
      /\ Len(first) <= MaxBlocks /\ MaxBlocks \in Nat /\ MaxChildren \in Nat
  BY NodesType, DominanceAssumption DEF PhasesInv, Block, BlocksInv
<1>2. UNCHANGED <<nodes, first, idom>> /\ Block' = Block /\ pc' = "tree"
      /\ order' = [b \in Block |-> 0] /\ todo' = <<1>>
  BY DEF StartTree, Block
<1> DEFINE all(b) == {c \in Block \ {1} : idom[c] = b}
<1>3. children' = [b \in Block |-> {c \in all(b) : Rank(all(b), c) <= MaxChildren}]
  BY DEF StartTree
<1>4. \A b \in Block : \A c \in children'[b] : c \in Block /\ c # 1 /\ idom[c] = b
  BY <1>3
<1>5. children' \in [Block -> SUBSET Block]
  BY <1>3
<1>6. ASSUME ChildrenFit, NEW c \in Block \ {1}, idom[c] \in Block
      PROVE  c \in children'[idom[c]]
  <2> DEFINE b == idom[c]
  <2>1. c \in all(b) /\ all(b) \in SUBSET (Block \ {1})
    OBVIOUS
  <2>2. IsFiniteSet(Block) /\ Cardinality(Block) <= Len(first) /\ Cardinality(Block) \in Nat
    BY <1>1, SetsOfBlocks
  <2>3. 1 \in Block
    BY <1>1
  <2>4. IsFiniteSet(Block \ {1}) /\ Cardinality(Block \ {1}) = Cardinality(Block) - 1
    BY <2>2, <2>3, FS_RemoveElement
  <2>9. Cardinality(all(b)) <= MaxChildren
    BY <1>6 DEF ChildrenFit
  <2> HIDE DEF all
  <2>5. IsFiniteSet(all(b)) /\ Cardinality(all(b)) <= Cardinality(Block) - 1
    BY <2>1, <2>4, FS_Subset
  <2>6. all(b) \in SUBSET Nat
    BY <1>1, <2>1
  <2>7. Rank(all(b), c) \in 1 .. Cardinality(all(b)) /\ Cardinality(all(b)) \in Nat
    BY <2>1, <2>5, <2>6, RankCounts
  <2>8. Rank(all(b), c) <= MaxChildren
    BY <1>1, <2>7, <2>9
  <2> QED BY <1>3, <1>6, <2>1, <2>8
<1>7. \A c \in Block : idom[c] \in {0} \cup Block
  <2>1. pc = "idom" /\ idom \in [Block -> {0} \cup Block]
    BY DEF StartTree, PhasesInv, IdomInv
  <2> QED BY <2>1
<1>8. ChildrenInv'
  <2>1. ChildrenFit' <=> ChildrenFit
    BY <1>2 DEF ChildrenFit
  <2> QED BY <1>2, <1>4, <1>5, <1>6, <1>7, <2>1 DEF ChildrenInv
<1>9. Numbered' = {} /\ order' \in [Block -> {0} \cup Block]
  BY <1>2 DEF Numbered
<1>10. Cardinality(Numbered)' = 0
  BY <1>9, FS_EmptySet
<1>11. /\ todo' \in Seq(Block) /\ Len(todo') = 1 /\ DOMAIN todo' = {1} /\ todo'[1] = 1
       /\ 1 \in Waiting'
  BY <1>1, <1>2 DEF Waiting
<1>12. \A i, j \in 1 .. Len(todo') : i = j /\ todo'[i] = 1
  BY <1>11
<1> QED BY <1>2, <1>8, <1>9, <1>10, <1>11, <1>12 DEF WalkInv

LEMMA WalkNumbers ==
  ASSUME PhasesInv, WalkInv, Number
  PROVE  WalkInv'
<1> DEFINE h == Head(todo)
           N == Numbered
           k == Cardinality(N)
           ch == children[h]
           A == Ascending(ch)
           T == Tail(todo)
<1>1. /\ BlocksInv /\ Block = 1 .. Len(first) /\ Len(first) \in Nat \ {0} /\ pc = "tree"
      /\ dom \in [Block -> SUBSET Block] /\ \A b \in Block : idom[b] # b
  <2>1. BlocksInv /\ pc = "tree" /\ dom \in [Block -> SUBSET Block]
        /\ \A b \in Block : idom[b] = IF b = 1 THEN 0 ELSE Closest(b)
    BY DEF Number, PhasesInv, SweepInv, IdomInv
  <2>2. Block = 1 .. Len(first) /\ Len(first) \in Nat \ {0}
    BY <2>1, NodesType DEF Block
  <2>3. \A b \in Block : Closest(b) # b
    <3>1. \A b \in Block : Closest(b) = 0 \/ Closest(b) \in dom[b] \ {b}
      BY <2>1, ClosestIsStrict
    <3> QED BY <2>2, <3>1
  <2> QED BY <2>1, <2>2, <2>3
<1>2. /\ ChildrenInv /\ order \in [Block -> {0} \cup Block]
      /\ \A b \in N : order[b] <= k
      /\ \A i \in 1 .. k : \E b \in N : order[b] = i
      /\ todo \in Seq(Block)
      /\ \A i, j \in 1 .. Len(todo) : todo[i] = todo[j] => i = j
      /\ \A i \in 1 .. Len(todo) : todo[i] \notin N /\ (todo[i] # 1 => idom[todo[i]] \in N)
      /\ 1 \in N \cup Waiting
      /\ \A b \in N : /\ children[b] \subseteq N \cup Waiting
                      /\ b # 1 => idom[b] \in N /\ order[idom[b]] < order[b]
  BY <1>1 DEF WalkInv
<1>3. /\ todo # <<>> /\ order' = [order EXCEPT ![h] = k + 1] /\ todo' = A \o T
      /\ UNCHANGED <<nodes, first, idom, children, pc>>
  BY DEF Number
<1>4. /\ Len(todo) \in Nat \ {0} /\ DOMAIN todo = 1 .. Len(todo) /\ h = todo[1] /\ h \in Block
      /\ T \in Seq(Block) /\ Len(T) = Len(todo) - 1
      /\ \A i \in 1 .. Len(T) : T[i] = todo[i + 1]
  <2>1. Len(todo) \in Nat \ {0} /\ DOMAIN todo = 1 .. Len(todo)
    BY <1>2, <1>3, EmptySeq, LenProperties
  <2> QED BY <1>2, <1>3, <2>1, HeadTailProperties
<1>5. h \notin N /\ (h # 1 => idom[h] \in N) /\ h \in Waiting
  BY <1>2, <1>4 DEF Waiting
<1>6. /\ N \in SUBSET Block /\ \A b \in Block : b \in N <=> order[b] # 0
      /\ Block' = Block
  BY <1>3 DEF Numbered, Block
<1> HIDE DEF h
<1>7. k \in Nat /\ Cardinality(N \cup {h}) = k + 1 /\ k + 1 \in Block
  <2> HIDE DEF N
  <2>1. IsFiniteSet(N) /\ k \in Nat
    BY <1>1, <1>6, SetsOfBlocks
  <2>2. Cardinality(N \cup {h}) = k + 1
    BY <1>5, <2>1, FS_AddElement
  <2>3. N \cup {h} \in SUBSET Block
    BY <1>4, <1>6
  <2>4. Cardinality(N \cup {h}) <= Len(first)
    BY <1>1, <2>3, SetsOfBlocks
  <2> QED BY <1>1, <2>1, <2>2, <2>4
<1>8. Numbered' = N \cup {h}
  <2> HIDE DEF N, k
  <2>1. \A b \in Block : order'[b] = IF b = h THEN k + 1 ELSE order[b]
    BY <1>2, <1>3
  <2>2. k + 1 # 0
    BY <1>7
  <2>3. \A b \in Block : order'[b] # 0 <=> b \in N \cup {h}
    BY <1>6, <2>1, <2>2
  <2>4. N \cup {h} \in SUBSET Block
    BY <1>4, <1>6
  <2> QED BY <1>6, <2>3, <2>4 DEF Numbered
<1> HIDE DEF N, k
<1>9. order' \in [Block -> {0} \cup Block] /\ Cardinality(Numbered)' = k + 1
      /\ \A b \in Block : order'[b] = IF b = h THEN k + 1 ELSE order[b]
  BY <1>2, <1>3, <1>7, <1>8
<1>10. /\ \A b \in N \cup {h} : order'[b] <= k + 1
       /\ \A i \in 1 .. k + 1 : \E b \in N \cup {h} : order'[b] = i
  <2>1. \A b \in N : order'[b] = order[b] /\ order[b] <= k /\ order[b] \in Nat
    BY <1>1, <1>2, <1>5, <1>6, <1>9
  <2>2. order'[h] = k + 1
    BY <1>4, <1>9
  <2>3. ASSUME NEW i \in 1 .. k + 1 PROVE \E b \in N \cup {h} : order'[b] = i
    <3>1. CASE i = k + 1
      BY <2>2, <3>1
    <3>2. CASE i # k + 1
      <4>1. i \in 1 .. k
        BY <1>7, <3>2
      <4> QED BY <1>2, <2>1, <4>1
    <3> QED BY <3>1, <3>2
  <2> QED BY <1>7, <2>1, <2>2, <2>3
<1>11. /\ ch \in SUBSET Block
       /\ \A x \in ch : x # 1 /\ idom[x] = h /\ x \notin N /\ x # h
                        /\ \A j \in 1 .. Len(todo) : todo[j] # x
  <2>1. ch \in SUBSET Block /\ \A x \in ch : x # 1 /\ idom[x] = h
    BY <1>2, <1>4 DEF ChildrenInv
  <2> HIDE DEF ch
  <2> QED BY <1>1, <1>2, <1>4, <1>5, <2>1
<1> HIDE DEF ch
<1>12. /\ A \in Seq(ch) /\ Len(A) \in Nat
       /\ \A i, j \in 1 .. Len(A) : A[i] = A[j] => i = j
       /\ \A c \in ch : \E i \in 1 .. Len(A) : A[i] = c
  <2>1. IsFiniteSet(ch) /\ ch \in SUBSET Nat
    BY <1>1, <1>11, SetsOfBlocks
  <2> QED BY <2>1, AscendingLists
<1> HIDE DEF A, T
<1>13. /\ todo' \in Seq(Block) /\ Len(todo') = Len(A) + Len(T) /\ DOMAIN todo' = 1 .. Len(todo')
       /\ \A i \in 1 .. Len(A) + Len(T) : todo'[i] = IF i <= Len(A) THEN A[i] ELSE T[i - Len(A)]
       /\ \A i \in 1 .. Len(A) : A[i] \in ch
  <2>1. \A i \in 1 .. Len(A) : A[i] \in ch
    BY <1>12
  <2>2. A \in Seq(Block)
    BY <1>11, <1>12
  <2>3. /\ A \o T \in Seq(Block) /\ Len(A \o T) = Len(A) + Len(T)
        /\ \A i \in 1 .. Len(A) + Len(T) : (A \o T)[i] = IF i <= Len(A) THEN A[i] ELSE T[i - Len(A)]
    BY <1>4, <2>2, ConcatProperties
  <2>4. DOMAIN (A \o T) = 1 .. Len(A \o T)
    BY <2>3, LenProperties
  <2> QED BY <1>3, <2>1, <2>3, <2>4
<1>14. ASSUME NEW i \in 1 .. Len(todo')
       PROVE  \/ i \in 1 .. Len(A) /\ todo'[i] = A[i] /\ A[i] \in ch
              \/ i \in Len(A) + 1 .. Len(todo') /\ i - Len(A) + 1 \in 2 .. Len(todo)
                 /\ todo'[i] = todo[i - Len(A) + 1]
  <2>1. CASE i <= Len(A)
    <3>1. i \in 1 .. Len(A)
      BY <1>12, <1>13, <2>1
    <3>2. todo'[i] = A[i]
      BY <1>13, <2>1
    <3>3. A[i] \in ch
      BY <1>13, <3>1
    <3> QED BY <3>1, <3>2, <3>3
  <2>2. CASE ~(i <= Len(A))
    <3>1. i - Len(A) \in 1 .. Len(T)
      BY <1>4, <1>12, <1>13, <2>2
    <3>2. todo'[i] = T[i - Len(A)]
      BY <1>13, <2>2
    <3>3. T[i - Len(A)] = todo[i - Len(A) + 1]
      BY <1>4, <3>1
    <3>4. i - Len(A) + 1 \in 2 .. Len(todo) /\ i \in Len(A) + 1 .. Len(todo')
      BY <1>4, <1>12, <1>13, <2>2, <3>1
    <3> QED BY <3>2, <3>3, <3>4
  <2> QED BY <2>1, <2>2
<1>15. ASSUME NEW i \in 1 .. Len(todo'), NEW j \in 1 .. Len(todo'), todo'[i] = todo'[j]
       PROVE  i = j
  <2>1. CASE i \in 1 .. Len(A) /\ todo'[i] = A[i] /\ A[i] \in ch
    <3>1. CASE j \in 1 .. Len(A) /\ todo'[j] = A[j]
      BY <1>12, <1>15, <2>1, <3>1
    <3>2. CASE j - Len(A) + 1 \in 2 .. Len(todo) /\ todo'[j] = todo[j - Len(A) + 1]
      <4>1. j - Len(A) + 1 \in 1 .. Len(todo)
        BY <3>2
      <4> QED BY <1>11, <1>15, <2>1, <3>2, <4>1
    <3> QED BY <1>14, <3>1, <3>2
  <2>2. CASE i - Len(A) + 1 \in 2 .. Len(todo) /\ todo'[i] = todo[i - Len(A) + 1]
    <3>0. i - Len(A) + 1 \in 1 .. Len(todo)
      BY <2>2
    <3>1. CASE todo'[j] = A[j] /\ A[j] \in ch
      BY <1>11, <1>15, <2>2, <3>0, <3>1
    <3>2. CASE j - Len(A) + 1 \in 2 .. Len(todo) /\ todo'[j] = todo[j - Len(A) + 1]
      <4>1. j - Len(A) + 1 \in 1 .. Len(todo)
        BY <3>2
      <4> DEFINE u == i - Len(A) + 1
                 v == j - Len(A) + 1
      <4>2. u = v
        <5>1. u \in 1 .. Len(todo) /\ v \in 1 .. Len(todo) /\ todo[u] = todo[v]
          BY <1>15, <2>2, <3>0, <3>2, <4>1
        <5> HIDE DEF u, v
        <5> QED BY <1>2, <5>1
      <4>3. i \in Int /\ j \in Int /\ Len(A) \in Int
        BY <1>12
      <4> QED BY <4>2, <4>3
    <3> QED BY <1>14, <3>1, <3>2
  <2> QED BY <1>14, <2>1, <2>2
<1>16. ASSUME NEW i \in 1 .. Len(todo')
       PROVE  todo'[i] \notin N \cup {h} /\ (todo'[i] # 1 => idom[todo'[i]] \in N \cup {h})
  <2>1. CASE todo'[i] = A[i] /\ A[i] \in ch
    BY <1>11, <2>1
  <2>2. CASE i - Len(A) + 1 \in 2 .. Len(todo) /\ todo'[i] = todo[i - Len(A) + 1]
    <3>1. i - Len(A) + 1 \in 1 .. Len(todo) /\ 1 \in 1 .. Len(todo) /\ i - Len(A) + 1 # 1
      BY <1>4, <2>2
    <3>2. todo[i - Len(A) + 1] # h
      BY <1>2, <1>4, <3>1
    <3> QED BY <1>2, <2>2, <3>1, <3>2
  <2> QED BY <1>14, <2>1, <2>2
<1>17. /\ ch \subseteq Waiting' /\ N \cup Waiting \subseteq N \cup {h} \cup Waiting'
  <2>1. Waiting' = {todo'[i] : i \in 1 .. Len(todo')}
    BY <1>13 DEF Waiting
  <2>2. ASSUME NEW c \in ch PROVE c \in Waiting'
    <3>1. PICK i \in 1 .. Len(A) : A[i] = c
      BY <1>12
    <3>2. i \in 1 .. Len(A) + Len(T)
      BY <1>4, <1>12
    <3>3. todo'[i] = c
      BY <1>13, <3>1, <3>2
    <3> QED BY <1>13, <2>1, <3>2, <3>3
  <2>3. ASSUME NEW j \in 1 .. Len(todo), j # 1 PROVE todo[j] \in Waiting'
    <3>1. Len(A) + (j - 1) \in 1 .. Len(A) + Len(T) /\ ~(Len(A) + (j - 1) <= Len(A))
          /\ (Len(A) + (j - 1)) - Len(A) = j - 1 /\ j - 1 \in 1 .. Len(T)
      BY <1>4, <1>12, <2>3
    <3>2. todo'[Len(A) + (j - 1)] = T[j - 1]
      BY <1>13, <3>1
    <3>3. T[j - 1] = todo[j]
      <4>1. (j - 1) + 1 = j
        BY <1>4
      <4> QED BY <1>4, <3>1, <4>1
    <3> QED BY <1>13, <2>1, <3>1, <3>2, <3>3
  <2>4. Waiting = {todo[j] : j \in 1 .. Len(todo)}
    BY <1>4 DEF Waiting
  <2>5. ASSUME NEW x \in Waiting PROVE x \in {h} \cup Waiting'
    <3>1. PICK j \in 1 .. Len(todo) : x = todo[j]
      BY <2>4
    <3>2. CASE j = 1
      BY <1>4, <3>1, <3>2
    <3>3. CASE j # 1
      BY <2>3, <3>1, <3>3
    <3> QED BY <3>2, <3>3
  <2> QED BY <2>2, <2>5
<1>18. ASSUME NEW b \in N \cup {h}
       PROVE  /\ children[b] \subseteq N \cup {h} \cup Waiting'
              /\ b # 1 => idom[b] \in N \cup {h} /\ order'[idom[b]] < order'[b]
  <2>1. \A x \in N : order'[x] = order[x] /\ order[x] <= k /\ order[x] \in Nat
    BY <1>1, <1>2, <1>5, <1>6, <1>9
  <2>2. CASE b = h
    <3>1. children[b] = ch
      BY <2>2 DEF ch
    <3>2. b # 1 => idom[b] \in N /\ order'[idom[b]] < k + 1 /\ order'[b] = k + 1
      BY <1>4, <1>5, <1>7, <1>9, <2>1, <2>2
    <3> QED BY <1>17, <3>1, <3>2
  <2>3. CASE b \in N
    <3>1. children[b] \subseteq N \cup Waiting /\ (b # 1 => idom[b] \in N /\ order[idom[b]] < order[b])
      BY <1>2, <2>3
    <3> QED BY <1>17, <2>1, <2>3, <3>1
  <2> QED BY <2>2, <2>3
<1>19. ChildrenInv'
  <2>1. ChildrenFit' <=> ChildrenFit
    BY <1>3, <1>6 DEF ChildrenFit
  <2> QED BY <1>2, <1>3, <1>6, <2>1 DEF ChildrenInv
<1>20. 1 \in Numbered' \cup Waiting'
  BY <1>2, <1>8, <1>17
<1>21. /\ \A b \in Numbered' : order'[b] <= Cardinality(Numbered)'
       /\ \A i \in 1 .. Cardinality(Numbered)' : \E b \in Numbered' : order'[b] = i
  BY <1>8, <1>9, <1>10
<1>22. /\ \A i, j \in 1 .. Len(todo') : todo'[i] = todo'[j] => i = j
       /\ \A i \in 1 .. Len(todo') : /\ todo'[i] \notin Numbered'
                                     /\ todo'[i] # 1 => idom'[todo'[i]] \in Numbered'
  BY <1>3, <1>8, <1>15, <1>16
<1>23. \A b \in Numbered' : /\ children'[b] \subseteq Numbered' \cup Waiting'
                            /\ b # 1 => idom'[b] \in Numbered' /\ order'[idom'[b]] < order'[b]
  BY <1>3, <1>8, <1>18
<1>24. order' \in [Block' -> {0} \cup Block'] /\ todo' \in Seq(Block')
  BY <1>6, <1>9, <1>13
<1> QED BY <1>19, <1>20, <1>21, <1>22, <1>23, <1>24, Zenon DEF WalkInv

(* When no child is cut off, the walk meets every rooted block that the     *)
(* first block dominates.                                                   *)
LEMMA WalkMeetsAll ==
  ASSUME PhasesInv, CompleteInv, WalkInv, pc = "tree", todo = <<>>,
         \A prog \in Programs : LabelsDistinct(prog),
         ChildrenFit
  PROVE  \A b \in RootedBlocks : 1 \in dom[b] => b \in Numbered
<1>1. /\ Computed /\ BlocksInv /\ 1 \in Block /\ 0 \notin Block
      /\ dom \in [Block -> SUBSET Block] /\ \A b \in Block : b \in dom[b]
      /\ \A b \in Block : idom[b] = IF b = 1 THEN 0 ELSE Closest(b)
  <2>1. BlocksInv /\ Len(first) \in Nat \ {0}
    BY NodesType DEF PhasesInv
  <2>2. 1 \in Block /\ 0 \notin Block
    BY <2>1 DEF Block
  <2> QED BY <2>1, <2>2 DEF Computed, PhasesInv, SweepInv, IdomInv
<1>2. 1 \in Numbered /\ \A b \in Numbered : children[b] \subseteq Numbered
  <2>1. Waiting = {}
    <3>1. DOMAIN todo = {}
      OBVIOUS
    <3> QED BY <3>1 DEF Waiting
  <2> QED BY <2>1 DEF WalkInv
<1>3. RootedBlocks \subseteq Block
  BY DEF RootedBlocks
<1> DEFINE bad == {b \in RootedBlocks : 1 \in dom[b] /\ b \notin Numbered}
           sizes == {Cardinality(dom[b]) : b \in bad}
<1>4. ASSUME bad # {} PROVE FALSE
  <2>1. \A b \in Block : Cardinality(dom[b]) \in Nat
    BY <1>1, SetsOfBlocks
  <2>2. PICK n \in sizes : \A m \in sizes : n <= m
    <3>1. sizes \in SUBSET Nat /\ sizes # {}
      BY <1>3, <1>4, <2>1
    <3> HIDE DEF sizes
    <3> QED BY <3>1, LeastExists
  <2>3. PICK b \in bad : n = Cardinality(dom[b])
    OBVIOUS
  <2>4. b \in Block /\ b # 1 /\ 1 \in dom[b] \ {b}
    BY <1>2, <1>3, <2>3
  <2> DEFINE z == Closest(b)
  <2>5. z \in dom[b] \ {b} /\ z \in Block /\ idom[b] = z /\ z # 0
    <3>1. z \in dom[b] \ {b}
      BY <1>1, <2>4, ClosestIsStrict
    <3> QED BY <1>1, <2>4, <3>1
  <2>6. dom[b] = dom[z] \cup {b} /\ b \notin dom[z]
    BY <1>1, <2>4, <2>5, IdomCloses, DominatorsAreOrdered
  <2> HIDE DEF z
  <2>7. Cardinality(dom[z]) < n
    <3>1. dom[b] \in SUBSET Block /\ dom[z] \in SUBSET dom[b] /\ dom[z] # dom[b]
      BY <1>1, <2>4, <2>5, <2>6
    <3>2. /\ Cardinality(dom[b]) \in Nat /\ Cardinality(dom[z]) \in Nat
          /\ Cardinality(dom[z]) <= Cardinality(dom[b])
          /\ Cardinality(dom[z]) = Cardinality(dom[b]) => dom[z] = dom[b]
      BY <1>1, <3>1, SetsOfBlocks
    <3> QED BY <2>3, <3>1, <3>2
  <2>8. z \in Numbered
    <3>0. z \in RootedBlocks /\ 1 \in dom[z]
      <4>1. z \in RootedBlocks
        BY <1>1, <2>3, <2>5, DominatorsAreRooted
      <4> QED BY <2>4, <2>6, <4>1
    <3>1. SUFFICES ASSUME z \in bad PROVE FALSE
      BY <3>0
    <3>2. n <= Cardinality(dom[z])
      BY <2>2, <3>1
    <3>3. n \in Nat /\ Cardinality(dom[z]) \in Nat
      BY <2>1, <2>3, <2>4, <2>5
    <3> QED BY <2>7, <3>2, <3>3
  <2>9. b \in children[z]
    BY <2>4, <2>5 DEF WalkInv, ChildrenInv
  <2> QED BY <1>2, <2>3, <2>8, <2>9
<1> QED BY <1>4

LEMMA SameRoots ==
  ASSUME UNCHANGED <<nodes, first>>
  PROVE  RootedBlocks' = RootedBlocks
BY DEF RootedBlocks, EntriesAvoiding, Reaching, Flow, Entries, Enders, Jumps, Inside, Last, Block

LEMMA WalkEnds ==
  ASSUME PhasesInv, CompleteInv, WalkInv, NumberRest,
         \A prog \in Programs : LabelsDistinct(prog)
  PROVE  TreeInv'
<1> DEFINE N == Numbered
           k == Cardinality(N)
           R == Block \ N
<1>1. /\ BlocksInv /\ Block = 1 .. Len(first) /\ Len(first) \in Nat \ {0} /\ pc = "tree"
      /\ todo = <<>> /\ Block' = Block /\ UNCHANGED <<children, idom, nodes, first>>
      /\ order' = [b \in Block |-> IF order[b] # 0 THEN order[b] ELSE k + Rank(R, b)]
  BY NodesType DEF NumberRest, PhasesInv, Block
<1>2. /\ children \in [Block -> SUBSET Block] /\ order \in [Block -> {0} \cup Block]
      /\ \A b \in N : order[b] <= k
      /\ \A i \in 1 .. k : \E b \in N : order[b] = i
      /\ \A b \in N : b # 1 => idom[b] \in N /\ order[idom[b]] < order[b]
  BY <1>1 DEF WalkInv, ChildrenInv
<1>3. N \in SUBSET Block /\ \A b \in Block : b \in N <=> order[b] # 0
  BY DEF Numbered
<1> HIDE DEF N
<1>4. /\ k \in Nat /\ IsFiniteSet(R) /\ R \in SUBSET Nat /\ R \in SUBSET Block
      /\ Cardinality(R) = Len(first) - k
  <2>1. IsFiniteSet(Block) /\ Cardinality(Block) = Len(first)
    <3> DEFINE n == Len(first)
    <3>1. n \in Nat /\ Block = 1 .. n
      BY <1>1
    <3> HIDE DEF n
    <3>2. IsFiniteSet(1 .. n) /\ Cardinality(1 .. n) = n
      BY <3>1, FS_Interval
    <3> QED BY <3>1, <3>2 DEF n
  <2>2. IsFiniteSet(Block \ N) /\ Cardinality(Block \ N) = Cardinality(Block) - Cardinality(Block \cap N)
    BY <2>1, FS_Difference
  <2>3. Block \cap N = N /\ k \in Nat
    BY <1>1, <1>3, SetsOfBlocks
  <2>4. Cardinality(R) = Len(first) - k /\ IsFiniteSet(R)
    BY <2>1, <2>2, <2>3
  <2>5. R \in SUBSET Nat /\ R \in SUBSET Block
    BY <1>1
  <2> QED BY <2>3, <2>4, <2>5
<1>5. /\ \A c \in R : Rank(R, c) \in 1 .. Cardinality(R)
      /\ \A i \in 1 .. Cardinality(R) : \E c \in R : Rank(R, c) = i
  <2> HIDE DEF R
  <2> QED BY <1>4, RankCounts
<1> HIDE DEF k, R
<1>6. \A b \in Block : /\ b \in N => order'[b] = order[b] /\ order[b] \in Block
                       /\ b \notin N => b \in R /\ order'[b] = k + Rank(R, b)
  <2>1. \A b \in Block : b \notin N => b \in R
    BY DEF R
  <2> QED BY <1>1, <1>2, <1>3, <2>1
<1>7. \A b \in R : k + Rank(R, b) \in Block
  BY <1>1, <1>4, <1>5
<1>8. order' \in [Block -> Block]
  <2>1. \A b \in Block : order'[b] \in Block
    BY <1>6, <1>7
  <2> QED BY <1>1, <2>1
<1>9. ASSUME NEW i \in Block PROVE \E b \in Block : order'[b] = i
  <2>1. CASE i <= k
    <3>1. PICK b \in N : order[b] = i
      BY <1>1, <1>2, <1>4, <2>1
    <3> QED BY <1>3, <1>6, <3>1
  <2>2. CASE ~(i <= k)
    <3>1. i - k \in 1 .. Cardinality(R)
      BY <1>1, <1>4, <2>2
    <3>2. PICK c \in R : Rank(R, c) = i - k
      BY <1>5, <3>1
    <3>3. c \in Block /\ c \notin N
      BY <3>2 DEF R
    <3>4. order'[c] = k + (i - k)
      BY <1>6, <3>2, <3>3
    <3>5. i \in Nat /\ k \in Nat
      BY <1>1, <1>4
    <3>6. order'[c] = i
      BY <3>4, <3>5
    <3> QED BY <3>3, <3>6
  <2> QED BY <2>1, <2>2
<1>10. RootedBlocks' = RootedBlocks /\ dom' = dom /\ RootedBlocks \subseteq Block
  <2>1. dom' = dom /\ UNCHANGED <<nodes, first>>
    BY DEF NumberRest
  <2>2. RootedBlocks' = RootedBlocks
    BY <2>1, SameRoots
  <2> QED BY <2>1, <2>2 DEF RootedBlocks
<1>13. ChildrenFit' <=> ChildrenFit
  BY <1>1 DEF ChildrenFit
<1>11. ASSUME ChildrenFit, NEW b \in RootedBlocks \ {1}, 1 \in dom[b]
       PROVE  order'[idom[b]] < order'[b]
  <2>1. b \in N
    BY <1>1, <1>11, WalkMeetsAll DEF N
  <2>2. idom[b] \in N /\ order[idom[b]] < order[b]
    BY <1>2, <1>11, <2>1
  <2> QED BY <1>3, <1>6, <2>1, <2>2
<1>12. \A b \in Block : order'[b] # 0 /\ order'[b] \in {0} \cup Block
  BY <1>1, <1>8
<1> QED BY <1>1, <1>2, <1>8, <1>9, <1>10, <1>11, <1>12, <1>13 DEF TreeInv

LEMMA TreeStep ==
  ASSUME PhasesInv, CompleteInv, WalkInv, TreeInv, [Next]_vars,
         \A prog \in Programs : LabelsDistinct(prog)
  PROVE  WalkInv' /\ TreeInv'
<1>1. CASE Split \/ StartWire \/ Wire \/ StartSweep \/ SweepBlock \/ EndSweep \/ ExtractIdom
  <2>1. pc' \notin {"tree", "done"}
    BY <1>1 DEF Split, StartWire, Wire, StartSweep, SweepBlock, EndSweep, ExtractIdom
  <2> QED BY <2>1 DEF WalkInv, TreeInv
<1>2. CASE StartTree
  <2>1. pc' # "done"
    BY <1>2 DEF StartTree
  <2> QED BY <1>2, <2>1, WalkStarts DEF TreeInv
<1>3. CASE Number
  <2>1. pc' # "done"
    BY <1>3 DEF Number
  <2> QED BY <1>3, <2>1, WalkNumbers DEF TreeInv
<1>4. CASE NumberRest
  <2>1. pc' # "tree"
    BY <1>4 DEF NumberRest
  <2> QED BY <1>4, <2>1, WalkEnds DEF WalkInv
<1>5. CASE UNCHANGED vars
  <2>1. UNCHANGED <<nodes, pc, first, dom, idom, children, order, todo>>
    BY <1>5 DEF vars
  <2>2. UNCHANGED <<Block, Numbered, Waiting, RootedBlocks, ChildrenInv, ChildrenFit>>
    BY <2>1, SameRoots DEF Block, Numbered, Waiting, ChildrenInv, ChildrenFit
  <2>3. WalkInv'
    BY <2>1, <2>2 DEF WalkInv
  <2>4. TreeInv'
    BY <2>1, <2>2 DEF TreeInv
  <2> QED BY <2>3, <2>4
<1> QED BY <1>1, <1>2, <1>3, <1>4, <1>5 DEF Next

(* OrderFollowsTree (dom_build_tree, dom_preorder): the preorder is a        *)
(* permutation of the blocks and puts a block that the first one dominates  *)
(* behind its idom.  No block may have more children than its list holds    *)
(* (ChildrenFit), or those beyond it and what is below them are numbered    *)
(* among the rest.  What hangs from another entry of the graph is numbered  *)
(* among the rest too, in the order of the list.                            *)
THEOREM OrderIsPreorder ==
  ASSUME PredecessorsFit, \A prog \in Programs : LabelsDistinct(prog)
  PROVE  Spec => [](ChildrenFit => OrderFollowsTree)
<1>1. Init => WalkInv /\ TreeInv
  BY DEF Init, WalkInv, TreeInv
<1>2. PhasesInv /\ CompleteInv /\ WalkInv /\ TreeInv /\ [Next]_vars => WalkInv' /\ TreeInv'
  BY TreeStep
<1>3. TreeInv => (ChildrenFit => OrderFollowsTree)
  <2> SUFFICES ASSUME TreeInv, ChildrenFit, pc = "done"
               PROVE  /\ {order[b] : b \in Block} = Block
                      /\ \A b \in RootedBlocks \ {1} :
                           1 \in dom[b] => order[idom[b]] < order[b]
    BY DEF OrderFollowsTree
  <2>1. /\ order \in [Block -> {0} \cup Block]
        /\ \A i \in Block : \E b \in Block : order[b] = i
        /\ \A b \in Block : order[b] # 0
        /\ \A b \in RootedBlocks \ {1} : 1 \in dom[b] => order[idom[b]] < order[b]
    BY DEF TreeInv
  <2>2. \A b \in Block : order[b] \in Block
    BY <2>1
  <2> QED BY <2>1, <2>2
<1> QED BY <1>1, <1>2, <1>3, CompleteHolds, PTL DEF Spec
-----------------------------------------------------------------------------
(* Types: the arrays a phase has not reached are empty.                     *)
Early == {"split", "failed"}

DomainInv ==
  /\ pc \in Early \cup {"wire", "sweep", "idom", "tree", "done"} /\ changed \in BOOLEAN
  /\ pc \in Early => pred = <<>>
  /\ pc \notin Early => succ \in [Block -> SUBSET Block]
  /\ pc \in Early \cup {"wire"} => dom = <<>>
  /\ pc \in Early \cup {"wire", "sweep"} => idom = <<>>
  /\ pc \notin {"tree", "done"} => order = <<>>
  /\ pc \in {"tree", "done"} => at = Len(first) + 1

LEMMA DomainStep ==
  ASSUME PhasesInv, DomainInv, [Next]_vars
  PROVE  DomainInv'
<1> USE DEF DomainInv, Early
<1>1. CASE Split
  BY <1>1 DEF Split
<1>2. CASE StartWire
  <2>1. Block' = Block
    BY <1>2 DEF StartWire, Block
  <2> QED BY <1>2, <2>1 DEF StartWire
<1>3. CASE Wire
  <2>1. Block' = Block /\ at \in Block /\ BlocksInv
    BY <1>3, NodesType DEF Wire, Block, PhasesInv, WireInv
  <2>2. Successors(at) \subseteq Block
    BY <2>1, SuccessorsAreBlocks
  <2> QED BY <1>3, <2>1, <2>2 DEF Wire
<1>4. CASE StartSweep
  <2>1. Block' = Block
    BY <1>4 DEF StartSweep, Block
  <2> QED BY <1>4, <2>1 DEF StartSweep
<1>5. CASE SweepBlock
  <2>1. Block' = Block
    BY <1>5 DEF SweepBlock, Block
  <2> QED BY <1>5, <2>1 DEF SweepBlock
<1>6. CASE EndSweep
  <2>1. Block' = Block
    BY <1>6 DEF EndSweep, Block
  <2> QED BY <1>6, <2>1 DEF EndSweep
<1>7. CASE ExtractIdom
  <2>1. Block' = Block
    BY <1>7 DEF ExtractIdom, Block
  <2> QED BY <1>7, <2>1 DEF ExtractIdom
<1>8. CASE StartTree
  <2>1. Block' = Block /\ at = Len(first) + 1
    BY <1>8, NodesType DEF StartTree, Block, PhasesInv, IdomInv
  <2> QED BY <1>8, <2>1 DEF StartTree
<1>9. CASE Number
  <2>1. Block' = Block
    BY <1>9 DEF Number, Block
  <2> QED BY <1>9, <2>1 DEF Number
<1>10. CASE NumberRest
  <2>1. Block' = Block
    BY <1>10 DEF NumberRest, Block
  <2> QED BY <1>10, <2>1 DEF NumberRest
<1>11. CASE UNCHANGED vars
  <2>1. Block' = Block
    BY <1>11 DEF vars, Block
  <2> QED BY <1>11, <2>1 DEF vars
<1> QED BY <1>1, <1>2, <1>3, <1>4, <1>5, <1>6, <1>7, <1>8, <1>9, <1>10, <1>11 DEF Next

(* A block has a node of its own.                                           *)
LEMMA BlocksAreNodes ==
  ASSUME BlocksInv
  PROVE  Len(first) <= Len(nodes)
<1> DEFINE n == Len(first)
           m == Len(nodes)
<1>1. n \in Nat /\ m \in Nat /\ Block = 1 .. n /\ DOMAIN nodes = 1 .. m
      /\ first \in [1 .. n -> 1 .. m]
  BY NodesType DEF Block, BlocksInv
<1>2. \A a, b \in 1 .. n : a < b => first[a] < first[b]
  BY <1>1 DEF BlocksInv
<1> HIDE DEF n, m
<1>3. \A a, b \in 1 .. n : first[a] = first[b] => a = b
  BY <1>1, <1>2
<1>4. first \in Injection(1 .. n, 1 .. m)
  BY <1>1, <1>3 DEF Injection, IsInjective
<1>5. IsFiniteSet(1 .. n) /\ Cardinality(1 .. n) = n /\ IsFiniteSet(1 .. m) /\ Cardinality(1 .. m) = m
  BY <1>1, FS_Interval
<1>6. Cardinality(1 .. n) <= Cardinality(1 .. m)
  BY <1>4, <1>5, FS_Injection
<1> QED BY <1>5, <1>6 DEF n, m

(* TypeOK: every array of the pass holds blocks, and a block is not its own *)
(* immediate dominator.                                                     *)
THEOREM DominanceTyped ==
  ASSUME PredecessorsFit, \A prog \in Programs : LabelsDistinct(prog)
  PROVE  Spec => []TypeOK
<1>1. Init => WalkInv /\ TreeInv /\ DomainInv
  BY DEF Init, WalkInv, TreeInv, DomainInv, Early
<1>2. PhasesInv /\ CompleteInv /\ WalkInv /\ TreeInv /\ DomainInv /\ [Next]_vars
        => WalkInv' /\ TreeInv' /\ DomainInv'
  BY TreeStep, DomainStep
<1>3. PhasesInv /\ WalkInv /\ TreeInv /\ DomainInv => TypeOK
  <2> SUFFICES ASSUME PhasesInv, WalkInv, TreeInv, DomainInv PROVE TypeOK
    OBVIOUS
  <2>1. /\ BlocksInv /\ nodes \in Seq(Node) /\ Len(first) \in Nat \ {0} /\ Len(nodes) \in Nat
        /\ Block = 1 .. Len(first) /\ Len(first) <= MaxBlocks /\ Len(first) <= Len(nodes)
        /\ \A b \in Block : first[b] \in DOMAIN nodes
    BY NodesType, BlocksAreNodes, DominanceAssumption DEF PhasesInv, BlocksInv, Block
  <2>2. pc \in {"split", "wire", "sweep", "idom", "tree", "done", "failed"} /\ changed \in BOOLEAN
    BY DEF DomainInv, Early
  <2>3. at \in 1 .. Len(nodes) + 2
    BY <2>1, <2>2 DEF PhasesInv, BlocksInv, WireInv, SweepInv, IdomInv, DomainInv
  <2>4. \A b \in DOMAIN pred : pred[b] \subseteq Block /\ succ[b] \subseteq Block
    <3>1. CASE pc \in Early
      BY <3>1 DEF DomainInv
    <3>2. CASE pc = "wire"
      <4>1. pred = [b \in Block |-> {a \in 1 .. at - 1 : b \in Successors(a)}]
            /\ at \in 1 .. Len(first) + 1
        BY <3>2 DEF PhasesInv, WireInv, Wired
      <4>2. \A b \in Block : pred[b] \subseteq Block
        BY <2>1, <4>1
      <4>3. succ \in [Block -> SUBSET Block]
        BY <3>2 DEF DomainInv, Early
      <4> QED BY <4>1, <4>2, <4>3
    <3>3. CASE pc \notin Early \cup {"wire"}
      <4>1. pred = [b \in Block |-> {a \in 1 .. Len(first) : b \in Successors(a)}]
        BY <2>2, <3>3 DEF PhasesInv, WireInv, Wired, Early
      <4>2. \A b \in Block : pred[b] \subseteq Block
        BY <2>1, <4>1
      <4>3. succ \in [Block -> SUBSET Block]
        BY <3>3 DEF DomainInv, Early
      <4> QED BY <4>1, <4>2, <4>3
    <3> QED BY <3>1, <3>2, <3>3
  <2>5. \A b \in DOMAIN dom : b \in dom[b] /\ dom[b] \subseteq Block
    <3>1. CASE pc \in Early \cup {"wire"}
      BY <3>1 DEF DomainInv
    <3>2. CASE pc \notin Early \cup {"wire"}
      BY <2>2, <3>2 DEF PhasesInv, SweepInv, Early
    <3> QED BY <3>1, <3>2
  <2>6. \A b \in DOMAIN idom : idom[b] \in ({0} \cup Block) \ {b}
    <3>1. CASE pc \in Early \cup {"wire", "sweep"}
      BY <3>1 DEF DomainInv
    <3>2. CASE pc \in {"idom", "tree", "done"}
      <4>1. /\ dom \in [Block -> SUBSET Block] /\ idom \in [Block -> {0} \cup Block]
            /\ \A b \in Block : idom[b] = 0 \/ idom[b] = Closest(b)
        BY <3>2 DEF PhasesInv, SweepInv, IdomInv
      <4>2. \A b \in Block : Closest(b) = 0 \/ Closest(b) \in dom[b] \ {b}
        BY <2>1, <4>1, ClosestIsStrict
      <4>3. 0 \notin Block
        BY <2>1
      <4> QED BY <4>1, <4>2, <4>3
    <3> QED BY <2>2, <3>1, <3>2 DEF Early
  <2>7. \A b \in DOMAIN order : order[b] \in {0} \cup Block /\ children[b] \subseteq Block
    <3>1. CASE pc \notin {"tree", "done"}
      BY <3>1 DEF DomainInv
    <3>2. CASE pc \in {"tree", "done"}
      <4>1. children \in [Block -> SUBSET Block] /\ order \in [Block -> {0} \cup Block]
        BY <3>2 DEF WalkInv, TreeInv, ChildrenInv
      <4> QED BY <4>1
    <3> QED BY <3>1, <3>2
  <2> QED BY <2>1, <2>2, <2>3, <2>4, <2>5, <2>6, <2>7 DEF TypeOK
<1> QED BY <1>1, <1>2, <1>3, CompleteHolds, PTL DEF Spec
=============================================================================
