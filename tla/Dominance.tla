----------------------------- MODULE Dominance -----------------------------
(***************************************************************************)
(* The control-flow graph and the dominator tree of a function              *)
(* (ir_dominance.c), which the allocator's loop depths and global value     *)
(* numbering read.  One action per iteration of each loop of the pass.      *)
(*                                                                          *)
(* Nodes and blocks are numbered from 1 (the code counts from 0); block 1   *)
(* is the entry and 0 stands for the -1 of idom.                            *)
(***************************************************************************)
EXTENDS Naturals, Sequences, FiniteSets

CONSTANTS Label,        \* label names
          NoLabel,      \* the empty label
          Programs,     \* the node lists the front end may hand over
          MaxBlocks,    \* DOM_MAX_BLOCKS
          MaxPreds,     \* DOM_MAX_PREDS
          MaxChildren   \* DOM_MAX_CHILDREN

(* An operation that does not touch control is "op"; IR_RET2 is a "ret".    *)
Node == [op : {"op", "label", "br", "br_if", "ret"}, label : Label \cup {NoLabel}]

ASSUME DominanceAssumption ==
  /\ NoLabel \notin Label
  /\ Programs \subseteq Seq(Node) \ {<<>>}
  /\ MaxBlocks \in Nat \ {0} /\ MaxPreds \in Nat \ {0} /\ MaxChildren \in Nat

VARIABLES nodes,     \* the node list, fixed
          pc,        \* which loop of the pass runs
          at,        \* its loop variable
          first,     \* the position of each block's first node
          pred, succ,
          dom,       \* s_dom_sets
          changed,
          idom, children,
          order,     \* dom_order
          todo       \* dom_preorder's recursion: the blocks still to number

vars == <<nodes, pc, at, first, pred, succ, dom, changed, idom, children, order, todo>>

Block == 1 .. Len(first)
Last(b) == IF b = Len(first) THEN Len(nodes) ELSE first[b + 1] - 1
Least(S) == CHOOSE x \in S : \A y \in S : x <= y

Init == /\ nodes \in Programs
        /\ pc = "split" /\ at = 2
        /\ first = <<1>>
        /\ pred = <<>> /\ succ = <<>> /\ dom = <<>> /\ changed = FALSE
        /\ idom = <<>> /\ children = <<>> /\ order = <<>> /\ todo = <<>>

(* Phase 1 of dom_build_cfg: a label starts a block.                        *)
Split ==
  /\ pc = "split" /\ at <= Len(nodes)
  /\ IF nodes[at].op # "label" THEN UNCHANGED <<first, pc>>
     ELSE IF Len(first) = MaxBlocks THEN pc' = "failed" /\ UNCHANGED first
     ELSE first' = Append(first, at) /\ UNCHANGED pc
  /\ at' = at + 1
  /\ UNCHANGED <<nodes, pred, succ, dom, changed, idom, children, order, todo>>

StartWire ==
  /\ pc = "split" /\ at > Len(nodes)
  /\ pc' = "wire" /\ at' = 1
  /\ pred' = [b \in Block |-> {}]
  /\ succ' = [b \in Block |-> {}]
  /\ UNCHANGED <<nodes, first, dom, changed, idom, children, order, todo>>

(* find_block_by_label                                                      *)
Target(label) ==
  LET found == {b \in Block : nodes[first[b]] = [op |-> "label", label |-> label]}
  IN IF found = {} THEN {} ELSE {Least(found)}

Successors(b) ==
  LET last == nodes[Last(b)]
  IN (IF last.op \in {"br", "br_if"} THEN Target(last.label) ELSE {})
     \cup (IF last.op \notin {"br", "ret"} THEN {b + 1} \cap Block ELSE {})

(* Phase 2, for one block.  A predecessor beyond the limit is not recorded. *)
Wire ==
  /\ pc = "wire" /\ at <= Len(first)
  /\ succ' = [succ EXCEPT ![at] = Successors(at)]
  /\ pred' = [b \in Block |-> IF b \in Successors(at) /\ Cardinality(pred[b]) < MaxPreds
                              THEN pred[b] \cup {at} ELSE pred[b]]
  /\ at' = at + 1
  /\ UNCHANGED <<nodes, pc, first, dom, changed, idom, children, order, todo>>

(* Mutant: the sets grow from below instead of shrinking from above.        *)
StartSweep_FromBelow ==
  /\ pc = "wire" /\ at > Len(first)
  /\ pc' = "sweep" /\ at' = 2 /\ changed' = FALSE
  /\ dom' = [b \in Block |-> {b}]
  /\ UNCHANGED <<nodes, first, pred, succ, idom, children, order, todo>>

(* dom_compute_idom: every block but the entry starts with all blocks.      *)
StartSweep ==
  /\ pc = "wire" /\ at > Len(first)
  /\ pc' = "sweep" /\ at' = 2 /\ changed' = FALSE
  /\ dom' = [b \in Block |-> IF b = 1 THEN {1} ELSE Block]
  /\ UNCHANGED <<nodes, first, pred, succ, idom, children, order, todo>>

(* Mutant: a block is not added to its own set.                             *)
NewDom_NoSelf(b) == {d \in Block : pred[b] # {} /\ \A p \in pred[b] : d \in dom[p]}

NewDom(b) == {b} \cup {d \in Block : pred[b] # {} /\ \A p \in pred[b] : d \in dom[p]}

SweepBlock ==
  /\ pc = "sweep" /\ at <= Len(first)
  /\ dom' = [dom EXCEPT ![at] = NewDom(at)]
  /\ changed' = (changed \/ dom' # dom)
  /\ at' = at + 1
  /\ UNCHANGED <<nodes, pc, first, pred, succ, idom, children, order, todo>>

(* Mutant: one sweep in textual order is taken to be enough.                *)
EndSweep_Once ==
  /\ pc = "sweep" /\ at > Len(first)
  /\ at' = 2 /\ pc' = "idom" /\ idom' = [b \in Block |-> 0] /\ changed' = FALSE
  /\ UNCHANGED <<nodes, first, pred, succ, dom, children, order, todo>>

(* Mutant: changed is set once and for all.                                 *)
EndSweep_KeepChanged ==
  /\ pc = "sweep" /\ at > Len(first)
  /\ at' = 2
  /\ IF changed THEN UNCHANGED <<pc, idom>>
                ELSE pc' = "idom" /\ idom' = [b \in Block |-> 0]
  /\ UNCHANGED <<nodes, first, pred, succ, dom, changed, children, order, todo>>

(* The sweep is repeated until nothing changes.                             *)
EndSweep ==
  /\ pc = "sweep" /\ at > Len(first)
  /\ at' = 2 /\ changed' = FALSE
  /\ IF changed THEN UNCHANGED <<pc, idom>>
                ELSE pc' = "idom" /\ idom' = [b \in Block |-> 0]
  /\ UNCHANGED <<nodes, first, pred, succ, dom, children, order, todo>>

(* Mutant: the dominator with the fewest dominators of its own is taken.    *)
Closest_Farthest(b) ==
  LET strict == dom[b] \ {b}
      best == {d \in strict : \A e \in strict : Cardinality(dom[d]) <= Cardinality(dom[e])}
  IN IF strict = {} THEN 0 ELSE Least(best)

(* The strict dominator that has the most dominators itself.                *)
Closest(b) ==
  LET strict == dom[b] \ {b}
      best == {d \in strict : \A e \in strict : Cardinality(dom[d]) >= Cardinality(dom[e])}
  IN IF strict = {} THEN 0 ELSE Least(best)

ExtractIdom ==
  /\ pc = "idom" /\ at <= Len(first)
  /\ idom' = [idom EXCEPT ![at] = Closest(at)]
  /\ at' = at + 1
  /\ UNCHANGED <<nodes, pc, first, pred, succ, dom, changed, children, order, todo>>

(* dom_build_tree: children in the order of their numbers, then a preorder  *)
(* walk from the entry.  Children beyond the limit are not recorded.        *)
Rank(S, c) == Cardinality({d \in S : d <= c})
Ascending(S) == [i \in 1 .. Cardinality(S) |-> CHOOSE c \in S : Rank(S, c) = i]

StartTree ==
  /\ pc = "idom" /\ at > Len(first)
  /\ pc' = "tree"
  /\ LET all(b) == {c \in Block \ {1} : idom[c] = b}
     IN children' = [b \in Block |-> {c \in all(b) : Rank(all(b), c) <= MaxChildren}]
  /\ order' = [b \in Block |-> 0] /\ todo' = <<1>>
  /\ UNCHANGED <<nodes, at, first, pred, succ, dom, changed, idom>>

Numbered == {b \in Block : order[b] # 0}

(* Mutant: the children are not visited.                                    *)
Number_NoChildren ==
  /\ pc = "tree" /\ todo # <<>>
  /\ order' = [order EXCEPT ![Head(todo)] = Cardinality(Numbered) + 1]
  /\ todo' = Tail(todo)
  /\ UNCHANGED <<nodes, pc, at, first, pred, succ, dom, changed, idom, children>>

Number ==
  /\ pc = "tree" /\ todo # <<>>
  /\ order' = [order EXCEPT ![Head(todo)] = Cardinality(Numbered) + 1]
  /\ todo' = Ascending(children[Head(todo)]) \o Tail(todo)
  /\ UNCHANGED <<nodes, pc, at, first, pred, succ, dom, changed, idom, children>>

(* The blocks the walk has not met are numbered behind the others.          *)
NumberRest ==
  /\ pc = "tree" /\ todo = <<>>
  /\ order' = [b \in Block |-> IF order[b] # 0 THEN order[b]
                               ELSE Cardinality(Numbered) + Rank(Block \ Numbered, b)]
  /\ pc' = "done"
  /\ UNCHANGED <<nodes, at, first, pred, succ, dom, changed, idom, children, todo>>

Next == Split \/ StartWire \/ Wire \/ StartSweep \/ SweepBlock \/ EndSweep \/ ExtractIdom
        \/ StartTree \/ Number \/ NumberRest

(* A sequential computation that nothing suspends.                          *)
Spec == Init /\ [][Next]_vars /\ WF_vars(Next)
-----------------------------------------------------------------------------
(* dom_dominates walks the idom links.  (Two blocks of an unreachable loop  *)
(* can be each other's idom; the walk from there has no end, and its model  *)
(* is the set of blocks it meets.)                                          *)
Chain(b) == LET met[k \in 0 .. Len(first)] ==
                  IF k = 0 THEN {b} ELSE met[k - 1] \cup {idom[x] : x \in met[k - 1] \cap Block}
            IN met[Len(first)] \cap Block

Dominates(a, b) == a \in Chain(b)

(* Reference: where control goes from node p when the list is executed.     *)
Jumps(p) == (IF nodes[p].op \in {"br", "br_if"}
             THEN {q \in DOMAIN nodes : nodes[q] = [op |-> "label", label |-> nodes[p].label]}
             ELSE {})
            \cup (IF nodes[p].op \notin {"br", "ret"} THEN {p + 1} \cap DOMAIN nodes ELSE {})

(* A block that no block ends with a jump to is an entry of the graph: it   *)
(* gets no predecessors, and its set of dominators is itself.               *)
Enders(c) == {b \in Block : first[c] \in Jumps(Last(b))}
Entries   == {1} \cup {c \in Block : Enders(c) = {}}

(* What the graph accounts for.  It has edges for the last node of a block  *)
(* only, and a branch inside a block (part4.c puts no label behind the      *)
(* br_if of "if", "while", "for" and "?:") is passed over, which does no    *)
(* harm when it leads to an entry of the graph.  The other branches inside  *)
(* a block are hidden from the graph.                                       *)
Inside(p) == p + 1 \in DOMAIN nodes /\ nodes[p + 1].op # "label"

Flow(p) == IF Inside(p) THEN {p + 1} \cup {first[c] : c \in {e \in Entries : first[e] \in Jumps(p)}}
           ELSE Jumps(p)

(* The nodes that can execute, from a node of "start" on along the steps    *)
(* that the graph accounts for, without one of "avoid" having executed.     *)
Reaching(start, avoid) ==
  LET R[k \in 0 .. Len(nodes)] ==
        IF k = 0 THEN start \ avoid
        ELSE LET met == R[k - 1] IN met \cup ((UNION {Flow(p) : p \in met}) \ avoid)
  IN R[Len(nodes)]

ReachAvoiding(avoid) == Reaching({1}, avoid)

(* The blocks that the graph leads to from its entries.                     *)
EntriesAvoiding(avoid) == Reaching({first[c] : c \in Entries}, avoid)
RootedBlocks == LET all == EntriesAvoiding({}) IN {b \in Block : first[b] \in all}

NodesOf(b) == first[b] .. Last(b)

(* Type invariant.                                                          *)
TypeOK ==
  /\ nodes \in Seq(Node)
  /\ pc \in {"split", "wire", "sweep", "idom", "tree", "done", "failed"}
  /\ at \in 1 .. Len(nodes) + 2
  /\ Len(first) <= MaxBlocks /\ \A b \in Block : first[b] \in DOMAIN nodes
  /\ \A b \in DOMAIN pred : pred[b] \subseteq Block /\ succ[b] \subseteq Block
  /\ \A b \in DOMAIN dom : b \in dom[b] /\ dom[b] \subseteq Block
  /\ \A b \in DOMAIN idom : idom[b] \in ({0} \cup Block) \ {b}
  /\ \A b \in DOMAIN order : order[b] \in {0} \cup Block /\ children[b] \subseteq Block
  /\ changed \in BOOLEAN

(* ir_dominance.c: a definition in block A is visible in block B only if A  *)
(* dominates B.  Value numbering lets an earlier node of the same block, or *)
(* any node of a block that dominates, stand for a later one: that node     *)
(* must have executed on every path that gets there without a hidden branch.*)
VisibleFrom(p) ==
  UNION {{q \in NodesOf(b) : p \in NodesOf(b) => p < q} :
           b \in {x \in Block : \E a \in Block : p \in NodesOf(a) /\ Dominates(a, x)}}

DefinitionsVisible ==
  pc = "done" => \A p \in DOMAIN nodes : VisibleFrom(p) \cap ReachAvoiding({p}) = {}

(* The other direction, so that loops and redundancies are found: a block   *)
(* that lies on every path from the entries of the graph to b dominates b.  *)
AllDominatorsFound ==
  pc = "done" =>
    \A a \in Block : LET without == EntriesAvoiding({first[a]})
                     IN \A b \in RootedBlocks : first[b] \notin without => Dominates(a, b)

(* idom is the closest strict dominator: it is dominated by all the others, *)
(* so that the walk from a block the graph leads to ends.                   *)
IdomIsClosest ==
  pc = "done" =>
    \A b \in RootedBlocks : idom[b] # 0 => dom[b] = dom[idom[b]] \cup {b}

(* The preorder numbers each block once, and a block that the first block   *)
(* dominates behind its immediate dominator.                                *)
OrderFollowsTree ==
  pc = "done" =>
    /\ {order[b] : b \in Block} = Block
    /\ \A b \in RootedBlocks \ {1} : 1 \in dom[b] => order[idom[b]] < order[b]

(* The data-flow iteration reaches its fixed point.                         *)
Terminates == <>(pc \in {"done", "failed"})
=============================================================================
