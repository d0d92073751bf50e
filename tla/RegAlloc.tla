------------------------------ MODULE RegAlloc ------------------------------
(***************************************************************************)
(* The register allocator of the IR backend (regalloc.c): live intervals,   *)
(* interference graph, Briggs coalescing of copies, simplify and spill,     *)
(* select, assignment.  One action per iteration of each of its loops.      *)
(***************************************************************************)
EXTENDS IRCode, Integers, FiniteSets

CONSTANTS Programs,  \* the function bodies the front end may hand over
          GprK,      \* regalloc_config.h: colours of the integer class
          FloatK,    \* regalloc_config.h: colours of the float class
          NoColor,   \* the -1 of color[]: the temporary keeps its stack slot
          NoReg      \* PREG_NONE

(* The physical registers, by class and colour: gpr_colors[color] is rbx,   *)
(* r12 .. r15, r10, r11 and xmm_colors[color] is xmm(color + 1).            *)
Reg == [float : BOOLEAN, color : Nat]

ASSUME RegAllocAssumption ==
  /\ Programs \subseteq Seq(Node)
  /\ IsFiniteSet(Temp)
  /\ GprK \in Nat \ {0} /\ FloatK \in Nat \ {0}
  /\ NoColor \notin Nat
  /\ NoReg \notin Reg

VARIABLES code,      \* the node list, fixed
          pc,        \* which loop of chaitin_briggs runs
          at,        \* the node the copy scan looks at
          ivs,       \* the temporaries that have an interval
          adj,       \* the adjacency matrix, as a set of pairs
          degree,
          removed,
          alias,     \* where the walk along alias[] from a temporary ends
          stack,
          color,
          assigned,  \* LiveInterval.assigned
          used,      \* RegAllocator.used: registers the prologue must save
          spillCands \* history: the temporaries pushed as spill candidates

vars == <<code, pc, at, ivs, adj, degree, removed, alias, stack, color,
          assigned, used, spillCands>>

Phase == {"build", "coalesce", "simplify", "select", "assign", "done"}

(* Mutant: one colour too many.                                             *)
Colors_OneMore(t) == 0 .. (IF IsFloat(code, t) THEN FloatK ELSE GprK)

Colors(t) == 0 .. (IF IsFloat(code, t) THEN FloatK ELSE GprK) - 1

Neighbours(t) == {u \in ivs : <<t, u>> \in adj}

Init == /\ code \in Programs
        /\ pc = "build"
        /\ at = 1
        /\ ivs = {} /\ adj = {} /\ removed = {}
        /\ degree = [t \in Temp |-> 0]
        /\ alias = [t \in Temp |-> t]
        /\ stack = <<>>
        /\ color = [t \in Temp |-> NoColor]
        /\ assigned = [t \in Temp |-> NoReg]
        /\ used = {} /\ spillCands = {}

(* Mutant: the matrix is filled on one side of the diagonal only.           *)
Build_OneSide ==
  /\ pc = "build"
  /\ ivs' = Referenced(code)
  /\ adj' = {e \in ivs' \X ivs' : Interferes(code, e[1], e[2]) /\ e[2] < e[1]}
  /\ degree' = [t \in Temp |-> Cardinality({u \in ivs' : <<t, u>> \in adj'})]
  /\ pc' = IF ivs' = {} THEN "done" ELSE "coalesce"
  /\ UNCHANGED <<code, at, removed, alias, stack, color, assigned, used, spillCands>>

(* build_intervals, then the adjacency matrix and the degrees.  A function  *)
(* that names no temporary never reaches chaitin_briggs.                    *)
Build ==
  /\ pc = "build"
  /\ ivs' = Referenced(code)
  /\ adj' = {e \in ivs' \X ivs' : Interferes(code, e[1], e[2])}
  /\ degree' = [t \in Temp |-> Cardinality({u \in ivs' : <<t, u>> \in adj'})]
  /\ pc' = IF ivs' = {} THEN "done" ELSE "coalesce"
  /\ UNCHANGED <<code, at, removed, alias, stack, color, assigned, used, spillCands>>

(* Briggs' test counts the neighbours of either node that are significant.  *)
Significant(u, v) ==
  {k \in ivs \ {u, v} : (<<u, k>> \in adj \/ <<v, k>> \in adj) /\ degree[k] >= GprK}

Mergeable(u, v) == /\ u # v
                   /\ IsFloat(code, u) = IsFloat(code, v)
                   /\ <<u, v>> \notin adj
                   /\ Cardinality(Significant(u, v)) < GprK

(* v is merged into u, which takes over the neighbours it lacks; nobody's   *)
(* degree is lowered although v leaves the graph.                           *)
Merge(u, v) ==
  LET gained == {i \in ivs \ {u} : <<v, i>> \in adj /\ <<u, i>> \notin adj}
  IN /\ alias' = [t \in Temp |-> IF alias[t] = v THEN u ELSE alias[t]]
     /\ adj' = adj \cup ({u} \X gained) \cup (gained \X {u})
     /\ degree' = [t \in Temp |-> IF t = u THEN degree[t] + Cardinality(gained)
                                  ELSE IF t \in gained THEN degree[t] + 1
                                  ELSE degree[t]]
     /\ removed' = removed \cup {v}

IsTempCopy(n) == n.op = "copy" /\ n.dst \in Temp /\ n.src1 \in Temp

(* One node of the copy scan.                                               *)
ScanCopy ==
  /\ pc = "coalesce"
  /\ at <= Len(code)
  /\ LET n == code[at]
     IN IF IsTempCopy(n) /\ Mergeable(alias[n.dst], alias[n.src1])
        THEN Merge(alias[n.dst], alias[n.src1])
        ELSE UNCHANGED <<adj, degree, removed, alias>>
  /\ at' = at + 1
  /\ pc' = IF at = Len(code) THEN "simplify" ELSE pc
  /\ UNCHANGED <<code, ivs, stack, color, assigned, used, spillCands>>

Remaining == ivs \ removed

(* Mutant: a node with K neighbours counts as low.                          *)
Low_AtMost == {t \in Remaining : degree[t] <= GprK}

Low == {t \in Remaining : degree[t] < GprK}

(* Move a node from the graph to the stack.                                 *)
Push(t) ==
  /\ removed' = removed \cup {t}
  /\ stack' = Append(stack, t)
  /\ degree' = [j \in Temp |-> IF j \in Remaining \ {t} /\ <<t, j>> \in adj
                               THEN degree[j] - 1 ELSE degree[j]]

(* Among the nodes of low degree the one with the smallest name goes first. *)
Simplify ==
  /\ pc = "simplify"
  /\ \E t \in Low : (\A u \in Low : t <= u) /\ Push(t)
  /\ UNCHANGED <<code, pc, at, ivs, adj, alias, color, assigned, used, spillCands>>

(* No node of low degree: a spill candidate is pushed.  The floating-point  *)
(* cost that picks it is abstracted to any remaining node.                  *)
PushSpillCandidate ==
  /\ pc = "simplify"
  /\ Low = {}
  /\ \E t \in Remaining : Push(t) /\ spillCands' = spillCands \cup {t}
  /\ UNCHANGED <<code, pc, at, ivs, adj, alias, color, assigned, used>>

(* The graph is empty; removed[] is cleared and now means "coloured".       *)
StartSelect ==
  /\ pc = "simplify"
  /\ Remaining = {}
  /\ pc' = "select"
  /\ removed' = {}
  /\ UNCHANGED <<code, at, ivs, adj, degree, alias, stack, color, assigned, used, spillCands>>

UsedColors(t) == {color[alias[j]] : j \in Neighbours(t) \cap removed}

FirstFree(c, free) == IF free = {} THEN c = NoColor
                      ELSE c \in free /\ \A d \in free : c <= d

(* Pop a node and give it the lowest colour no coloured neighbour has.      *)
Select ==
  /\ pc = "select"
  /\ stack # <<>>
  /\ LET t == stack[Len(stack)]
     IN /\ \E c \in Colors(t) \cup {NoColor} :
             /\ FirstFree(c, Colors(t) \ UsedColors(t))
             /\ color' = [color EXCEPT ![t] = c]
        /\ removed' = removed \cup {t}
  /\ stack' = SubSeq(stack, 1, Len(stack) - 1)
  /\ pc' = IF Len(stack) = 1 THEN "assign" ELSE pc
  /\ UNCHANGED <<code, at, ivs, adj, degree, alias, assigned, used, spillCands>>

(* Mutant: used[] is not marked.                                            *)
Assign_Unmarked ==
  /\ pc = "assign"
  /\ assigned' = [t \in Temp |->
                    IF t \in ivs /\ color[alias[t]] # NoColor
                    THEN [float |-> IsFloat(code, t), color |-> color[alias[t]]]
                    ELSE NoReg]
  /\ pc' = "done"
  /\ UNCHANGED <<code, at, ivs, adj, degree, removed, alias, stack, color, used, spillCands>>

(* Every interval takes the register of its alias root.                     *)
Assign ==
  /\ pc = "assign"
  /\ assigned' = [t \in Temp |->
                    IF t \in ivs /\ color[alias[t]] # NoColor
                    THEN [float |-> IsFloat(code, t), color |-> color[alias[t]]]
                    ELSE NoReg]
  /\ used' = {assigned'[t] : t \in ivs} \ {NoReg}
  /\ pc' = "done"
  /\ UNCHANGED <<code, at, ivs, adj, degree, removed, alias, stack, color, spillCands>>

Next == Build \/ ScanCopy \/ Simplify \/ PushSpillCandidate \/ StartSelect
        \/ Select \/ Assign

Spec == Init /\ [][Next]_vars
-----------------------------------------------------------------------------
(* Type invariant: colours stay below K, and only temporaries that have an  *)
(* interval are ever removed, stacked or linked.                            *)
TypeOK ==
  /\ code \in Seq(Node)
  /\ pc \in Phase
  /\ at \in 1 .. Len(code) + 1
  /\ ivs \subseteq Temp
  /\ adj \subseteq ivs \X ivs
  /\ degree \in [Temp -> Int]
  /\ removed \subseteq ivs
  /\ alias \in [Temp -> Temp]
  /\ stack \in Seq(ivs)
  /\ color \in [Temp -> (0 .. GprK - 1) \cup (0 .. FloatK - 1) \cup {NoColor}]
  /\ assigned \in [Temp -> Reg \cup {NoReg}]
  /\ used \subseteq Reg
  /\ spillCands \subseteq ivs

(* What the lowering relies on when it reads a register with ra_get: no     *)
(* node position lies inside the intervals of two temporaries that were     *)
(* given the same register, through coalescing, spilling and select.        *)
NoInterference ==
  pc = "done" =>
    \A t, u \in ivs :
      t # u /\ assigned[t] # NoReg /\ assigned[t] = assigned[u] =>
        \A p \in DOMAIN code : ~(InInterval(code, t, p) /\ InInterval(code, u, p))

(* Optimistic colouring: a temporary that simplify removed because its      *)
(* degree was below K always finds a free colour when it is popped; only    *)
(* spill candidates can end up on the stack frame.  (degree[] must still be *)
(* the number of uncoloured neighbours at that moment.)                     *)
SimplifiedNeverSpills ==
  pc = "done" => \A t \in ivs \ spillCands : assigned[t] # NoReg

Pressure(f, p) == Cardinality({t \in ivs : IsFloat(code, t) = f /\ InInterval(code, t, p)})

(* The graph is an interval graph, so as long as no position has more than  *)
(* K temporaries of a class inside their intervals, nothing is spilled,     *)
(* whatever the order in which simplify takes the nodes.                    *)
NoSpillUnderPressure ==
  (pc = "done" /\ \A p \in DOMAIN code : Pressure(FALSE, p) <= GprK /\ Pressure(TRUE, p) <= FloatK)
    => \A t \in ivs : assigned[t] # NoReg

(* The two ends of a copy are both referenced by the copy itself, so their  *)
(* closed intervals meet there and Briggs' test refuses them: the           *)
(* coalescing loop of chaitin_briggs never merges anything.                 *)
CoalescingNeverFires == \A t \in Temp : alias[t] = t
=============================================================================
