---------------------------- MODULE PassPipeline ----------------------------
(***************************************************************************)
(* The default pipeline of ir_pass_manager.c on one function: the dominance *)
(* pass (module Dominance), dead code elimination, global value numbering,  *)
(* copy and constant propagation, and dead code elimination again.  The     *)
(* source list and the list the passes leave are then executed side by side.*)
(*                                                                          *)
(* The node list is kept with its links, since the control-flow graph of    *)
(* the dominance pass points into it while later passes unlink and free     *)
(* nodes: next[0] is fn->head and 0 is the end of the list.  A freed node   *)
(* keeps its stale link, as the allocator leaves it.                        *)
(***************************************************************************)
EXTENDS Dominance

CONSTANTS Temp,       \* temporaries
          NoTemp,     \* the empty operand name
          Imm,        \* integer constants
          Code,       \* the functions handed to the pipeline
          MaxEntries, \* GVN_TABLE_SIZE
          MaxCongs,   \* GVN_CONG_MAX
          MaxCopies,  \* CCP_COPY_MAP_MAX
          MaxConsts   \* CONST_MAP_MAX

(* An operation of one operand, one of two, and a commutative one stand for *)
(* those of gvn_is_pure, on one type each.                                  *)
Commutative == {"add"}
Pure       == {"neg", "sub"} \cup Commutative
SideEffect == {"store", "call", "arg", "ret", "br", "br_if", "label"}
Branching  == {"label", "br", "br_if", "ret"}

IRNode == [op : Pure \cup SideEffect \cup {"load", "const", "copy"},
           dst : Temp \cup {NoTemp}, src1 : Temp \cup {NoTemp}, src2 : Temp \cup {NoTemp},
           imm : Imm, label : Label \cup {NoLabel}]

(* node_uses: a store also reads the temporary that holds its address.      *)
Uses(n) == ({n.src1, n.src2} \cup IF n.op = "store" THEN {n.dst} ELSE {}) \ {NoTemp}

Defines(n) == n.dst # NoTemp /\ (n.op \in SideEffect => n.op = "call")
IsCopy(n)  == n.op = "copy" /\ n.dst # NoTemp /\ n.src1 # NoTemp

(* What the dominance pass looks at.                                        *)
Control(f) == [p \in DOMAIN f |-> [op    |-> IF f[p].op \in Branching THEN f[p].op ELSE "op",
                                   label |-> f[p].label]]

ASSUME PipelineAssumption ==
  /\ NoTemp \notin Temp
  /\ Code \subseteq Seq(IRNode) \ {<<>>}
  /\ Programs = {Control(f) : f \in Code}
  /\ MaxEntries \in Nat \ {0} /\ MaxCongs \in Nat \ {0}
  /\ MaxCopies \in Nat /\ MaxConsts \in Nat

VARIABLES stage,     \* the pass that runs
          owner,     \* is this the function s_dom_cfg was last built for?
          source,    \* the function as it was handed over
          ir,        \* the contents of its nodes now
          next,      \* their links
          freed,     \* the nodes that dead code elimination has freed
          prev, cur, \* the cursors of the pass
          again,     \* the pass has changed something in this sweep
          table,     \* s_gvn_table, in order of insertion
          cong,      \* s_gvn_cong
          walk,      \* the activations of gvn_walk_domtree, innermost last
          full,      \* has the table been full?
          aliases,   \* s_copy_map
          consts,    \* s_cmap
          before, after,  \* the temporaries of the two executions
          strayed    \* have they taken a branch that is hidden from the graph?

listVars == <<ir, next, freed>>
gvnVars  == <<table, cong, walk, full>>
ccpVars  == <<aliases, consts>>
execVars == <<before, after, strayed>>
fixed    == <<source, owner>>
pipeVars == <<vars, stage, fixed, listVars, prev, cur, again, gvnVars, ccpVars, execVars>>

Listed == DOMAIN ir \ freed
NoConst == [t \in Temp |-> <<>>]

PipeInit ==
  /\ Init
  /\ source \in {f \in Code : Control(f) = nodes}
  /\ owner \in BOOLEAN
  /\ ir = source
  /\ next = [p \in 0 .. Len(source) |-> IF p = Len(source) THEN 0 ELSE p + 1]
  /\ freed = {} /\ stage = "analyse" /\ prev = 0 /\ cur = 0 /\ again = FALSE
  /\ table = <<>> /\ cong = <<>> /\ walk = <<>> /\ full = FALSE
  /\ aliases = {} /\ consts = NoConst
  /\ before = NoConst /\ after = NoConst /\ strayed = FALSE

(* ir_pass_dominance, step by step.                                         *)
Analyse ==
  /\ stage = "analyse" /\ Next
  /\ UNCHANGED <<stage, fixed, listVars, prev, cur, again, gvnVars, ccpVars, execVars>>

StartSweepAt(s) == stage' = s /\ prev' = 0 /\ cur' = next[0] /\ again' = FALSE

StartDce ==
  /\ stage = "analyse" /\ pc \in {"done", "failed"}
  /\ StartSweepAt("dce")
  /\ UNCHANGED <<vars, fixed, listVars, gvnVars, ccpVars, execVars>>
-----------------------------------------------------------------------------
(* ir_pass_dce: sweeps that delete what no node of the list uses, until one *)
(* deletes nothing.                                                         *)
Dead(p) == /\ ir[p].dst # NoTemp /\ ir[p].op \notin SideEffect
           /\ \A q \in Listed : ir[p].dst \notin Uses(ir[q])

(* Mutant: the head of the list is not moved when the first node goes.      *)
DceDelete_KeepHead ==
  /\ stage \in {"dce", "dce2"} /\ cur # 0 /\ Dead(cur)
  /\ next' = IF prev = 0 THEN next ELSE [next EXCEPT ![prev] = next[cur]]
  /\ freed' = freed \cup {cur}
  /\ cur' = next[cur] /\ again' = TRUE
  /\ UNCHANGED <<vars, stage, fixed, ir, prev, gvnVars, ccpVars, execVars>>

DceDelete ==
  /\ stage \in {"dce", "dce2"} /\ cur # 0 /\ Dead(cur)
  /\ next' = [next EXCEPT ![prev] = next[cur]]
  /\ freed' = freed \cup {cur}
  /\ cur' = next[cur] /\ again' = TRUE
  /\ UNCHANGED <<vars, stage, fixed, ir, prev, gvnVars, ccpVars, execVars>>

DceKeep ==
  /\ stage \in {"dce", "dce2"} /\ cur # 0 /\ ~Dead(cur)
  /\ prev' = cur /\ cur' = next[cur]
  /\ UNCHANGED <<vars, stage, fixed, listVars, again, gvnVars, ccpVars, execVars>>

DceAgain ==
  /\ stage \in {"dce", "dce2"} /\ cur = 0 /\ again
  /\ StartSweepAt(stage)
  /\ UNCHANGED <<vars, fixed, listVars, gvnVars, ccpVars, execVars>>

(* gvn_scope_push                                                           *)
Frame(b) == [block |-> b, entries |-> Len(table), congs |-> Len(cong),
             todo |-> Ascending(children[b])]

(* The tree of the last function serves that function only; the others are  *)
(* scanned label by label.                                                  *)
StartGvn ==
  /\ stage = "dce" /\ cur = 0 /\ ~again
  /\ IF owner /\ pc = "done"
     THEN stage' = "gvn" /\ walk' = <<Frame(1)>> /\ cur' = first[1]
     ELSE stage' = "scan" /\ cur' = next[0] /\ UNCHANGED walk
  /\ UNCHANGED <<vars, fixed, listVars, prev, again, table, cong, full, ccpVars, execVars>>
-----------------------------------------------------------------------------
Twice(f) == [u \in DOMAIN f |-> f[f[u]]]

(* gvn_resolve_leader follows at most 16 congruences.                       *)
Leader(t) ==
  LET known(u) == {i \in DOMAIN cong : cong[i].from = u}
      hop == [u \in Temp \cup {NoTemp} |-> IF known(u) = {} THEN u ELSE cong[Least(known(u))].to]
  IN Twice(Twice(Twice(Twice(hop))))[t]

(* gvn_add_congruence: an entry for the same temporary is overwritten, a    *)
(* new one is left out when there is no room.                               *)
Congruent(from, to) ==
  IF from = to THEN cong
  ELSE IF \E i \in DOMAIN cong : cong[i].from = from
       THEN [i \in DOMAIN cong |-> IF cong[i].from = from
                                   THEN [from |-> from, to |-> Leader(to)] ELSE cong[i]]
  ELSE IF Len(cong) < MaxCongs THEN Append(cong, [from |-> from, to |-> Leader(to)])
       ELSE cong

(* gvn_keys_match: the operands are compared through their leaders, those   *)
(* of a commutative operation in one order whatever order they stand in.    *)
SameOperands(op, a, b, c, d) == (a = c /\ b = d) \/ (op \in Commutative /\ a = d /\ b = c)

(* gvn_lookup_or_insert: entries are removed in the reverse order of their  *)
(* insertion, so that probing from the hash finds an entry if it is there.  *)
Known(n) ==
  {i \in DOMAIN table : /\ table[i].op = n.op
                        /\ SameOperands(n.op, table[i].src1, table[i].src2, Leader(n.src1), Leader(n.src2))}

(* Mutant: the key holds the operands as they are written.                  *)
Entry_Unresolved(n) == [op |-> n.op, src1 |-> n.src1, src2 |-> n.src2, dst |-> n.dst]

Entry(n) == [op |-> n.op, src1 |-> Leader(n.src1), src2 |-> Leader(n.src2), dst |-> n.dst]
Inserted(n) == IF Len(table) < MaxEntries THEN Append(table, Entry(n)) ELSE table
Forward(n, canon) == [n EXCEPT !.op = "copy", !.src1 = canon, !.src2 = NoTemp]

Top == walk[Len(walk)]

(* Mutant: the walk goes on to the next node whatever block it is in.       *)
AfterNode_RunsOn == next[cur]

(* gvn_process_block leaves the block when it meets the node that was last  *)
(* when the graph was built.                                                *)
AfterNode == IF cur = Last(Top.block) THEN 0 ELSE next[cur]

(* One node of gvn_process_block.  Only the first node of the entry can be  *)
(* a freed one here (the others are met through links or are labels), and   *)
(* it has no operand: whether or not the allocator has overwritten it, it   *)
(* is no copy and no pure operation.                                        *)
GvnNode ==
  /\ stage = "gvn" /\ cur # 0
  /\ LET n == ir[cur]
         copy == cur \notin freed /\ IsCopy(n)
         pure == cur \notin freed /\ n.op \in Pure /\ n.dst # NoTemp
         canon == table[Least(Known(n))].dst
     IN \/ copy /\ cong' = Congruent(n.dst, n.src1) /\ UNCHANGED <<ir, table>>
        \/ /\ pure /\ Known(n) # {}
           /\ ir' = [ir EXCEPT ![cur] = Forward(n, canon)]
           /\ cong' = Congruent(n.dst, canon) /\ UNCHANGED table
        \/ pure /\ Known(n) = {} /\ table' = Inserted(n) /\ UNCHANGED <<ir, cong>>
        \/ ~copy /\ ~pure /\ UNCHANGED <<ir, cong, table>>
  /\ full' = (full \/ Len(table') = MaxEntries)
  /\ cur' = AfterNode
  /\ UNCHANGED <<vars, stage, fixed, next, freed, prev, again, walk, ccpVars, execVars>>

(* gvn_walk_domtree: the next child, in a scope of its own.                 *)
GvnDescend ==
  /\ stage = "gvn" /\ cur = 0 /\ Top.todo # <<>>
  /\ LET child == Head(Top.todo)
     IN /\ walk' = Append([walk EXCEPT ![Len(walk)].todo = Tail(@)], Frame(child))
        /\ cur' = first[child]
  /\ UNCHANGED <<vars, stage, fixed, listVars, prev, again, table, cong, full, ccpVars, execVars>>

(* Mutant: the entries of a finished scope stay in the table.               *)
GvnLeave_KeepEntries ==
  /\ stage = "gvn" /\ cur = 0 /\ Top.todo = <<>>
  /\ cong' = SubSeq(cong, 1, Top.congs)
  /\ walk' = SubSeq(walk, 1, Len(walk) - 1)
  /\ IF walk' = <<>> THEN StartSweepAt("ccp") ELSE UNCHANGED <<stage, prev, cur, again>>
  /\ UNCHANGED <<vars, fixed, listVars, table, full, ccpVars, execVars>>

(* gvn_scope_pop                                                            *)
GvnLeave ==
  /\ stage = "gvn" /\ cur = 0 /\ Top.todo = <<>>
  /\ table' = SubSeq(table, 1, Top.entries)
  /\ cong' = SubSeq(cong, 1, Top.congs)
  /\ walk' = SubSeq(walk, 1, Len(walk) - 1)
  /\ IF walk' = <<>> THEN StartSweepAt("ccp") ELSE UNCHANGED <<stage, prev, cur, again>>
  /\ UNCHANGED <<vars, fixed, listVars, full, ccpVars, execVars>>

(* The fallback of ir_pass_gvn: one scan, and the table is emptied at every *)
(* label.  It records no congruence.                                        *)
ScanNode ==
  /\ stage = "scan" /\ cur # 0
  /\ LET n == ir[cur]
         pure == n.op \in Pure /\ n.dst # NoTemp
     IN \/ n.op = "label" /\ table' = <<>> /\ UNCHANGED ir
        \/ /\ pure /\ Known(n) # {}
           /\ ir' = [ir EXCEPT ![cur] = Forward(n, table[Least(Known(n))].dst)]
           /\ UNCHANGED table
        \/ pure /\ Known(n) = {} /\ table' = Inserted(n) /\ UNCHANGED ir
        \/ n.op # "label" /\ ~pure /\ UNCHANGED <<ir, table>>
  /\ cur' = next[cur]
  /\ UNCHANGED <<vars, stage, fixed, next, freed, prev, again, cong, walk, full, ccpVars, execVars>>

EndScan ==
  /\ stage = "scan" /\ cur = 0
  /\ StartSweepAt("ccp")
  /\ UNCHANGED <<vars, fixed, listVars, gvnVars, ccpVars, execVars>>
-----------------------------------------------------------------------------
(* copy_map_resolve gives up after 64 links.                                *)
Resolve(t) ==
  LET known(u) == {a \in aliases : a.from = u}
      hop == [u \in Temp \cup {NoTemp} |->
                IF known(u) = {} THEN u ELSE (CHOOSE a \in known(u) : TRUE).to]
  IN Twice(Twice(Twice(Twice(Twice(Twice(hop))))))[t]

(* copy_map_add and cmap_add: what is known is replaced, what is new is     *)
(* left out when there is no room.                                          *)
AliasOf(from, to) ==
  LET others == {a \in aliases : a.from # from}
  IN IF others = aliases /\ Cardinality(aliases) >= MaxCopies THEN aliases
     ELSE others \cup {[from |-> from, to |-> to]}

Constant(t) == t # NoTemp /\ consts[t] # <<>>

ConstantOf(t, i) ==
  IF ~Constant(t) /\ Cardinality({u \in Temp : Constant(u)}) >= MaxConsts THEN consts
  ELSE [consts EXCEPT ![t] = <<i>>]

(* Mutant: the maps survive a label.                                        *)
CcpLabel_Keep == UNCHANGED <<ir, again, aliases, consts>>

CcpLabel == aliases' = {} /\ consts' = NoConst /\ UNCHANGED <<ir, again>>

CcpConst(n) == consts' = ConstantOf(n.dst, n.imm) /\ UNCHANGED <<ir, again, aliases>>

(* A copy of a known constant becomes that constant.                        *)
CcpConstCopy(n) ==
  LET i == consts[n.src1][1]
  IN /\ ir' = [ir EXCEPT ![cur] = [n EXCEPT !.op = "const", !.imm = i, !.src1 = NoTemp, !.src2 = NoTemp]]
     /\ consts' = ConstantOf(n.dst, i)
     /\ again' = TRUE /\ UNCHANGED aliases

(* The uses are replaced by what they are ultimately copies of.             *)
CcpUse(n) ==
  /\ ir' = [ir EXCEPT ![cur].src1 = Resolve(n.src1),
                      ![cur].src2 = IF IsCopy(n) THEN n.src2 ELSE Resolve(n.src2),
                      ![cur].dst  = IF n.op = "store" THEN Resolve(n.dst) ELSE n.dst]
  /\ again' = (again \/ ir' # ir)
  /\ UNCHANGED consts
  /\ aliases' = IF IsCopy(n) THEN AliasOf(n.dst, Resolve(n.src1)) ELSE aliases

(* One node of ir_pass_copy_const_prop.                                     *)
CcpNode ==
  /\ stage = "ccp" /\ cur # 0
  /\ LET n == ir[cur]
         constant == n.op = "const" /\ n.dst # NoTemp
         value == IsCopy(n) /\ Constant(n.src1)
     IN \/ n.op = "label" /\ CcpLabel
        \/ constant /\ CcpConst(n)
        \/ value /\ CcpConstCopy(n)
        \/ n.op # "label" /\ ~constant /\ ~value /\ CcpUse(n)
  /\ cur' = next[cur]
  /\ UNCHANGED <<vars, stage, fixed, next, freed, prev, gvnVars, execVars>>

(* Mutant: the sweep is taken to have changed something every time.         *)
EndCcp_Always ==
  /\ stage = "ccp" /\ cur = 0
  /\ StartSweepAt("ccp")
  /\ aliases' = {} /\ consts' = NoConst
  /\ UNCHANGED <<vars, fixed, listVars, gvnVars, execVars>>

(* The sweep is repeated, with empty maps, until it changes nothing.        *)
EndCcp ==
  /\ stage = "ccp" /\ cur = 0
  /\ StartSweepAt(IF again THEN "ccp" ELSE "dce2")
  /\ aliases' = {} /\ consts' = NoConst
  /\ UNCHANGED <<vars, fixed, listVars, gvnVars, execVars>>
-----------------------------------------------------------------------------
(* The two lists are executed together, along the branches they really take.*)
(* Values are terms: what a load from memory or a call finds is one of two  *)
(* values, the same on both sides.                                          *)
Loaded == {<<"in", 1>>, <<"in", 2>>}

StartRun ==
  /\ stage = "dce2" /\ cur = 0 /\ ~again
  /\ stage' = "run" /\ cur' = 1
  /\ UNCHANGED <<vars, fixed, listVars, prev, again, gvnVars, ccpVars, execVars>>

Value(env, t) == IF t = NoTemp THEN <<>> ELSE env[t]

Term(op, v, w) == <<op, IF op \in Commutative THEN {v, w} ELSE <<v, w>>>>

Result(n, env, in) ==
  CASE n.op \in {"load", "call"} -> in
    [] n.op = "const"            -> <<"imm", n.imm>>
    [] n.op = "copy"             -> Value(env, n.src1)
    [] OTHER                     -> Term(n.op, Value(env, n.src1), Value(env, n.src2))

Effect(n, env, in) == IF Defines(n) THEN [env EXCEPT ![n.dst] = Result(n, env, in)] ELSE env

Run ==
  /\ stage = "run" /\ cur # 0
  /\ \E in \in IF source[cur].op \in {"load", "call"} THEN Loaded ELSE {<<"in", 1>>} :
       /\ before' = Effect(source[cur], before, in)
       /\ after'  = IF cur \in freed THEN after ELSE Effect(ir[cur], after, in)
  /\ cur' \in IF Jumps(cur) = {} THEN {0} ELSE Jumps(cur)
  /\ strayed' = (strayed \/ cur' \notin Flow(cur) \cup {0})
  /\ UNCHANGED <<vars, stage, fixed, listVars, prev, again, gvnVars, ccpVars>>

PipeNext ==
  \/ Analyse \/ StartDce \/ DceDelete \/ DceKeep \/ DceAgain \/ StartGvn
  \/ GvnNode \/ GvnDescend \/ GvnLeave \/ ScanNode \/ EndScan
  \/ CcpNode \/ EndCcp \/ StartRun \/ Run

(* The passes are a sequential computation that nothing suspends.           *)
PipeSpec == PipeInit /\ [][PipeNext]_pipeVars /\ WF_pipeVars(PipeNext)
-----------------------------------------------------------------------------
(* Type invariant.  The links of the list lead forward and never to a freed *)
(* node, so that every walk of it ends and reads what it may.               *)
PipeTypeOK ==
  /\ source \in Seq(IRNode) /\ ir \in Seq(IRNode) /\ owner \in BOOLEAN
  /\ stage \in {"analyse", "dce", "gvn", "scan", "ccp", "dce2", "run"}
  /\ freed \subseteq DOMAIN ir
  /\ \A p \in DOMAIN next : next[p] = 0 \/ (p < next[p] /\ next[p] \in DOMAIN ir)
  /\ \A p \in {0} \cup Listed : next[p] \notin freed
  /\ prev \in DOMAIN next /\ cur \in DOMAIN next
  /\ \A i \in DOMAIN table : /\ table[i].op \in Pure /\ table[i].dst \in Temp
                             /\ {table[i].src1, table[i].src2} \subseteq Temp \cup {NoTemp}
  /\ \A i \in DOMAIN cong : cong[i].from \in Temp /\ cong[i].to \in Temp
  /\ Len(table) <= MaxEntries /\ Len(cong) <= MaxCongs
  /\ \A i \in DOMAIN walk : walk[i].block \in Block /\ walk[i].entries <= Len(table)
  /\ again \in BOOLEAN /\ full \in BOOLEAN /\ strayed \in BOOLEAN

(* The passes keep what the function does: each store, argument, condition  *)
(* and returned value reads the same value in the list the passes leave as  *)
(* in the list they were given.                                             *)
EffectsAgree ==
  (stage = "run" /\ cur # 0 /\ source[cur].op \in SideEffect) =>
    LET old == source[cur]  new == ir[cur]
    IN /\ Value(after, new.src1) = Value(before, old.src1)
       /\ Value(after, new.src2) = Value(before, old.src2)
       /\ old.op = "store" => Value(after, new.dst) = Value(before, old.dst)

(* On every execution that takes no branch the graph does not know of: "if" *)
(* without "else" and "break" have one, "if ... else", "?:", "while", "for",*)
(* "do" and an early return have none.                                      *)
SameEffects == ~strayed => EffectsAgree

(* The scopes of the value table follow the paths of the program: while a   *)
(* node is numbered, every expression in the table has been computed on     *)
(* each path without a hidden branch that leads to that node.               *)
AvailableOnAllPaths ==
  (stage = "gvn" /\ cur # 0) =>
    \A i \in DOMAIN table : cur \notin ReachAvoiding({p \in DOMAIN ir : ir[p].dst = table[i].dst})

(* gvn_process_block numbers the nodes of one block: no walk runs past the  *)
(* end of the block whose scope is open.                                    *)
OwnBlockOnly == (stage = "gvn" /\ cur # 0) => cur \in NodesOf(Top.block)

(* Nothing redundant is missed where the walk gets to, unless the table has *)
(* been full: when the walk returns to the entry, no pure node of a block   *)
(* that the first block dominates has the operation and the operands of     *)
(* another that dominates it.                                               *)
Walked == UNION {NodesOf(b) : b \in {x \in RootedBlocks : Dominates(1, x)}}

NoRedundancyLeft ==
  (stage = "gvn" /\ cur = 0 /\ Len(walk) = 1 /\ Top.todo = <<>> /\ ~full) =>
    LET live == {p \in Listed \cap Walked : ir[p].op \in Pure /\ ir[p].dst # NoTemp}
        twins(m, n) == m.op = n.op /\ SameOperands(m.op, m.src1, m.src2, n.src1, n.src2)
    IN \A p, q \in live : twins(ir[p], ir[q]) => q \notin VisibleFrom(p)

(* The pipeline reaches the end of its last pass.                           *)
PipelineEnds == <>(stage = "run")

(* The comment at the lookup calls a match a true redundancy: a node that   *)
(* value numbering turns into a copy copies the result of another node.     *)
TrueRedundancy ==
  stage = "gvn" => \A p \in Listed : ir[p].op = "copy" => ir[p].src1 # ir[p].dst
=============================================================================
