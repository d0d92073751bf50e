---------------------------- MODULE SsaRegAlloc ----------------------------
(***************************************************************************)
(* The register allocator of the SSA path (compiler_passes.c): numbering    *)
(* and liveness in the breadth-first order of the blocks, colouring by      *)
(* maximum cardinality search, linear scan when the colours do not suffice, *)
(* and the emitted code executing with the registers so assigned.           *)
(* A value is the number of the definition that made it.                    *)
(***************************************************************************)
EXTENDS Integers, Sequences, FiniteSets, FiniteSetsExt

CONSTANTS Vreg,         \* virtual registers, numbered as the code numbers them
          NoVreg,       \* the instruction defines none
          N_PHYS_REGS,  \* physical registers
          CallerSaved,  \* those a callee may change (r10 and r11)
          Scratch,      \* the one a float "!=" writes (r11)
          NoReg,        \* kept in its stack slot (-1)
          MaxVregs,     \* colouring gives up above this many virtual registers
          Programs,     \* function bodies, instructions in allocation order
          MaxClock      \* bound on the definitions one execution makes

PhysReg == 0 .. N_PHYS_REGS - 1

ASSUME SsaAssumption ==
  /\ Vreg \subseteq Nat \ {0} /\ IsFiniteSet(Vreg) /\ NoVreg \notin Vreg
  /\ N_PHYS_REGS \in Nat \ {0} /\ CallerSaved \subseteq PhysReg /\ Scratch \in PhysReg
  /\ NoReg \notin PhysReg /\ MaxVregs \in Nat /\ MaxClock \in Nat \ {0}

(* An instruction: what it defines, the registers it reads, its block and   *)
(* the loops around it, for a phi the register it takes from each           *)
(* predecessor, for a branch its successors.                                *)
Op == {"op", "alloca", "fne", "call", "phi", "br", "condbr", "ret"}
IsInstr(n) == /\ n.op \in Op /\ n.dst \in Vreg \cup {NoVreg} /\ n.src \subseteq Vreg
              /\ n.block \in Nat /\ n.depth \in Nat /\ n.to \subseteq Nat
              /\ n.from \in [DOMAIN n.from -> Vreg]

Terminators == {"br", "condbr", "ret"}

(* What the passes hand over: blocks in one piece, phis in front and the    *)
(* terminator behind, one definition of each register, in front of every    *)
(* use but those of phis.                                                   *)
WellFormed(body) ==
  /\ body \in Seq({body[p] : p \in DOMAIN body}) /\ body # <<>>
  /\ \A p \in DOMAIN body : IsInstr(body[p])
  /\ body[1].op # "phi" /\ body[Len(body)].op \in Terminators
  /\ \A p \in 1 .. Len(body) - 1 : IF body[p].op \in Terminators
                                   THEN body[p + 1].block > body[p].block
                                   ELSE body[p + 1].block = body[p].block
  /\ \A p \in DOMAIN body :
       /\ body[p].op # "phi" => body[p].from = <<>>
       /\ body[p].op = "phi" => /\ body[p].src = {} /\ body[p].dst \in Vreg
                                /\ \A q \in DOMAIN body : body[q].block = body[p].block /\ q < p
                                                               => body[q].op = "phi"
       /\ body[p].op \in Terminators => body[p].dst = NoVreg
       /\ body[p].op \notin {"br", "condbr"} => body[p].to = {}
       /\ \A b \in body[p].to :
            /\ \E e \in DOMAIN body : body[e].block = b
            /\ \A f \in DOMAIN body : body[f].op = "phi" /\ body[f].block = b
                                         => body[p].block \in DOMAIN body[f].from
  /\ \A p, q \in DOMAIN body : /\ body[p].dst = body[q].dst /\ body[p].dst # NoVreg => p = q
                               /\ body[p].dst \in body[q].src => p < q

(* Block b is on every path to block u: a set of blocks that holds the      *)
(* first and every successor but b leaves u out.                            *)
Dominates(body, b, u) ==
  \/ b = u
  \/ \E S \in SUBSET ({body[p].block : p \in DOMAIN body} \ {b}) :
       /\ body[1].block \in S \cup {b}
       /\ \A p \in DOMAIN body : body[p].block \in S => body[p].to \subseteq S \cup {b}
       /\ u \notin S

(* Breadth-first order: each block but the first is behind a predecessor.   *)
(* SSA form: what an instruction reads, or a branch hands to a phi, is      *)
(* defined on every path there.                                             *)
Strict(body) ==
  LET defined(v, u) == \E d \in DOMAIN body : /\ body[d].dst = v
                                              /\ Dominates(body, body[d].block, body[u].block)
  IN \A u \in DOMAIN body :
       /\ body[u].block = body[1].block \/ \E q \in DOMAIN body : /\ body[q].block < body[u].block
                                                               /\ body[u].block \in body[q].to
       /\ \A v \in body[u].src : defined(v, u)
       /\ \A f \in DOMAIN body : body[f].op = "phi" /\ body[f].block \in body[u].to
                                      => defined(body[f].from[body[u].block], u)

ASSUME ProgramAssumption == \A body \in Programs : WellFormed(body) /\ Strict(body)

VARIABLES code,       \* the function
          phase,      \* which loop runs
          def_seq,    \* start of each interval, None if never defined
          last_use,   \* its last position, None if never used
          first_use,
          weight,     \* coloured neighbours-to-be, of the cardinality search
          peo,        \* the order the search visited, coloured from its end
          waiting,    \* intervals linear scan has not reached
          active,     \* intervals that hold a register
          phys_reg,   \* the result
          pos,        \* position about to execute
          clock,      \* definitions made so far
          val,        \* history: the register's value by the meaning of the IR
          mem,        \* physical registers, and behind them the stack slots
          left,       \* history: registers whose interval execution left, or has
                      \* not entered, since their definition
          hit         \* history: registers overwritten inside their interval

execVars == <<pos, clock, val, mem, left, hit>>
allocVars == <<code, phase, def_seq, last_use, first_use, weight, peo, waiting, active, phys_reg>>

None == 0   \* -1 in the code, whose positions start at 0

----------------------------------------------------------------------------
(* Liveness                                                                 *)

Reads(n) == n.src \cup {n.from[q] : q \in DOMAIN n.from}
Uses(v) == {p \in DOMAIN code : v \in Reads(code[p])}
DefPos(v) == {p \in DOMAIN code : code[p].dst = v}
First(S) == IF S = {} THEN None ELSE Min(S)
Last(S) == IF S = {} THEN None ELSE Max(S)

Block(b) == {p \in DOMAIN code : code[p].block = b}
Blocks == {code[p].block : p \in DOMAIN code}
Preds(b) == {code[p].block : p \in {t \in DOMAIN code : b \in code[t].to}}
PhiSources == UNION {Reads(code[p]) : p \in {f \in DOMAIN code : code[f].op = "phi"}}

Places == PhysReg \cup {N_PHYS_REGS + v : v \in Vreg}
Garbage == 0

Init ==
  /\ code \in Programs
  /\ phase = "number"
  /\ def_seq = [v \in Vreg |-> None] /\ last_use = def_seq /\ first_use = def_seq
  /\ weight = [v \in Vreg |-> 0] /\ peo = <<>>
  /\ waiting = {} /\ active = {}
  /\ phys_reg = [v \in Vreg |-> NoReg]
  /\ pos = 1 /\ clock = 0
  /\ val = [v \in Vreg |-> Garbage] /\ mem = [l \in Places |-> Garbage]
  /\ left = Vreg /\ hit = {}

Number ==
  /\ phase = "number"
  /\ phase' = "phi"
  /\ def_seq' = [v \in Vreg |-> Last(DefPos(v))]
  /\ last_use' = [v \in Vreg |-> Last(Uses(v))]
  /\ first_use' = [v \in Vreg |-> First(Uses(v))]
  /\ UNCHANGED <<code, weight, peo, waiting, active, phys_reg>>

(* Mutant: the number of positions instead of the last one.                 *)
KeepForPhi_PastEnd ==
  /\ phase = "phi"
  /\ phase' = "loop"
  /\ last_use' = [v \in Vreg |->
       IF v \in PhiSources /\ def_seq[v] # None /\ last_use[v] < def_seq[v] THEN Len(code) + 1
       ELSE last_use[v]]
  /\ UNCHANGED <<code, def_seq, first_use, weight, peo, waiting, active, phys_reg>>

(* A source that comes along a back edge is used before it is defined.      *)
KeepForPhi ==
  /\ phase = "phi"
  /\ phase' = "loop"
  /\ last_use' = [v \in Vreg |->
       IF v \in PhiSources /\ def_seq[v] # None /\ last_use[v] < def_seq[v] THEN Len(code)
       ELSE last_use[v]]
  /\ UNCHANGED <<code, def_seq, first_use, weight, peo, waiting, active, phys_reg>>

(* Mutant: every predecessor must stand behind the block.                   *)
LoopHeader_AllBehind(b) == \A q \in Preds(b) : q > b

(* A predecessor stands behind the block.                                   *)
LoopHeader(b) == \E q \in Preds(b) : q > b

(* Defined before a loop and used in it or behind it.                       *)
KeepForLoops ==
  /\ phase = "loop"
  /\ phase' = "widen"
  /\ last_use' = [v \in Vreg |->
       IF \E b \in Blocks : /\ LoopHeader(b)
                            /\ def_seq[v] # None /\ def_seq[v] < First(Block(b))
                            /\ last_use[v] >= First(Block(b))
       THEN Len(code) ELSE last_use[v]]
  /\ UNCHANGED <<code, def_seq, first_use, weight, peo, waiting, active, phys_reg>>

OnStack(v) == \E p \in DefPos(v) : code[p].op = "alloca"
Candidates == {v \in Vreg : def_seq[v] # None /\ ~OnStack(v)}

(* An interval whose uses begin before the definition starts at the use.    *)
Widen ==
  LET last(v)  == def_seq[v] # None /\ last_use[v] # None /\ last_use[v] < def_seq[v]
      first(v) == def_seq[v] # None /\ first_use[v] # None /\ first_use[v] < def_seq[v]
  IN /\ phase = "widen"
     /\ def_seq' = [v \in Vreg |-> IF last(v) THEN last_use[v]
                                   ELSE IF first(v) THEN first_use[v] ELSE def_seq[v]]
     /\ last_use' = [v \in Vreg |-> IF last(v) \/ first(v) THEN Len(code) ELSE last_use[v]]
     /\ phase' = IF Cardinality(Candidates) > MaxVregs THEN "give_up" ELSE "search"
     /\ UNCHANGED <<code, first_use, weight, peo, waiting, active, phys_reg>>

----------------------------------------------------------------------------
(* Colouring                                                                *)

Start(v) == def_seq[v]
Stop(v) == IF last_use[v] # None THEN last_use[v] ELSE def_seq[v]
Meets(v, w) == ~ (Stop(v) < Start(w) \/ Stop(w) < Start(v))

Unvisited == Candidates \ {peo[i] : i \in DOMAIN peo}

(* The next to visit overlaps most of those visited; the lowest of a tie.   *)
Visit(v) ==
  /\ phase = "search"
  /\ v \in Unvisited
  /\ \A w \in Unvisited : weight[w] < weight[v] \/ (weight[w] = weight[v] /\ v <= w)
  /\ peo' = Append(peo, v)
  /\ weight' = [w \in Vreg |-> IF w \in Unvisited \ {v} /\ Meets(w, v) THEN weight[w] + 1
                               ELSE weight[w]]
  /\ UNCHANGED <<code, phase, def_seq, last_use, first_use, waiting, active, phys_reg>>

EndSearch ==
  /\ phase = "search" /\ Unvisited = {}
  /\ phase' = "color"
  /\ UNCHANGED <<code, def_seq, last_use, first_use, weight, peo, waiting, active, phys_reg>>

(* Those later in the order already have their colours.                     *)
Taken(v) == {phys_reg[w] : w \in {u \in Candidates \ {v} : Meets(u, v)}} \ {NoReg}

Color ==
  LET v == peo[Len(peo)]
      free == PhysReg \ Taken(v)
  IN /\ phase = "color" /\ peo # <<>>
     /\ IF free # {}
        THEN /\ phys_reg' = [phys_reg EXCEPT ![v] = Min(free)]
             /\ peo' = SubSeq(peo, 1, Len(peo) - 1)
             /\ phase' = phase
        ELSE /\ phys_reg' = [w \in Vreg |-> NoReg]
             /\ peo' = <<>>
             /\ phase' = "give_up"
     /\ UNCHANGED <<code, def_seq, last_use, first_use, weight, waiting, active>>

(* ZCC_IR_SPILL=0 leaves everything on the stack.                           *)
GiveUp ==
  /\ phase = "give_up"
  /\ phase' \in {"scan", "run"}
  /\ waiting' = IF phase' = "scan" THEN Candidates ELSE {}
  /\ UNCHANGED <<code, def_seq, last_use, first_use, weight, peo, active, phys_reg>>

----------------------------------------------------------------------------
(* Linear scan                                                              *)

Before(v, w) == \/ Start(v) < Start(w)
                \/ (Start(v) = Start(w) /\ Stop(v) < Stop(w))
                \/ (Start(v) = Start(w) /\ Stop(v) = Stop(w) /\ v <= w)

(* Mutant: an interval that ends where the next starts is over.             *)
Unexpired_Touching(v) == {w \in active : Stop(w) > Start(v)}

Unexpired(v) == {w \in active : Stop(w) >= Start(v)}
Held(v) == {phys_reg[w] : w \in Unexpired(v)}

Depth(v) == code[Last(DefPos(v))].depth

(* An interval that ends later than v gives way: of those in the fewest     *)
(* loops, one that ends last.                                               *)
Later(v) == {w \in Unexpired(v) : Stop(w) > Stop(v)}
Victims(v) ==
  {w \in Later(v) : \A u \in Later(v) : \/ Depth(w) < Depth(u)
                                        \/ (Depth(w) = Depth(u) /\ Stop(w) >= Stop(u))}

ScanNext(v) ==
  /\ phase = "scan"
  /\ v \in waiting /\ \A w \in waiting : Before(v, w)
  /\ waiting' = waiting \ {v}
  /\ \/ /\ PhysReg \ Held(v) # {}
        /\ phys_reg' = [phys_reg EXCEPT ![v] = Min(PhysReg \ Held(v))]
        /\ active' = Unexpired(v) \cup {v}
     \/ /\ PhysReg \ Held(v) = {}
        /\ \E w \in Victims(v) :
             /\ phys_reg' = [phys_reg EXCEPT ![v] = phys_reg[w], ![w] = NoReg]
             /\ active' = (Unexpired(v) \ {w}) \cup {v}
     \/ /\ PhysReg \ Held(v) = {} /\ Later(v) = {}
        /\ active' = Unexpired(v)
        /\ UNCHANGED phys_reg
  /\ UNCHANGED <<code, phase, def_seq, last_use, first_use, weight, peo>>

Allocated ==
  /\ \/ phase = "color" /\ peo = <<>>
     \/ phase = "scan" /\ waiting = {}
  /\ phase' = "run"
  /\ UNCHANGED <<code, def_seq, last_use, first_use, weight, peo, waiting, active, phys_reg>>

Allocate ==
  /\ \/ Number \/ KeepForPhi \/ KeepForLoops \/ Widen
     \/ EndSearch \/ Color \/ GiveUp \/ Allocated
     \/ \E v \in Vreg : Visit(v) \/ ScanNext(v)
  /\ UNCHANGED execVars

----------------------------------------------------------------------------
(* The emitted code                                                         *)

Loc(v) == IF phys_reg[v] = NoReg THEN N_PHYS_REGS + v ELSE phys_reg[v]
Home(v) == mem[Loc(v)]
Outside(p) == {v \in Vreg : ~ (Start(v) <= p /\ p <= Stop(v))}
InScratch == {v \in Vreg : phys_reg[v] = Scratch}

At(op) == phase = "run" /\ code[pos].op = op

(* The node at pos has left m behind; what it defines is value clock'.      *)
Step(m) ==
  LET d == code[pos].dst
  IN /\ pos' = pos + 1
     /\ IF d = NoVreg THEN /\ mem' = m
                           /\ UNCHANGED <<clock, val>>
        ELSE /\ clock < MaxClock
             /\ clock' = clock + 1
             /\ val' = [val EXCEPT ![d] = clock']
             /\ mem' = [m EXCEPT ![Loc(d)] = clock']
     /\ left' = (left \ {d}) \cup Outside(pos + 1)

Compute ==
  /\ At("op") \/ At("alloca")
  /\ Step(mem)
  /\ hit' = hit \ {code[pos].dst}
  /\ UNCHANGED allocVars

(* A float "!=" computes its parity flag in r11.                            *)
CompareFloat ==
  /\ At("fne")
  /\ Step([mem EXCEPT ![Scratch] = Garbage])
  /\ hit' = (hit \cup InScratch) \ {code[pos].dst}
  /\ UNCHANGED allocVars

(* Pushed before a call and popped after its result is stored, over it if   *)
(* the result's register is one of them.                                    *)
Saved == {c \in CallerSaved : \E v \in Vreg : /\ phys_reg[v] = c
                                              /\ def_seq[v] < pos /\ last_use[v] > pos}
LostResult == {v \in {code[pos].dst} \cap Vreg : phys_reg[v] \in Saved}

Call ==
  LET d == code[pos].dst
      result == IF d = NoVreg THEN Garbage ELSE clock + 1
  IN /\ At("call")
     /\ d # NoVreg => clock < MaxClock
     /\ pos' = pos + 1
     /\ clock' = IF d = NoVreg THEN clock ELSE clock + 1
     /\ val' = [v \in Vreg |-> IF v = d THEN result ELSE val[v]]
     /\ mem' = [l \in Places |-> IF l \in Saved THEN mem[l]
                                 ELSE IF d # NoVreg /\ l = Loc(d) THEN result
                                 ELSE IF l \in CallerSaved THEN Garbage ELSE mem[l]]
     /\ left' = (left \ {d}) \cup Outside(pos + 1)
     /\ hit' = (hit \ {d}) \cup LostResult
     /\ UNCHANGED allocVars

Phis(b) == {p \in Block(b) : code[p].op = "phi"}
Landing(b) == Min(Block(b) \ Phis(b))
PhiDsts(b) == {code[f].dst : f \in Phis(b)}
Targets(l, b) == {f \in Phis(b) : Loc(code[f].dst) = l}
PoppedOver(b) == {code[f].dst : f \in {g \in Phis(b) : \E e \in Targets(Loc(code[g].dst), b) : e < g}}

(* All sources are pushed, then popped into the phis from the last to the   *)
(* first, so the first of two phis that share a place keeps it.             *)
Jump(b) ==
  LET arrives(f) == Home(code[f].from[code[pos].block])
  IN /\ At("br") \/ At("condbr")
     /\ b \in code[pos].to
     /\ pos' = Landing(b)
     /\ val' = [v \in Vreg |-> IF v \in PhiDsts(b)
                               THEN arrives(CHOOSE f \in Phis(b) : code[f].dst = v) ELSE val[v]]
     /\ mem' = [l \in Places |-> IF Targets(l, b) # {} THEN arrives(Min(Targets(l, b))) ELSE mem[l]]
     /\ left' = ((left \cup Outside(Min(Block(b)))) \ PhiDsts(b)) \cup Outside(Landing(b))
     /\ hit' = (hit \ PhiDsts(b)) \cup PoppedOver(b)
     /\ UNCHANGED <<clock, allocVars>>

Return ==
  /\ At("ret")
  /\ phase' = "done"
  /\ UNCHANGED <<code, def_seq, last_use, first_use, weight, peo, waiting, active, phys_reg, execVars>>

Execute == Compute \/ CompareFloat \/ Call \/ (\E b \in Blocks : Jump(b)) \/ Return

vars == <<allocVars, execVars>>
Next == Allocate \/ Execute
Spec == Init /\ [][Next]_vars

----------------------------------------------------------------------------
(* Type invariant of the allocator and of the running code.                 *)
SsaTypeOK ==
  /\ phase \in {"number", "phi", "loop", "widen", "search", "color", "give_up", "scan", "run", "done"}
  /\ def_seq \in [Vreg -> None .. Len(code)]
  /\ last_use \in [Vreg -> None .. Len(code)] /\ first_use \in [Vreg -> None .. Len(code)]
  /\ weight \in [Vreg -> Nat] /\ peo \in Seq(Vreg)
  /\ active \subseteq Vreg /\ waiting \subseteq Vreg
  /\ phys_reg \in [Vreg -> PhysReg \cup {NoReg}]
  /\ pos \in DOMAIN code /\ clock \in 0 .. MaxClock
  /\ val \in [Vreg -> Garbage .. MaxClock] /\ mem \in [Places -> Garbage .. MaxClock]
  /\ left \subseteq Vreg /\ hit \subseteq Vreg

(* Whatever the order of colouring, the choice between colouring and linear *)
(* scan, expiry and eviction: no physical register ever stands for two      *)
(* virtual registers whose intervals have a position in common.             *)
IntervalsApart ==
  \A v, w \in Vreg : v # w /\ phys_reg[v] = phys_reg[w] /\ phys_reg[v] # NoReg => ~ Meets(v, w)

(* What the node at pos may read: its operands, and along each edge the     *)
(* sources of the phis.                                                     *)
EdgeReads(b) == {code[f].from[code[pos].block] : f \in Phis(b)}
ReadsNext == code[pos].src \cup UNION {EdgeReads(b) : b \in code[pos].to}

Misread(v) == phase = "run" /\ v \in ReadsNext /\ Home(v) # val[v]

(* A phi that a phi of its own block reads along the edge at pos.           *)
OwnPhi(v) == \E b \in code[pos].to : v \in PhiDsts(b) \cap EdgeReads(b)

(* The block at pos branches to itself: no predecessor stands behind it, so *)
(* it is no loop header.                                                    *)
OnItself == code[pos].block \in Preds(code[pos].block)

(* On every path, through loops, branches that lead back in the order of    *)
(* the blocks, calls and spills, a read finds the value last defined, but   *)
(* for registers overwritten inside their interval (r11 by a float "!=", a  *)
(* call's result by the register popped behind it, a phi by one popped      *)
(* later), for a loop phi that another phi of the loop takes over, whose    *)
(* interval ends before the edge that copies it, and in a block that        *)
(* branches to itself, where an interval may end inside the loop.           *)
MisreadsExplained ==
  \A v \in Vreg : Misread(v) => v \in hit \/ (v \in left /\ (OwnPhi(v) \/ OnItself))

(* CG-IR-005: the register of a back-edge phi source is kept through the    *)
(* branch where the edge copy executes.                                     *)
PhiSourcesKept == \A v \in PhiSources : Misread(v) => v \in hit
=============================================================================
