------------------------------ MODULE MCPasses ------------------------------
(***************************************************************************)
(* Bounded functions for PassPipeline: the lists that part4.c emits for the *)
(* statements of C, and for two with a label of the source in them, filled  *)
(* with computations that can be redundant, copied, constant or dead.       *)
(***************************************************************************)
EXTENDS PassPipeline

MCLabel == 2 .. 5   \* a label is named after the block it starts
MCTemp  == 1 .. 7
MCImm   == {1}

Node3(o, d, s, u) == [op |-> o, dst |-> d, src1 |-> s, src2 |-> u, imm |-> 1, label |-> NoLabel]
N(o, d, s)    == Node3(o, d, s, NoTemp)
Jump(o, s, l) == [op |-> o, dst |-> NoTemp, src1 |-> s, src2 |-> NoTemp, imm |-> 1, label |-> l]
L(b)          == Jump("label", NoTemp, b)
BrIf(t, b)    == Jump("br_if", t, b)
Br(b)         == Jump("br", NoTemp, b)
Store(t)      == N("store", NoTemp, t)
Return(t)     == Jump("ret", t, NoLabel)

(* What stands between the four runs of computations.                       *)
If == <<<<BrIf(1, 3)>>, <<Store(3), L(3)>>, <<Store(4)>>>>    \* part4.c 5318
Shapes ==
  { <<<<Store(2), L(2)>>, <<Store(3), L(3)>>, <<Store(4), L(4)>>>>,    \* straight, with labels
    If,
    <<<<BrIf(2, 3)>>, <<Br(4), L(3)>>, <<Store(4), L(4)>>>>,           \* if-else, 5318-5330
    <<<<Store(2), L(2)>>, <<BrIf(1, 4)>>, <<Br(2), L(4)>>>>,           \* while, 5388-5395
    <<<<Store(2), L(2), BrIf(1, 4)>>, <<Store(3), L(3)>>, <<Br(2), L(4)>>>>, \* for, 5443-5470
    <<<<Store(2), L(2)>>, <<Store(3), L(3)>>, <<BrIf(1, 2), L(4)>>>>,  \* do-while, 5512-5524
    <<<<BrIf(1, 3)>>, <<Return(3), L(3)>>, <<Store(4)>>>>,             \* if (c) return x;
    <<<<BrIf(1, 3)>>, <<Return(3), Br(4), L(3)>>, <<Store(4), L(4)>>>>, \* the same with else
    <<<<BrIf(1, 3), L(2)>>, <<Store(3), L(3)>>, <<Store(4), L(4)>>>>,  \* if (c) l: x;
    <<<<Br(3), L(2)>>, <<BrIf(4, 4), L(3)>>, <<Br(2), L(4)>>>> }       \* goto into a loop

Fill(shape, a, b, c, d) ==
  <<N("load", 1, NoTemp)>> \o a \o shape[1] \o b \o shape[2] \o c \o shape[3] \o d \o <<N("store", 5, 6)>>

SlotA == {<<N("load", 2, NoTemp)>>, <<N("neg", 2, 1)>>}
SlotB == {<<N(o, 3, s)>> : o \in {"neg", "copy"}, s \in {1, 2}} \cup {<<Node3("add", 3, 1, 2)>>} \cup
         {<<N("const", 3, NoTemp), N("copy", 7, 3)>>}
SlotC == {<<N("neg", 4, s)>> : s \in {1, 3}} \cup {<<Node3("add", 4, 2, 1)>>, <<N("call", 4, NoTemp)>>,
          <<N("neg", 4, 2), N("copy", 7, 4)>>}
SlotD == {<<N("neg", 5, s), N("neg", 6, 5)>> : s \in {1, 7}} \cup
         {<<N("copy", 5, s), N("neg", 6, 5)>> : s \in {1, 3}} \cup
         {<<N("neg", 5, 3), N("neg", 6, 1)>>, <<N("copy", 5, 7), N("neg", 6, 1)>>} \cup
         {<<Node3("sub", 5, 1, s), Node3("sub", 6, s, 1)>> : s \in {2, 3}}

(* On every path a temporary is defined before it is used.                  *)
Succs(f, p) == (IF f[p].op \in {"br", "br_if"} THEN {q \in DOMAIN f : f[q] = L(f[p].label)} ELSE {})
               \cup (IF f[p].op \notin {"br", "ret"} THEN {p + 1} \cap DOMAIN f ELSE {})
Unset(f, t) ==
  LET defs == {p \in DOMAIN f : Defines(f[p]) /\ f[p].dst = t}
      R[k \in 0 .. Len(f)] ==
        IF k = 0 THEN {1}
        ELSE LET met == R[k - 1] IN met \cup UNION {Succs(f, p) : p \in met \ defs}
  IN R[Len(f)]
WellDefined(f) == \A p \in DOMAIN f : \A t \in Uses(f[p]) : p \notin Unset(f, t)

Filled == {f \in {Fill(w, a, b, c, d) : w \in Shapes, a \in SlotA, b \in SlotB, c \in SlotC, d \in SlotD} :
             WellDefined(f)}

(* "c ? -a : -a" (3799-3821), the result of which two copies define; the    *)
(* call of a function with two arguments; one function with a block too many.*)
Ternary == {<<N("load", 1, NoTemp), N("load", 2, NoTemp)>> \o a \o
            <<BrIf(2, 3), N("neg", 3, 1), N("copy", 5, 3), Br(4), L(3), N("neg", 4, s), N("copy", 5, 4), L(4),
              N("neg", 6, 5), Store(6), Return(5)>> : a \in {<<>>, <<N("neg", 7, 1), Store(7)>>}, s \in {1, 2}}
Calls == {<<N("load", 1, NoTemp), N("neg", 2, 1), N("neg", 3, 1), N("arg", NoTemp, 2), N("arg", NoTemp, 3),
            N("call", 4, NoTemp), Node3("add", 5, 4, 3), Node3("add", 6, 2, 4), N("store", 5, 6)>>}
TooMany == <<N("load", 1, NoTemp), Store(1), L(2), N("neg", 2, 1), Store(2), L(3),
             N("neg", 3, 1), Store(3), L(4), N("neg", 4, 1), N("neg", 5, 1), Store(4),
             L(5), N("store", 4, 5)>>

MCCode     == Filled \cup Ternary \cup Calls \cup {TooMany}
MCPrograms == {Control(f) : f \in MCCode}

(* "if (c) *b = -a; *b = -a;" as 5310-5330 emit it.                         *)
IfCode == {<<N("load", 1, NoTemp), N("load", 2, NoTemp), BrIf(1, 3),
             N("neg", 3, 2), Store(3), L(3), N("neg", 4, 2), Store(4)>>}
IfPrograms == {Control(f) : f \in IfCode}

(* "(void)a; while (1) *b = -a;": the load that ends the first block is     *)
(* dead, and the entry is the block it ends.                                *)
StaleCode == {<<Store(NoTemp), N("load", 2, NoTemp), L(2), N("load", 1, NoTemp), N("neg", 3, 1),
                Store(3), Br(2)>>}
StalePrograms == {Control(f) : f \in StaleCode}
=============================================================================
