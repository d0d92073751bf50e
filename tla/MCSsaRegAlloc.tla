--------------------------- MODULE MCSsaRegAlloc ---------------------------
(***************************************************************************)
(* Function bodies for SsaRegAlloc: seven forms, their blocks in breadth-   *)
(* first order, each with every choice of the operands listed.              *)
(***************************************************************************)
EXTENDS SsaRegAlloc

MCVreg == 1 .. 6

I(o, d, s, b)   == [op |-> o, dst |-> d, src |-> s, block |-> b, depth |-> 0, to |-> {}, from |-> <<>>]
Phi(d, g, b)    == [op |-> "phi", dst |-> d, src |-> {}, block |-> b, depth |-> 0, to |-> {}, from |-> g]
Br(c, b)        == [op |-> "br", dst |-> NoVreg, src |-> {}, block |-> b, depth |-> 0, to |-> {c}, from |-> <<>>]
If(s, t, b)     == [op |-> "condbr", dst |-> NoVreg, src |-> s, block |-> b, depth |-> 0, to |-> t, from |-> <<>>]
Ret(s, b)       == I("ret", NoVreg, s, b)
From(b, v, c, w) == [q \in {b, c} |-> IF q = b THEN v ELSE w]


(* Loop depths, for the blocks of an outer and of an inner loop.            *)
Within(outer, inner, body) ==
  [p \in DOMAIN body |-> [body[p] EXCEPT !.depth = IF body[p].block \in inner THEN 2
                                                  ELSE IF body[p].block \in outer THEN 1 ELSE 0]]

Kind == {"op", "fne", "call"}
Some(S) == {{}} \cup {{v} : v \in S} \cup {S}

Straight ==
  {<<I("alloca", 1, {}, 0), I("op", 2, {1}, 0), I("op", 3, {}, 0), I(k, 4, r, 0), I(l, 5, s, 0), Ret(t, 0)>> :
     k \in Kind, l \in Kind, r \in Some({2, 3}), s \in Some({3, 4}), t \in SUBSET {2, 3, 5}}

(* Succs of 0 are 1 and 2; the inner merge 4 leads back to 2.               *)
NestedIf ==
  {<<I("op", 1, {}, 0), I("op", 2, {}, 0), If({1}, {1, 2}, 0),
     I("op", 3, r, 1), If({3}, {3, 4}, 1),
     Phi(4, From(0, v, 4, w), 2), Ret({4} \cup t, 2),
     I(k, 5, s, 3), Br(4, 3),
     Phi(6, From(1, 3, 3, 5), 4), Br(2, 4)>> :
     k \in Kind, r \in Some({1, 2}), s \in {{}, {2}, {2, 3}}, t \in SUBSET {1, 2}, v \in {1, 2}, w \in {2, 3, 6}}

LoopBody(b, k, s, t) == <<I("op", 5, s, b), I(k, 6, t, b), Br(1, b)>>
Entry == <<I("op", 1, {}, 0), I("op", 2, {}, 0), Br(1, 0)>>
Header(x, y, latch) == <<Phi(3, From(0, 1, latch, x), 1), Phi(4, From(0, 2, latch, y), 1)>>

(* The body before the exit, and behind it.                                 *)
Loop ==
  {Within({1, 2}, {}, Entry \o Header(x, y, 2) \o <<If({3}, {2, 3}, 1)>> \o LoopBody(2, k, s, t) \o <<Ret(u, 3)>>) :
     k \in Kind, x \in 3 .. 6, y \in 3 .. 6, s \in Some({1, 4}), t \in {{5}, {3, 5}}, u \in {{}, {2, 4}}}

LoopExitFirst ==
  {Within({1, 3}, {}, Entry \o Header(x, y, 3) \o <<If({3}, {2, 3}, 1), Ret(u, 2)>> \o LoopBody(3, k, s, t)) :
     k \in {"op", "call"}, x \in 3 .. 6, y \in 3 .. 6, s \in {{4}, {2, 4}}, t \in {{5}}, u \in {{1}, {3, 4}}}

NestedLoop ==
  {Within({1, 2, 4, 5}, {2, 4}, Entry \o Header(x, y, 5) \o <<I("op", 5, {3}, 1), If({5}, {2, 3}, 1),
     Phi(6, From(1, v, 4, w), 2), If({6}, {4, 5}, 2), Ret(u, 3), Br(2, 4), Br(1, 5)>>) :
     x \in 5 .. 6, y \in {1, 3, 6}, v \in {4, 5}, w \in 4 .. 6, u \in {{1}, {4, 5}}}

(* while (...) { b = a; a = x; } with a further loop variable.              *)
DelayLine ==
  {Within({1, 2}, {}, Entry \o <<Phi(3, From(0, 1, 2, x), 1), Phi(4, From(0, 2, 2, 3), 1), Phi(5, From(0, 1, 2, 6), 1),
     If({5}, {2, 3}, 1), I(k, 6, s, 2), Br(1, 2), Ret(u, 3)>>) :
     k \in Kind, x \in {1, 4, 5, 6}, s \in Some({2, 5}), u \in Some({3, 4})}

(* again: ...; goto again;  One block, the only kind that branches to       *)
(* itself: while and for give the condition and the body their own.         *)
Again ==
  {Within({1}, {}, Entry \o <<Phi(3, From(0, 1, 1, x), 1), I(k, 4, s, 1), I("op", 5, t, 1), Br(1, 1)>>) :
     k \in Kind, x \in {1, 3, 4, 5}, s \in Some({2, 3}), t \in Some({3, 4})}

MCPrograms == UNION {Straight, NestedIf, Loop, LoopExitFirst, NestedLoop, DelayLine, Again}

(* while (i < n) { t = b + a; i = i + 1; a = b; b = t + i * i; }            *)
FibVreg == 1 .. 13

Fibonacci ==
  {Within({1, 2}, {}, <<I("op", 1, {}, 0), I("op", 2, {}, 0), I("op", 3, {}, 0), I("op", 4, {}, 0), I("op", 5, {}, 0), Br(1, 0),
     Phi(6, From(0, 1, 2, 11), 1), Phi(7, From(0, 2, 2, 13), 1), Phi(8, From(0, 3, 2, 7), 1),
     I("op", 9, {5, 6}, 1), If({9}, {2, 3}, 1),
     I("op", 10, {7, 8}, 2), I("op", 11, {4, 6}, 2), I("op", 12, {11}, 2), I("op", 13, {10, 12}, 2), Br(1, 2),
     Ret({8}, 3)>>)}
=============================================================================
