---------------------------- MODULE MCDominance ----------------------------
(***************************************************************************)
(* Bounded node lists for Dominance.  SplitPrograms: every function of      *)
(* NumBlocks blocks in which a branch is followed by a label, and one list  *)
(* with a block too many.  InnerPrograms: every function of NumInner blocks *)
(* in which a block may also have a br_if in its middle, the form of what   *)
(* part4.c emits for "if", "while", "for" and "?:".                         *)
(***************************************************************************)
EXTENDS Dominance

CONSTANTS NumBlocks, NumInner

MCLabel == 2 .. NumBlocks + 1   \* a label is named after the block it starts

Branch(o, last) == [op : {o}, label : 2 .. last]
End(last) == Branch("br", last) \cup Branch("br_if", last) \cup [op : {"ret", "op"}, label : {NoLabel}]

LabelNode(b) == [op |-> "label", label |-> b]

(* The lists of n blocks whose bodies are taken from "bodies".              *)
Lay(bodies, blocks) ==
  LET L[n \in 1 .. blocks] ==
        IF n = 1 THEN bodies ELSE {p \o <<LabelNode(n)>> \o e : p \in L[n - 1], e \in bodies}
  IN L[blocks]

Plain == [op |-> "op", label |-> NoLabel]
SplitPrograms == Lay({<<e>> : e \in End(NumBlocks)}, NumBlocks)
                 \cup {<<Plain>> \o [i \in 1 .. NumBlocks |-> LabelNode(i + 1)]}
InnerPrograms == Lay({<<e>> : e \in End(NumInner)} \cup
                     {<<i, e>> : i \in Branch("br_if", NumInner), e \in End(NumInner)}, NumInner)
MCPrograms == SplitPrograms \cup InnerPrograms
=============================================================================
