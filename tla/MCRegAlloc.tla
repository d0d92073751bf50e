----------------------------- MODULE MCRegAlloc -----------------------------
(***************************************************************************)
(* Bounded front end for RegAlloc: every straight list of MaxLen nodes over *)
(* NumTemps temporaries that names temporaries in definition order and      *)
(* reads only what it has defined, as the IR emitter numbers them.          *)
(***************************************************************************)
EXTENDS RegAlloc

CONSTANTS NumTemps, MaxLen, FloatTemps

MCTemp == 1 .. NumTemps

N(op, d, a, b, c, f) == [op |-> op, dst |-> d, src1 |-> a, src2 |-> b,
                         label |-> c, float |-> f, goto |-> 0]

Defined(p) == {p[i].dst : i \in DOMAIN p} \ {NoTemp}

(* The operand pairs of a node: none, one, or two different temporaries.    *)
Pairs(D) == {<<NoTemp, NoTemp>>} \cup {<<a, NoTemp>> : a \in D}
            \cup {ab \in D \X D : ab[1] < ab[2]}

Continuations(p) ==
  LET D == Defined(p)
      new == IF Cardinality(D) < NumTemps THEN {Cardinality(D) + 1} ELSE {}
  IN {N("op", t, ab[1], ab[2], NoTemp, t \in FloatTemps) : t \in new, ab \in Pairs(D)}
     \cup {N("copy", t, a, NoTemp, NoTemp, a \in FloatTemps) : t \in new, a \in D}
     \cup {N("op", NoTemp, ab[1], ab[2], NoTemp, FALSE) : ab \in Pairs(D) \ {<<NoTemp, NoTemp>>}}
     \cup {N("fma", t, ab[1], ab[2], a, TRUE) :
             t \in new \cap FloatTemps, ab \in Pairs(D \cap FloatTemps), a \in D \cap FloatTemps}

Lists[n \in 0 .. MaxLen] ==
  IF n = 0 THEN {<<>>}
  ELSE UNION {{Append(p, nd) : nd \in Continuations(p)} : p \in Lists[n - 1]}

MCPrograms == Lists[MaxLen]
=============================================================================
