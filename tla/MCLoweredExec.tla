--------------------------- MODULE MCLoweredExec ---------------------------
(***************************************************************************)
(* Bounded function bodies for LoweredExec.  Integer and float temporaries  *)
(* never compete for a register, so each class is enumerated on its own:    *)
(* two definitions, then every list of nodes that defines temporaries in    *)
(* name order and reads only what stands defined above.  Branches go to any *)
(* position, forward or back.                                               *)
(***************************************************************************)
EXTENDS LoweredExec

CONSTANTS NumTemps, MaxLen

MCTemp == 1 .. NumTemps

N(op, d, a, b, c, f, g) == [op |-> op, dst |-> d, src1 |-> a, src2 |-> b,
                            label |-> c, float |-> f, goto |-> g]
Def(t, f)     == N("op", t, NoTemp, NoTemp, NoTemp, f, 0)
Use(t)        == N("op", NoTemp, t, NoTemp, NoTemp, FALSE, 0)
Cp(t, s, f)   == N("copy", t, s, NoTemp, NoTemp, f, 0)
Bare(op)      == N(op, NoTemp, NoTemp, NoTemp, NoTemp, FALSE, 0)
Cll(t, c, f)  == N("call", t, NoTemp, NoTemp, c, f, 0)
Br(t, g)      == N("br_if", NoTemp, t, NoTemp, NoTemp, FALSE, g)
Fcmp(a, b)    == N("fcmp", NoTemp, a, b, NoTemp, FALSE, 0)
Fma(t, a, b)  == N("fma", t, a, a, b, TRUE, 0)
Arg(t)        == N("arg", NoTemp, t, NoTemp, NoTemp, TRUE, 0)

Defined(p) == {p[i].dst : i \in DOMAIN p} \ {NoTemp}

Common(f) == {Def(t, f) : t \in MCTemp} \cup {Use(a) : a \in MCTemp}
             \cup {Cp(t, a, f) : t \in MCTemp, a \in MCTemp}
             \cup {Cll(t, NoTemp, f) : t \in MCTemp \cup {NoTemp}}

IntNodes == Common(FALSE) \cup {Bare("wide"), Bare("fneg")} \cup {Cll(NoTemp, a, FALSE) : a \in MCTemp}
            \cup {Br(NoTemp, g) : g \in 1 .. MaxLen + 1}

Two == {ab \in MCTemp \X MCTemp : ab[1] # ab[2]}

FloatNodes == Common(TRUE) \cup {Bare("ftou")} \cup {Fcmp(ab[1], ab[2]) : ab \in Two}
              \cup {Fma(t, ab[1], ab[2]) : t \in MCTemp \cup {NoTemp}, ab \in Two}
              \cup {Arg(a) : a \in MCTemp}

(* A node may follow list p when it reads what p defines, and defines the   *)
(* next temporary or, as a copy does on the arms of a conditional, an old   *)
(* one.                                                                     *)
Fits(p, n) ==
  LET D == Defined(p)
  IN /\ {n.src1, n.src2, n.label} \subseteq D \cup {NoTemp}
     /\ n.dst \in {NoTemp, Cardinality(D) + 1} \cup (IF n.op = "copy" THEN D ELSE {})

Grow(lists, nodes) ==
  {Append(pn[1], pn[2]) : pn \in {q \in lists \X nodes : Fits(q[1], q[2])}}

Lists(f) ==
  LET L[n \in 2 .. MaxLen] == IF n = 2 THEN {<<Def(1, f), Def(2, f)>>}
                              ELSE Grow(L[n - 1], IF f THEN FloatNodes ELSE IntNodes)
  IN L[MaxLen]

MCPrograms == Lists(FALSE) \cup Lists(TRUE)
=============================================================================
