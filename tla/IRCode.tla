------------------------------- MODULE IRCode -------------------------------
(***************************************************************************)
(* The linear node list of the ZCC IR (ir.h, ir_node_t) as the register     *)
(* allocator and the x86 lowering read it, and the live intervals that      *)
(* regalloc.c builds from it.                                               *)
(*                                                                          *)
(* A function body is a sequence of nodes.  Positions are 1 .. Len(code)    *)
(* (the code counts from 0).  A temporary %tN is represented by the rank of *)
(* its name in strcmp's order; any other operand (a constant, %stack_N, a   *)
(* symbol) is NoTemp, because neither the allocator nor the properties      *)
(* look at it.                                                              *)
(***************************************************************************)
EXTENDS Naturals, Sequences

CONSTANTS Temp,    \* the names of the temporaries
          NoTemp   \* an operand that is not a temporary

ASSUME TempAssumption == /\ Temp \subseteq Nat
                         /\ NoTemp \notin Temp

(* The operations, grouped by the registers their lowering writes beside     *)
(* the destination.                                                         *)
(*   op      constants, loads, arithmetic: only %rax, %rcx, %rdx, %xmm0     *)
(*   store   dst is the address, a use and not a definition                 *)
(*   wide    a store of two eightbytes, copied through %r10                 *)
(*   fneg    sign flip of an F64 with a mask built in %r11                  *)
(*   fcmp    float compare through %xmm1, flags combined in %r11b           *)
(*   ftou    float to U64, its bias loaded into %xmm1                       *)
(*   fma     fused multiply-add, third operand in the label field           *)
(*   call    label is the callee; a temporary when the call is indirect     *)
(*   br_if    a branch; IR_BR and IR_RET are branches that are always taken *)
(* IR_LABEL refers to no temporary and has no position here: a branch names *)
(* the position its label stands in front of, and Len(code) + 1 is the      *)
(* end_label of the function.                                               *)
Op == {"op", "copy", "store", "wide", "fneg", "fcmp", "ftou", "fma", "arg", "call", "br_if"}

Operand == Temp \cup {NoTemp}

(* "float" says the node's type is IR_TY_F32 or IR_TY_F64.                  *)
Node == [op : Op, dst : Operand, src1 : Operand, src2 : Operand,
         label : Operand, float : BOOLEAN, goto : Nat]

(***************************************************************************)
(* build_intervals: which positions refer to a temporary.  The label field  *)
(* counts for fused operations only.                                        *)
(***************************************************************************)
Mentions(n, t) == \/ t \in {n.dst, n.src1, n.src2}
                  \/ n.op = "fma" /\ n.label = t

Refs(code, t) == {p \in DOMAIN code : Mentions(code[p], t)}

Referenced(code) == {t \in Temp : Refs(code, t) # {}}

(* add_ref makes a temporary float when a node of float type names it as    *)
(* dst, whatever the operation (the address of a float store included).     *)
IsFloat(code, t) == \E p \in DOMAIN code : code[p].dst = t /\ code[p].float

(* The interval of t is [first reference, last reference], so p is inside   *)
(* it when some reference is at or before p and some other at or after it.  *)
InInterval(code, t, p) == \E first, last \in Refs(code, t) : first <= p /\ p <= last

(* Mutant: half-open intervals, which meet only in more than a point.       *)
Overlap_HalfOpen(code, t, u) ==
  /\ \E s \in Refs(code, t), e \in Refs(code, u) : s < e
  /\ \E s \in Refs(code, u), e \in Refs(code, t) : s < e

(* start <= other.end /\ other.start <= end: the closed intervals meet.     *)
Overlap(code, t, u) ==
  /\ \E s \in Refs(code, t), e \in Refs(code, u) : s <= e
  /\ \E s \in Refs(code, u), e \in Refs(code, t) : s <= e

(* Mutant: the two register classes interfere with each other.              *)
Interferes_AnyClass(code, t, u) == t # u /\ Overlap(code, t, u)

(* The edges of the interference graph: distinct temporaries of the same    *)
(* register class whose intervals meet.                                     *)
Interferes(code, t, u) == /\ t # u
                          /\ IsFloat(code, t) = IsFloat(code, u)
                          /\ Overlap(code, t, u)
=============================================================================
