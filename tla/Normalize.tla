----------------------------- MODULE Normalize -----------------------------
(***************************************************************************)
(* The normal forms with which the equivalence rules compare a premise and *)
(* a conclusion (aris/src/expr.rs). Most are a rewriting step that the     *)
(* visitor `transform` applies at every node, pass after pass, until a     *)
(* pass changes nothing; some rebuild the expression from its leaves.      *)
(* A law is named by a string. One action is one pass.                     *)
(***************************************************************************)
EXTENDS Exprs

-----------------------------------------------------------------------------
(* Rewriting steps: the expression and whether it was rewritten. *)

Unchanged(e) == <<e, FALSE>>
Rewritten(e) == <<e, TRUE>>

(* Which operators sort_commutative_ops and combine_associative_ops treat. *)
InScope(t, op) ==
    \/ t = "none"
    \/ t = "bool" /\ op # "Bicon"
    \/ t = "bicon" /\ op = "Bicon"

(* Fault: the pass is not reported as a change. *)
SortStepOnce(t, e) ==
    IF Is(e, "Assoc") /\ InScope(t, e.op)
    THEN Unchanged(Assoc(e.op, Sorted(e.exprs)))
    ELSE Unchanged(e)

SortStep(t, e) ==
    IF Is(e, "Assoc") /\ InScope(t, e.op)
    THEN <<Assoc(e.op, Sorted(e.exprs)), Sorted(e.exprs) # e.exprs>>
    ELSE Unchanged(e)

(* The operands, with those of a nested use of the same operator in place. *)
Operands(op, e) == IF IsAssoc(e, op) THEN e.exprs ELSE <<e>>
Flattened(op, exprs) == FlattenSeq(Map(LAMBDA e : Operands(op, e), exprs))

CombineStep(t, e) ==
    IF Is(e, "Assoc") /\ InScope(t, e.op)
    THEN <<Assoc(e.op, Flattened(e.op, e.exprs)),
           \E i \in 1..Len(e.exprs) : IsAssoc(e.exprs[i], e.op)>>
    ELSE Unchanged(e)

DualOp(op) == IF op = "And" THEN "Or" ELSE "And"

DeMorganStep(e) ==
    IF Is(e, "Not") /\ (IsAssoc(e.operand, "And") \/ IsAssoc(e.operand, "Or"))
    THEN Rewritten(Assoc(DualOp(e.operand.op), Map(Not, e.operand.exprs)))
    ELSE IF IsAssoc(e, "And") \/ IsAssoc(e, "Or")
    THEN Unchanged(Assoc(e.op, Flattened(e.op, e.exprs)))
    ELSE Unchanged(e)

BiconContrapositionStep(e) ==
    IF /\ IsAssoc(e, "Bicon") /\ Len(e.exprs) = 2
       /\ ~\A i \in 1..2 : Is(e.exprs[i], "Not")
    THEN Rewritten(Assoc("Bicon", Map(Not, e.exprs)))
    ELSE Unchanged(e)

(* Fault: the quantifier stays. *)
DualKindForgotten(kind) == kind

DualKind(kind) == IF kind = "Forall" THEN "Exists" ELSE "Forall"

NegateQuantifiersStep(e) ==
    IF Is(e, "Not") /\ Is(e.operand, "Quant")
    THEN Rewritten(Quant(DualKind(e.operand.kind), e.operand.name, Not(e.operand.body)))
    ELSE Unchanged(e)

NullQuantifierStep(e) ==
    IF Is(e, "Quant") /\ e.name \notin FreeVars(e.body) THEN Rewritten(e.body)
    ELSE Unchanged(e)

(* The names of a run of quantifiers of one kind, outermost first, and     *)
(* what is below it.                                                       *)
RECURSIVE RunNames(_, _), RunBody(_, _)
RunNames(kind, e) == IF IsQuant(e, kind) THEN <<e.name>> \o RunNames(kind, e.body) ELSE <<>>
RunBody(kind, e) == IF IsQuant(e, kind) THEN RunBody(kind, e.body) ELSE e

(* Quantifiers around a body, the first of the sequence outermost. *)
RECURSIVE Bind(_, _)
Bind(prefix, body) ==
    IF prefix = <<>> THEN body
    ELSE Quant(Head(prefix)[1], Head(prefix)[2], Bind(Tail(prefix), body))

SwapQuantifiersStep(e) ==
    IF Is(e, "Quant")
    THEN LET names == Reverse(SortSeq(RunNames(e.kind, e), NameLess))
             r == Bind(Map(LAMBDA n : <<e.kind, n>>, names), RunBody(e.kind, e))
         IN  <<r, r # e>>
    ELSE Unchanged(e)

(* Hoist the first quantifier none of the operands would be captured by. *)
HoistFromAssoc(e) ==
    LET free == FreeVars(e)
        at == {i \in 1..Len(e.exprs) : Is(e.exprs[i], "Quant") /\ e.exprs[i].name \notin free}
    IN  IF at = {} THEN Unchanged(e)
        ELSE LET i == CHOOSE i \in at : \A j \in at : i <= j
                 q == e.exprs[i]
             IN  Rewritten(Quant(q.kind, q.name, Assoc(e.op, [e.exprs EXCEPT ![i] = q.body])))

Hoistable(q, other) == Is(q, "Quant") /\ q.name \notin FreeVars(other)

PrenexStep(e) ==
    IF IsAssoc(e, "And") \/ IsAssoc(e, "Or") THEN HoistFromAssoc(e)
    ELSE IF Is(e, "Impl") /\ Hoistable(e.left, e.right)
    THEN Rewritten(Quant(DualKind(e.left.kind), e.left.name, Impl(e.left.body, e.right)))
    ELSE IF Is(e, "Impl") /\ Hoistable(e.right, e.left)
    THEN Rewritten(Quant(e.right.kind, e.right.name, Impl(e.left, e.right.body)))
    ELSE Unchanged(e)

(* Not All x (A -> B) is Some x (A & ~B); Not Some x (A & B) is All x (A -> ~B): *)
(* the code looks at the body only, whatever the quantifier.               *)
AristoteleanStep(e) ==
    IF Is(e, "Not") /\ Is(e.operand, "Quant")
    THEN LET q == e.operand
             b == q.body
         IN  IF Is(b, "Impl")
             THEN Rewritten(Quant(DualKind(q.kind), q.name, And(b.left, Not(b.right))))
             ELSE IF IsAssoc(b, "And") /\ Len(b.exprs) = 2
             THEN Rewritten(Quant(DualKind(q.kind), q.name, Impl(b.exprs[1], Not(b.exprs[2]))))
             ELSE Unchanged(e)
    ELSE Unchanged(e)

QuantInferenceStep(e) ==
    IF IsQuant(e, "Exists") /\ IsAssoc(e.body, "And")
    THEN Rewritten(Assoc("And", Map(LAMBDA c : Exists(e.name, c), e.body.exprs)))
    ELSE IF /\ IsAssoc(e, "Or")
            /\ \A i \in 1..Len(e.exprs) : /\ IsQuant(e.exprs[i], "Forall")
                                          /\ e.exprs[i].name = e.exprs[1].name
    THEN Rewritten(Forall(e.exprs[1].name, Assoc("Or", Map(LAMBDA c : c.body, e.exprs))))
    ELSE Unchanged(e)

(* Which connective a quantifier is pushed into. *)
Distributes(kind, op) == <<kind, op>> \in {<<"Forall", "And">>, <<"Exists", "Or">>}

QuantDistributionStep(e) ==
    IF Is(e, "Quant") /\ Is(e.body, "Assoc") /\ Distributes(e.kind, e.body.op)
    THEN Rewritten(Assoc(e.body.op, Map(LAMBDA c : Quant(e.kind, e.name, c), e.body.exprs)))
    ELSE Unchanged(e)

Step(law, e) ==
    CASE law = "sort_bool" -> SortStep("bool", e)
      [] law = "sort_bicon" -> SortStep("bicon", e)
      [] law = "sort_none" -> SortStep("none", e)
      [] law = "combine_bool" -> CombineStep("bool", e)
      [] law = "combine_bicon" -> CombineStep("bicon", e)
      [] law = "demorgans" -> DeMorganStep(e)
      [] law = "bicon_contraposition" -> BiconContrapositionStep(e)
      [] law = "negate_quantifiers" -> NegateQuantifiersStep(e)
      [] law = "null_quantifiers" -> NullQuantifierStep(e)
      [] law = "swap_quantifiers" -> SwapQuantifiersStep(e)
      [] law = "prenex" -> PrenexStep(e)
      [] law = "aristotelean" -> AristoteleanStep(e)
      [] law = "quantifier_inference" -> QuantInferenceStep(e)
      [] law = "quantifier_distribution" -> QuantDistributionStep(e)

-----------------------------------------------------------------------------
(* The visitor: one pass, from the root down, and passes until nothing     *)
(* changes.                                                                *)
Rejoined(r, below) ==
    <<WithChildren(r[1], Map(Head, below)), r[2] \/ \E i \in 1..Len(below) : below[i][2]>>
Descend(Inner(_), r) == Rejoined(r, Map(Inner, Children(r[1])))

RECURSIVE TransformInner(_, _)
TransformInner(law, e) == Descend(LAMBDA c : TransformInner(law, c), Step(law, e))

RECURSIVE Transform(_, _), TransformAgain(_, _)
TransformAgain(law, r) == IF r[2] THEN Transform(law, r[1]) ELSE r[1]
Transform(law, e) == TransformAgain(law, TransformInner(law, e))

(* The end of normalize_prenex_laws: universal quantifiers first. *)
RECURSIVE Prefix(_), Matrix(_)
Prefix(e) == IF Is(e, "Quant") THEN <<<<e.kind, e.name>>>> \o Prefix(e.body) ELSE <<>>
Matrix(e) == IF Is(e, "Quant") THEN Matrix(e.body) ELSE e
ForallsFirst(e) ==
    LET OfKind(k) == SelectSeq(Prefix(e), LAMBDA p : p[1] = k)
    IN  Bind(OfKind("Forall") \o OfKind("Exists"), Matrix(e))
=============================================================================
