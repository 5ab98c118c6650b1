-------------------------------- MODULE Cnf --------------------------------
(***************************************************************************)
(* Negation and conjunctive normal form (aris/src/expr.rs), with which the *)
(* rule Truth-Functional Consequence asks a SAT solver. An NnfExpr is an   *)
(* expression of literals, And and Or; a CnfExpr is an And of Ors of       *)
(* literals.                                                               *)
(***************************************************************************)
EXTENDS Patterns

(* into_nnf gives nothing for these. *)
RECURSIVE HasNnf(_)
HasNnf(e) ==
    /\ ~Is(e, "Apply") /\ ~Is(e, "Quant")
    /\ Is(e, "Assoc") => e.op \in {"And", "Or", "Bicon"}
    /\ \A i \in 1..Len(Children(e)) : HasNnf(Children(e)[i])

RECURSIVE NnfNot(_)
NnfNot(e) ==
    CASE Is(e, "Var") -> Not(e)
      [] Is(e, "Not") -> e.operand
      [] Is(e, "Assoc") -> Assoc(DualOp(e.op), Map(NnfNot, e.exprs))

NnfImplies(a, b) == Or(NnfNot(a), b)
NnfBicon(a, b) == And(NnfImplies(a, b), NnfImplies(b, a))

RECURSIVE IntoNnf(_)
IntoNnf(e) ==
    CASE Is(e, "Contra") -> Assoc("Or", <<>>)
      [] Is(e, "Taut") -> Assoc("And", <<>>)
      [] Is(e, "Var") -> e
      [] Is(e, "Not") -> NnfNot(IntoNnf(e.operand))
      [] Is(e, "Impl") -> NnfImplies(IntoNnf(e.left), IntoNnf(e.right))
      [] IsAssoc(e, "Bicon") ->
            LET es == Map(IntoNnf, e.exprs) IN FoldLeft(NnfBicon, es[1], Tail(es))
      [] OTHER -> Assoc(e.op, Map(IntoNnf, e.exprs))

(* CnfExpr::and and CnfExpr::or, over the clauses of their operands. *)
CnfAnd(es) == Assoc("And", FlattenSeq(Map(LAMBDA e : e.exprs, es)))
JoinClauses(cs) == Assoc("Or", FlattenSeq(Map(LAMBDA c : c.exprs, cs)))
CnfOr(es) ==
    LET clauses == Map(JoinClauses, PickEach(Map(LAMBDA e : e.exprs, es)))
    IN  IF clauses = <<>> THEN Assoc("And", <<Assoc("Or", <<>>)>>) ELSE Assoc("And", clauses)

RECURSIVE NnfToCnf(_)
NnfToCnf(e) ==
    CASE IsAssoc(e, "And") -> CnfAnd(Map(NnfToCnf, e.exprs))
      [] IsAssoc(e, "Or") -> CnfOr(Map(NnfToCnf, e.exprs))
      [] OTHER -> Assoc("And", <<Assoc("Or", <<e>>)>>)

IntoCnf(e) == NnfToCnf(IntoNnf(e))

(* What varisat answers for a formula. *)
Unsatisfiable(cnf) == \A m \in Valuations(FreeVars(cnf)) : ~Truth(cnf, m)
=============================================================================
