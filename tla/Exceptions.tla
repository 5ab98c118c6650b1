----------------------------- MODULE Exceptions -----------------------------
(***************************************************************************)
(* Where the code is known to go wrong: the expressions of which a normal  *)
(* form does not keep the meaning, and the steps that a rule accepts       *)
(* though they do not follow. What is claimed of forms and rules is        *)
(* claimed everywhere else, and only there; that each of these cases       *)
(* really occurs is checked beside the inputs (MCChecker).                 *)
(***************************************************************************)
EXTENDS Rules

RECURSIVE Subexpressions(_)
Subexpressions(e) ==
    {e} \cup UNION {Subexpressions(Children(e)[i]) : i \in 1..Len(Children(e))}
HasOp(op, e) == \E s \in Subexpressions(e) : IsAssoc(s, op)
HasQuant(e) == \E s \in Subexpressions(e) : Is(s, "Quant")

(* Operands are collected in a set, also those of a biconditional, and     *)
(* those of a biconditional in it: A <-> A becomes A.                      *)
CollectedInSet == {"idempotence", "absorption", "adjacency", "reduction"}
CollapsesBiconditional(law, e) ==
    \E s \in Subexpressions(e) :
        /\ IsAssoc(s, "Bicon")
        /\ \/ Cardinality({Rebuilt(law, x) : x \in Elements(s)}) < Len(s.exprs)
           \/ \E x \in Elements(s) : HasOp("Bicon", x)

(* normalize_reduction adds what is left of an operand of the dual         *)
(* operator term by term, whatever the operator: nothing, or several       *)
(* terms, stand for something else than one does.                          *)
ReductionLosesTerms(e) ==
    \E s \in Subexpressions(e) : Is(s, "Assoc") /\
        \E x \in Elements(s) : Dual(s.op, x) /\
            LET decided == {t \in Elements(x) : Decided(Subexpressions(e), t)}
            IN  decided # {} /\ (Cardinality(Elements(x)) # 2 \/ decided = Elements(x))

(* A tautology has no clauses, and a disjunction with one is taken for a   *)
(* contradiction.                                                          *)
LosesClauses(e) ==
    \E s \in Subexpressions(IntoNnf(e)) :
        IsAssoc(s, "Or") /\ \E x \in Elements(s) : NnfToCnf(x).exprs = <<>>

(* normalize_prenex_laws moves a universal quantifier out of an            *)
(* existential one.                                                        *)
QuantifiersReordered(e) ==
    LET t == Transform("prenex", e) IN ForallsFirst(t) # t

(* normalize_quantifier_inference weakens below a negation, too.           *)
WeakensBelowNegation(e) ==
    \E s \in Subexpressions(e) :
        /\ Is(s, "Not") \/ Is(s, "Impl") \/ IsAssoc(s, "Bicon")
        /\ Transform("quantifier_inference", s) # s

LawFails(law, e) ==
    \/ law \in CollectedInSet /\ CollapsesBiconditional(law, e)
       \* it also loses negations of quantifiers
    \/ law = "reduction" /\ (ReductionLosesTerms(e) \/ HasQuant(e))
    \/ law = "cnf" /\ LosesClauses(e)
    \/ law = "prenex" /\ QuantifiersReordered(e)
    \/ law = "quantifier_inference" /\ WeakensBelowNegation(e)

-----------------------------------------------------------------------------
Repeats(e) == Cardinality(Elements(e)) < Len(e.exprs)

(* The constant for which ExistsElim assumed the body of the existential.  *)
SkolemOf(d, s) == UnifiesWrtVar(d[1].body, s[1].premise, d[1].name).term.name

RuleFails(rule, d, s, c) ==
    \/ /\ rule \in DOMAIN FormOf
       /\ LawFails(FormOf[rule], d[1]) \/ LawFails(FormOf[rule], c)
    \/ rule = "QuantInference" /\ LawFails("quantifier_inference", d[1])
    \/ rule = "TruthFunctionalConsequence" /\ LawFails("cnf", Not(Impl(Assoc("And", d), c)))
       \* a premise A <-> B <-> C is read as if all three were equivalent
    \/ /\ rule = "BiconditionalIntro"
       /\ \E e \in Occurring(d) : IsAssoc(e, "Bicon") /\ ~IsPair(e, "Bicon")
       \* every occurrence of a term goes, not only one
    \/ /\ rule = "BiconditionalElim"
       /\ \E e \in Occurring(d) : IsAssoc(e, "Bicon") /\ Repeats(e)
       \* the conclusion is weakened as well as the premise
    \/ /\ rule = "HalfDeMorgan"
       /\ NormalizeHalfDeMorgans(c) # {c} \/ HasOp("Bicon", d[1])
       \* the two complementary terms may be in one clause
    \/ /\ rule = "Resolution"
       /\ \E e \in Occurring(d) : \E p, q \in Disjuncts(e) : Contradict(p, q)
       \* what is put in may be captured
    \/ rule = "BiconditionalSubstitution" /\ HasQuant(d[1])
       \* the constant may be free in the existential
    \/ rule = "ExistsElim" /\ SkolemOf(d, s) \in FreeVars(d[1])
=============================================================================
