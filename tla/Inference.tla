----------------------------- MODULE Inference -----------------------------
(***************************************************************************)
(* The rules of inference (aris/src/rules.rs): for each one whether it     *)
(* accepts a conclusion c, given the expressions d of the lines and the    *)
(* subproofs s that are referred to.                                       *)
(*                                                                         *)
(* Of a subproof a rule sees: premise, its assumption (the editor gives    *)
(* every subproof exactly one); lines, the assumption and the steps that   *)
(* are directly in it, each with its expr, with outside, the expressions   *)
(* outside the subproof that it transitively depends on, and with assumes, *)
(* whether it depends on the assumption.                                   *)
(***************************************************************************)
EXTENDS Cnf
LOCAL INSTANCE Relation

Occurring(es) == {es[i] : i \in 1..Len(es)}
Steps(sub) == {sub.lines[i].expr : i \in 2..Len(sub.lines)}
IsPair(e, op) == IsAssoc(e, op) /\ Len(e.exprs) = 2

Contradict(a, b) == a = Not(b) \/ b = Not(a)

(* Fault: the lines must be given in the order the rule is written in. *)
OrderGiven(d) == {d}

(* any_order and either_order: the lines may be given in any order. *)
Orders(d) == {[i \in 1..Len(d) |-> d[f[i]]] : f \in SetToSeqs(1..Len(d))}
AnyOrder(F(_), d) == \E e \in Orders(d) : F(e)

-----------------------------------------------------------------------------
(* PropositionalInference *)

AndIntro(d, c) ==
    \/ Len(d) = 1 /\ d[1] = c
    \/ IsAssoc(c, "And") /\ Occurring(d) = Elements(c)

AndElim(d, c) ==
    \/ d[1] = c
    \/ /\ IsAssoc(d[1], "And")
       /\ (IF IsAssoc(c, "And") THEN Elements(c) ELSE {c}) \subseteq Elements(d[1])

OrIntro(d, c) == d[1] = c \/ (IsAssoc(c, "Or") /\ d[1] \in Elements(c))

OrElim(d, s, c) ==
    \/ d[1] = c
    \/ /\ IsAssoc(d[1], "Or")
       /\ \A i \in 1..Len(s) : c \in Steps(s[i])
       /\ Elements(d[1]) \subseteq {s[i].premise : i \in 1..Len(s)}

ImpIntro(s, c) == Is(c, "Impl") /\ c.left = s[1].premise /\ c.right \in Steps(s[1])

ImpElim(d, c) == AnyOrder(LAMBDA e : e[1] = Impl(e[2], c), d)

NotIntro(s, c) == c = Not(s[1].premise) /\ Contra \in Steps(s[1])

NotElim(d, c) == d[1] = Not(Not(c))

ContradictionIntro(d, c) == c = Contra /\ Contradict(d[1], d[2])

ContradictionElim(d) == d[1] = Contra

(* What is left of the first biconditional without the terms of the other. *)
BiconditionalElim(d, c) ==
    AnyOrder(LAMBDA e :
                /\ IsAssoc(e[1], "Bicon")
                /\ LET s == IF IsAssoc(e[2], "Bicon") THEN Elements(e[2]) ELSE {e[2]}
                   IN  /\ s \subseteq Elements(e[1])
                       /\ c = OneOr("Bicon", Without(e[1].exprs, s)),
             d)

(* The implications that a line, or a subproof, gives. *)
Edges(op, e) ==
    IF IsAssoc(e, op) THEN Elements(e) \X Elements(e) ELSE {<<e.left, e.right>>}
SubproofEdges(sub) == {<<sub.premise, sub.lines[i].expr>> : i \in 1..Len(sub.lines)}

(* All terms are in one strongly connected component of the implications. *)
MutuallyImplied(terms, edges) ==
    LET nodes == {p[1] : p \in edges} \cup {p[2] : p \in edges}
        implies == TransitiveClosure([p \in nodes \X nodes |-> p \in edges], nodes)
    IN  /\ terms \subseteq nodes
        /\ \A a, b \in terms : a # b => implies[a, b]

EquivIntro(op, d, s, c) ==
    /\ IsAssoc(c, op)
    /\ \A i \in 1..Len(d) : IsAssoc(d[i], op) \/ Is(d[i], "Impl")
    /\ MutuallyImplied(Elements(c), UNION {Edges(op, d[i]) : i \in 1..Len(d)}
                                        \cup UNION {SubproofEdges(s[i]) : i \in 1..Len(s)})

BiconditionalIntro(d, s, c) == IsPair(c, "Bicon") /\ EquivIntro("Bicon", d, s, c)
EquivalenceIntro(d, s, c) == EquivIntro("Equiv", d, s, c)

EquivalenceElim(d, c) ==
    AnyOrder(LAMBDA e : IsAssoc(e[1], "Equiv") /\ {e[2], c} \subseteq Elements(e[1]), d)

-----------------------------------------------------------------------------
(* PredicateInference *)

(* unifies_wrt_var: the expression that makes e1 equal to e2 when it takes *)
(* the place of var. An assertion fails, and the program stops, when the   *)
(* two are equal only up to bound names.                                   *)
OnlyBinding(u, e1, e2, var) ==
    LET made == IF u.pairs = <<>> THEN e1 ELSE Subst(e1, u.pairs[1][1], u.pairs[1][2])
    IN  IF \/ ~u.ok \/ Len(u.pairs) > 1
           \/ u.pairs # <<>> /\ u.pairs[1][1] # var
        THEN [is |-> "error"]
        ELSE IF made # e2 THEN [is |-> "panic"]
        ELSE [is |-> "ok", term |-> IF u.pairs = <<>> THEN Var(var) ELSE u.pairs[1][2]]
UnifiesWrtVar(e1, e2, var) ==
    OnlyBinding(Unifier({<<e1, e2>>}), e1, e2, var)

Instantiates(e1, e2, var) == UnifiesWrtVar(e1, e2, var).is = "ok"
IsConstant(u) == u.is = "ok" /\ Is(u.term, "Var")

(* Fault: what the line depends on is not looked at. *)
GeneralizableAlways(line, var) == TRUE

(* generalizable_variable_counterexample finds none. *)
Generalizable(line, var) == \A e \in line.outside : var \notin FreeVars(e)

(* The first line of a subproof that decides, in a set, if there is one. *)
FirstLine(Decides(_), s) ==
    {s[i] : i \in {k \in 1..Len(s) : Decides(s[k]) /\ \A j \in 1..(k - 1) : ~Decides(s[j])}}

Stops(u) == IsConstant(u) \/ u.is = "panic"
GeneralizesLine(line, u, c) ==
    /\ IsConstant(u)
    /\ Generalizable(line, u.term.name)
    /\ Subst(c.body, u.term.name, Var(c.name)) = c.body
    /\ ~line.assumes

(* The first line that is an instance of the body decides. *)
ForallIntro(s, c) ==
    LET Instance(line) == UnifiesWrtVar(c.body, line.expr, c.name)
    IN  /\ IsQuant(c, "Forall")
        /\ \E line \in FirstLine(LAMBDA l : Stops(Instance(l)), s[1].lines) :
               GeneralizesLine(line, Instance(line), c)

ForallElim(d, c) == IsQuant(d[1], "Forall") /\ Instantiates(d[1].body, c, d[1].name)

ExistsIntro(d, c) == IsQuant(c, "Exists") /\ Instantiates(c.body, d[1], c.name)

(* The first line equal to the conclusion decides. *)
Eliminates(u, line, c) ==
    /\ IsConstant(u)
    /\ Generalizable(line, u.term.name)
    /\ u.term.name \notin FreeVars(c)
ExistsElim(d, s, c) ==
    /\ IsQuant(d[1], "Exists")
    /\ \E line \in FirstLine(LAMBDA l : l.expr = c, s[1].lines) :
           Eliminates(UnifiesWrtVar(d[1].body, s[1].premise, d[1].name), line, c)

-----------------------------------------------------------------------------
(* BooleanInference *)

DisjunctiveSyllogism(d, c) ==
    AnyOrder(LAMBDA e : /\ IsPair(e[1], "Or")
                        /\ LET p == e[1].exprs[1]
                               q == e[1].exprs[2]
                           IN  (Contradict(p, e[2]) /\ q = c) \/ (Contradict(q, e[2]) /\ p = c),
             d)

Exclusion(d, c) ==
    AnyOrder(LAMBDA e : /\ Is(e[1], "Not") /\ IsPair(e[1].operand, "And")
                        /\ LET p == e[1].operand.exprs[1]
                               q == e[1].operand.exprs[2]
                           IN  (p = e[2] /\ Contradict(q, c)) \/ (q = e[2] /\ Contradict(p, c)),
             d)

ExcludedMiddle(c) == IsPair(c, "Or") /\ c.exprs[2] = Not(c.exprs[1])

HalfDeMorgan(d, c) == NormalizeHalfDeMorgans(d[1]) \cap NormalizeHalfDeMorgans(c) # {}

-----------------------------------------------------------------------------
(* ConditionalInference *)

ModusTollens(d, c) ==
    AnyOrder(LAMBDA e : /\ Is(e[1], "Impl")
                        /\ Contradict(e[1].right, e[2]) /\ Contradict(e[1].left, c), d)

HypotheticalSyllogism(d, c) ==
    AnyOrder(LAMBDA e : /\ Is(e[1], "Impl") /\ Is(e[2], "Impl")
                        /\ e[1].right = e[2].left /\ c = Impl(e[1].left, e[2].right), d)

ConstructiveDilemma(d, c) ==
    AnyOrder(LAMBDA e : /\ Is(e[1], "Impl") /\ Is(e[2], "Impl")
                        /\ e[3] = Or(e[1].left, e[2].left)
                        /\ c = Or(e[1].right, e[2].right), d)

(* The conclusion may have more terms. *)
DestructiveDilemma(d, c) ==
    AnyOrder(LAMBDA e : /\ Is(e[2], "Impl") /\ Is(e[3], "Impl") /\ IsAssoc(c, "Or")
                        /\ e[1] = Or(Not(e[2].right), Not(e[3].right))
                        /\ {Not(e[2].left), Not(e[3].left)} \subseteq Elements(c), d)

StrengthenAntecedent(d, c) ==
    /\ Is(d[1], "Impl") /\ Is(c, "Impl") /\ d[1].right = c.right
    /\ \/ IsAssoc(c.left, "And") /\ d[1].left \in Elements(c.left)
       \/ IsAssoc(d[1].left, "Or") /\ c.left \in Elements(d[1].left)

WeakenConsequent(d, c) ==
    /\ Is(d[1], "Impl") /\ Is(c, "Impl") /\ d[1].left = c.left
    /\ \/ IsAssoc(d[1].right, "And") /\ c.right \in Elements(d[1].right)
       \/ IsAssoc(c.right, "Or") /\ d[1].right \in Elements(c.right)

ConIntroNegation(d, c) ==
    /\ Is(c, "Impl")
    /\ \/ d[1] = Not(c.left) /\ ~Is(c.right, "Not")
       \/ d[1] = c.right /\ ~Is(c.left, "Not")

ConElimNegation(d, c) ==
    /\ Is(d[1], "Not") /\ Is(d[1].operand, "Impl")
    /\ c \in {d[1].operand.left, Not(d[1].operand.right)}

-----------------------------------------------------------------------------
(* BiconditionalInference *)

BiconIntro(d, c) ==
    AnyOrder(LAMBDA e : \/ Is(e[1], "Var") /\ Is(e[2], "Var") /\ c = Bicon(e[1], e[2])
                        \/ /\ Is(e[1], "Not") /\ Is(e[2], "Not")
                           /\ c \in {Bicon(e[1].operand, e[2].operand), Bicon(e[1], e[2])}, d)

BiconIntroNegation(d, c) ==
    AnyOrder(LAMBDA e : \/ /\ Is(e[1], "Not") /\ Is(e[2], "Var")
                           /\ c = Not(Bicon(e[1].operand, e[2]))
                        \/ /\ Is(e[1], "Var") /\ Is(e[2], "Not")
                           /\ c = Not(Bicon(e[1], e[2].operand)), d)

BiconElim(d, c) ==
    AnyOrder(LAMBDA e : /\ IsPair(e[1], "Bicon")
                        /\ <<e[2], c>> \in {<<Not(e[1].exprs[i]), Not(e[1].exprs[3 - i])>> : i \in 1..2},
             d)

(* The side that is looked at first decides. *)
BiconElimNegation(d, c) ==
    AnyOrder(LAMBDA e : /\ Is(e[1], "Not") /\ IsPair(e[1].operand, "Bicon")
                        /\ LET sides == e[1].operand.exprs
                           IN  \/ sides[1] = e[2] /\ c = Not(sides[2])
                               \/ sides[1] # e[2] /\ sides[2] = e[2] /\ c = Not(sides[1]), d)

-----------------------------------------------------------------------------
(* Special *)

Reiteration(d, c) == d[1] = c

Disjuncts(e) == IF e = Contra THEN {} ELSE IF IsAssoc(e, "Or") THEN Elements(e) ELSE {e}

Resolution(d, c) ==
    LET all == Disjuncts(d[1]) \cup Disjuncts(d[2])
    IN  /\ Disjuncts(c) \subseteq all
        /\ \E a, b \in all \ Disjuncts(c) :
              a # b /\ all \ Disjuncts(c) = {a, b} /\ Contradict(a, b)

TruthFunctionalConsequence(d, c) ==
    LET refuted == Not(Impl(Assoc("And", d), c))
    IN  HasNnf(refuted) /\ Unsatisfiable(IntoCnf(refuted))

-----------------------------------------------------------------------------
(* Induction *)

Zero == <<0>>
Succ == <<60>>
LessThan == <<61>>

WeakInduction(d, c) ==
    /\ IsQuant(c, "Forall")
    /\ LET Property(e) == Subst(c.body, c.name, e)
       IN  AnyOrder(LAMBDA e :
              /\ e[1] = Property(Var(Zero))
              /\ IsQuant(e[2], "Forall")
              /\ e[2].name \notin FreeVars(c)
              /\ e[2].body = Impl(Property(Var(e[2].name)),
                                  Property(Apply(Var(Succ), <<Var(e[2].name)>>))), d)

StrongInduction(d, c) ==
    /\ IsQuant(c, "Forall") /\ IsQuant(d[1], "Forall")
    /\ LET Property(e) == Subst(c.body, c.name, e)
           n == d[1].name
       IN  /\ n \notin FreeVars(c)
           /\ Is(d[1].body, "Impl") /\ d[1].body.right = Property(Var(n))
           /\ LET smaller == d[1].body.left
              IN  /\ IsQuant(smaller, "Forall")
                  /\ smaller.name \notin FreeVars(c)
                  /\ smaller.body = Impl(Apply(Var(LessThan), <<Var(smaller.name), Var(n)>>),
                                         Property(Var(smaller.name)))
=============================================================================
