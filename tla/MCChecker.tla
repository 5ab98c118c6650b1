----------------------------- MODULE MCChecker -----------------------------
(***************************************************************************)
(* Equations, expressions and exercises for TLC, each small but with the   *)
(* cases that the arms of the code tell apart.                             *)
(***************************************************************************)
EXTENDS Checker

A == Var(<<20>>)
B == Var(<<21>>)
C == Var(<<22>>)
P == <<23>>
Q == <<24>>
R == <<25>>
a == <<30>>
n == <<31>>
x == <<33>>
y == <<34>>
z == <<35>>
At(p, v) == Apply(Var(p), <<Var(v)>>)
Rel(v, w) == Apply(Var(R), <<Var(v), Var(w)>>)

-----------------------------------------------------------------------------
(* Exercises. *)
Exercise(premises, assumptions, rules, conclusions, max, structures) ==
    [premises |-> premises, assumptions |-> assumptions, rules |-> rules,
     conclusions |-> conclusions, lines |-> max, structures |-> structures]

Booleans == Valuations({<<20>>, <<21>>, <<22>>})
Monadic ==
    {[dom |-> {1, 2}, prop |-> <<>>, fun |-> <<>>,
      obj |-> (a :> d) @@ (x :> e) @@ (y :> 1) @@ (z :> 1),
      pred |-> (P :> p) @@ (Q :> q) @@ (R :> {<<1, 1>>, <<2, 2>>})]
        : d, e \in {1, 2}, p, q \in SUBSET {<<1>>, <<2>>}}
Dyadic ==
    {[dom |-> {1, 2}, prop |-> <<>>, fun |-> <<>>, obj |-> (a :> 1) @@ (x :> 1) @@ (y :> 1),
      pred |-> (R :> r)] : r \in SUBSET ({1, 2} \X {1, 2})}

(* Subproofs and quantifiers. *)
Quantifiers ==
    Exercise({<<Forall(x, Impl(At(P, x), At(Q, x)))>>, <<Exists(y, At(P, y))>>,
              <<Forall(x, At(P, x)), At(Q, a)>>, <<Exists(y, At(P, y)), At(Q, a)>>},
             {At(P, a), At(Q, x)},
             {"ForallIntro", "ForallElim", "ExistsIntro", "ExistsElim", "ImpElim", "Reiteration"},
             {At(P, a), At(Q, a), Impl(At(P, a), At(Q, a)), Exists(y, At(P, y)),
              Forall(y, At(P, y)), Forall(x, At(Q, x))},
             5, Monadic)

(* Subproofs and connectives. *)
Subproofs ==
    Exercise({<<Or(A, B)>>, <<Impl(A, B), Impl(B, A)>>, <<Not(Not(B)), Not(A)>>},
             {A, B},
             {"ImpIntro", "NotIntro", "OrElim", "ImpElim", "BiconditionalIntro", "Reiteration",
              "ContradictionIntro", "ContradictionElim", "NotElim"},
             {B, Contra, Impl(A, B), Not(A), Bicon(A, B)},
             5, Booleans)

(* One step from one or two lines, without subproofs. *)
OneStep(premises, rules, conclusions, structures) ==
    Exercise(premises, {}, rules, conclusions,
             1 + CHOOSE k \in {Len(p) : p \in premises} : \A p \in premises : Len(p) <= k,
             structures)

Literals == {A, B, Not(A), Not(B)}
Simple == Literals \cup {And(A, B), Or(A, B), Or(Not(A), B), Impl(A, B), Impl(Not(A), Not(B)), Not(And(A, B)),
                        Bicon(A, B), Not(Bicon(A, B)), Not(Impl(A, B)), Contra,
                        Assoc("And", <<A, Not(B), C>>), Assoc("Or", <<A, B, C>>)}
Connectives ==
    OneStep(Simple \X Simple,
            {"AndIntro", "AndElim", "OrIntro", "ContradictionIntro", "ContradictionElim",
             "DisjunctiveSyllogism", "Exclusion", "ExcludedMiddle", "ModusTollens",
             "StrengthenAntecedent", "WeakenConsequent", "ConIntroNegation", "ConElimNegation",
             "BiconIntro", "BiconIntroNegation", "BiconElim", "BiconElimNegation", "EmptyRule"},
            Simple \cup {And(B, A), And(A, C), Or(A, Not(A)), Impl(And(A, B), B), Impl(A, Or(B, C)),
                         Bicon(Not(A), Not(B))},
            Booleans)

Chains == {Impl(A, B), Impl(B, C), Impl(C, A), Impl(A, C), Bicon(A, B), Bicon(B, C),
           Assoc("Bicon", <<A, B, C>>), Assoc("Equiv", <<A, B, C>>), Assoc("Equiv", <<A, C>>),
           A, Not(C), Or(B, C), Assoc("Or", <<A, Not(A), B>>), Or(A, Taut)}
Implications ==
    OneStep(Chains \X Chains,
            {"HypotheticalSyllogism", "BiconditionalIntro", "BiconditionalElim",
             "EquivalenceIntro", "EquivalenceElim", "Resolution", "TruthFunctionalConsequence"},
            {Impl(A, C), Impl(B, A), Bicon(A, B), Bicon(A, C), Assoc("Equiv", <<A, B>>), B, C, Or(A, B)},
            Booleans)

Biconditionals ==
    OneStep({Assoc("Bicon", <<A, B, C>>), Bicon(B, B)}
                \X {A, B, Bicon(A, B), Bicon(C, B), Bicon(B, C), Bicon(A, Not(B))},
            {"BiconditionalElim"}, {A, B, C, Bicon(B, C), Bicon(A, C), Bicon(A, B)}, Booleans)

Dilemmas ==
    OneStep({<<p, q, r>> : p, q, r \in {Impl(A, B), Impl(C, A), Or(A, C), Or(Not(B), Not(A))}},
            {"ConstructiveDilemma", "DestructiveDilemma"},
            {Or(B, A), Or(A, B), Or(Not(A), Not(C)), Assoc("Or", <<Not(C), Not(A), B>>)},
            Booleans)

(* What follows from a negated disjunction, and what does not. *)
HalfDeMorgans ==
    OneStep({<<Not(Or(A, B))>>, <<And(Not(Or(A, B)), C)>>, <<Not(A)>>, <<And(Not(B), C)>>},
            {"HalfDeMorgan"},
            {Not(A), And(Not(B), C), Not(Or(A, B)), And(C, Not(Or(B, A)))},
            Booleans)

(* One step from one line, by an equivalence. *)
Equivalence(rules, es, structures) == OneStep({<<e>> : e \in es}, rules, es, structures)

Junctions == {A, And(A, B), And(B, A), Or(A, B), Or(B, A), Not(And(A, B)), Or(Not(A), Not(B)), Not(Not(A)),
              Or(A, And(B, C)), And(Or(A, B), Or(A, C)), And(Or(B, A), Or(C, A)), Or(A, And(A, B)),
              Or(A, Not(A)), Or(And(A, B), And(A, Not(B))), And(A, Or(B, Not(B))),
              Assoc("And", <<A, B, C>>), And(A, And(B, C)), And(And(A, B), C), And(A, Taut), Or(A, Contra), Not(Taut),
              And(A, Contra), Or(A, Taut), Contra, Taut, And(A, A), Assoc("Or", <<B, A, A>>),
              And(A, Or(Not(A), B)), Or(A, And(Not(A), B)), And(Not(A), Or(A, B)),
              And(And(A, B), Or(Not(A), Not(B))), Bicon(A, A), And(Bicon(A, A), B)}
BooleanEquivalence ==
    Equivalence(BooleanEquivalences \cup {"Conjunction", "Disjunction", "Negation"}, Junctions, Booleans)

Conditionals == {Impl(A, B), Or(Not(A), B), Not(Impl(A, B)), And(A, Not(B)), Not(Or(Not(A), B)), Impl(Not(B), Not(A)),
                 Impl(A, Impl(B, C)), Impl(And(A, B), C), Impl(A, And(B, C)), And(Impl(A, B), Impl(A, C)),
                 Impl(Or(A, B), C), And(Impl(B, C), Impl(A, C)), And(A, Impl(A, B)), And(B, A), And(B, Impl(A, B)), A, B,
                 Not(A), Impl(A, Not(A)), Impl(Not(A), A), Impl(A, A), Taut, Impl(A, Contra), Impl(Taut, A),
                 Impl(A, Taut), Impl(Contra, A), And(Not(B), Impl(A, B)), And(Not(A), Not(B))}
ConditionalEquivalence == Equivalence(ConditionalEquivalences \cup {"CondReduction"}, Conditionals, Booleans)

BiconditionalExprs == {Bicon(A, B), Bicon(B, A), And(Impl(A, B), Impl(B, A)), Or(And(B, A), And(Not(A), Not(B))), Bicon(Not(A), Not(B)),
                  Assoc("Bicon", <<A, B, C>>), Bicon(A, Bicon(B, C)), Bicon(Bicon(A, B), C), And(A, Bicon(A, B)), And(A, B),
                  And(Not(B), Bicon(A, B)), And(Not(A), Not(B)), Bicon(A, A), Bicon(A, Not(A)), Taut, Contra,
                  Bicon(A, Contra), Bicon(Taut, A), A, Not(A), Bicon(Not(A), B), Not(Bicon(A, B)), And(Bicon(A, B), Or(A, C)),
                  And(Bicon(A, B), Or(B, C)), And(Or(A, C), Bicon(A, B)), Bicon(A, And(A, B)), Impl(A, B), Bicon(B, Or(A, B))}
BiconditionalEquivalence ==
    Equivalence(BiconditionalEquivalences \cup {"BicondReduction"}, BiconditionalExprs, Booleans)

QuantifiedExprs == {Not(Forall(x, At(P, x))), Exists(x, Not(At(P, x))), Forall(x, At(P, x)), Forall(y, At(P, y)), Forall(x, At(P, a)), At(P, a),
               Forall(x, Forall(y, And(At(P, x), At(Q, y)))), Forall(y, Forall(x, And(At(P, x), At(Q, y)))),
               Not(Forall(x, Impl(At(P, x), At(Q, x)))), Exists(x, And(At(P, x), Not(At(Q, x)))),
               Forall(x, And(At(P, x), At(Q, x))), And(Forall(x, At(P, x)), Forall(x, At(Q, x))),
               Exists(x, Or(At(P, x), At(Q, x))), Or(Exists(x, At(P, x)), Exists(x, At(Q, x))),
               Exists(x, And(At(P, x), At(Q, x))), And(Exists(x, At(P, x)), Exists(x, At(Q, x))),
               Exists(y, And(At(P, y), At(Q, a))), And(Exists(y, At(P, y)), At(Q, a)),
               Impl(Exists(y, At(P, y)), At(Q, a)), Forall(y, Impl(At(P, y), At(Q, a))),
               Exists(x, Forall(y, Rel(x, y))), Forall(y, Exists(x, Rel(x, y))),
               And(Bicon(At(P, x), At(Q, a)), Exists(x, At(P, x))),
               And(Bicon(At(P, x), At(Q, a)), Exists(x, At(Q, a))),
               And(Bicon(At(P, x), At(Q, a)), At(P, x)), And(Bicon(At(P, x), At(Q, a)), At(Q, a)),
               Not(Forall(x, And(At(P, x), At(Q, x)))), Not(And(Forall(x, At(P, x)), Forall(x, At(Q, x)))),
               Not(Exists(x, And(At(P, x), At(Q, x)))), Not(And(Exists(x, At(P, x)), Exists(x, At(Q, x))))}
QuantifierEquivalence ==
    Equivalence(QuantifierEquivalences \cup {"QuantInference", "BiconditionalSubstitution"}, QuantifiedExprs, Monadic)

Numbers ==
    {[dom |-> 0..2, prop |-> <<>>, fun |-> (Succ :> ((<<0>> :> 1) @@ (<<1>> :> 2) @@ (<<2>> :> k))),
      obj |-> (Zero :> 0) @@ (n :> d) @@ (x :> e) @@ (a :> 1),
      pred |-> (P :> p) @@ (LessThan :> {q \in (0..2) \X (0..2) : q[1] < q[2]}) @@ (R :> r)]
        : k, d, e \in 0..2, p \in SUBSET {<<0>>, <<1>>, <<2>>}, r \in {{<<0, 1>>, <<1, 1>>, <<2, 0>>}, {<<0, 0>>, <<1, 1>>, <<2, 2>>, <<1, 2>>}}}
Inductive(e(_)) == {Forall(n, Impl(e(Var(n)), e(Apply(Var(Succ), <<Var(n)>>)))),
                    Forall(n, Impl(Forall(x, Impl(Apply(Var(LessThan), <<Var(x), Var(n)>>), e(Var(x)))), e(Var(n)))),
                    e(Var(Zero))}
HoldsOf(t) == Apply(Var(P), <<t>>)
RelatedTo(t) == Apply(Var(R), <<t, Var(n)>>)
InductionSteps == Inductive(HoldsOf) \cup Inductive(RelatedTo)
Inductions ==
    OneStep(InductionSteps \X InductionSteps, {"WeakInduction", "StrongInduction"},
            {Forall(x, HoldsOf(Var(x))), Forall(n, HoldsOf(Var(n))), Forall(x, RelatedTo(Var(x))), Forall(n, RelatedTo(Var(n))), Forall(x, HoldsOf(Var(n)))}, Numbers)

-----------------------------------------------------------------------------
(* Equations of unify, over two variables and over quantified expressions. *)
Flat == {Var(x), Var(y), Not(Var(x)), Not(Var(y)), And(Var(x), Var(y)),
         And(Var(y), Not(Var(x))), Impl(Var(x), Not(Var(y))), Contra}
Closed == {Forall(v, e) : v \in {x, y}, e \in {Var(x), Not(Var(y)), And(Var(x), Var(y))}}
Deep == {Forall(x, Forall(y, Impl(Var(x), Var(y)))), Forall(y, Forall(x, Impl(Var(y), Var(x)))),
         Exists(x, Var(x)), Exists(y, Var(y))}
MCEquations ==
    (Flat \X {Var(y), Not(Var(x)), And(Var(y), Not(Var(x)))})
        \cup (Closed \X {Forall(x, Not(Var(x))), Forall(y, And(Var(x), Var(y)))})
        \cup (Deep \X Deep)

(* Two equations between which the order decides what is found first. *)
OrderEquations == {<<Var(x), Var(y)>>, <<Contra, Var(y)>>}

(* Without x and y free, for the unifiers that are looked for. *)
MCTerms == {Taut, Contra, Not(Taut), Not(Contra), Not(Not(Taut)), And(Taut, Contra),
            Forall(x, Var(x)), And(Taut, Not(Taut))}

-----------------------------------------------------------------------------
(* Expressions for the laws of propositional logic. *)
With(laws, es) == [law : laws, pick : {0}, expr : es]
Join(ops, es) == {Assoc(op, <<e, f>>) : op \in ops, e, f \in es}
Pairs == {Assoc(op, <<e, f>>) : op \in {"And", "Or"}, e \in {A, Not(A)}, f \in {B, Not(B)}}
Nested == {Assoc(op, <<e, f, g>>) : op \in {"And", "Or"}, e \in {A, Not(A), B}, f \in Pairs, g \in {B, C}}
            \cup Join({"And", "Or"}, Pairs)
Negated == {Not(e) : e \in Pairs} \cup {Not(Assoc(op, <<Not(e), C>>)) : op \in {"And", "Or"}, e \in Pairs}
Bicons == {Assoc("Bicon", <<e, f>>) : e, f \in Literals \cup {Bicon(A, B), Bicon(C, A), And(B, A)}}
            \cup {Bicon(Not(e), f) : e, f \in {Bicon(A, B), Bicon(Not(A), Not(B))}}
BooleanInputs ==
    With({"absorption", "adjacency", "reduction", "complement", "to_binary", "to_binary_left",
          "demorgans", "combine_bool", "cnf"}, Nested \cup Negated)
      \cup With({"idempotence", "sort_bool"}, Nested)
      \cup With(CollectedInSet \cup {"bicon_contraposition", "sort_bicon", "combine_bicon", "cnf"}, Bicons)
      \cup With({"cnf"}, Join({"And", "Or"}, {A, Taut, Contra, Or(A, Taut)}))

(* The same operands in different orders, two levels deep. *)
Parts == {A, Or(A, B), Or(B, A), Or(A, C), Not(Or(B, A)), Impl(Or(A, B), A), And(B, Or(B, A)),
          And(Or(A, B), B), Assoc("Bicon", <<B, A, Or(B, A)>>), Assoc("Bicon", <<Or(A, B), A, B>>)}
OrderInputs == With({"sort_none"}, Join({"And", "Or"}, Parts))

(* The rewrite rules, on the expressions of the exercises; Distribution    *)
(* with one pattern at a time, as the rule uses it.                        *)
RewriteInputs ==
    With(BooleanRewrites \ {"DISTRIBUTION"}, Junctions)
      \cup With(ConditionalRewrites, Conditionals)
      \cup With(BiconditionalRewrites, BiconditionalExprs)
      \cup [law : {"DISTRIBUTION"}, pick : DOMAIN Reductions["DISTRIBUTION"],
             expr : {Or(A, And(B, C)), And(Or(A, B), Or(A, C)), And(Or(B, A), C), Not(Or(And(A, B), And(C, A)))}]

(* Expressions for the laws of quantifiers. *)
Atoms == {At(P, x), Not(At(Q, x)), At(P, y), At(Q, a)}
Compound == {F : F \in UNION {{And(e, f), Or(e, f), Impl(e, f)} : e, f \in Atoms}}
Quantified(es) == {Quant(k, x, e) : k \in {"Forall", "Exists"}, e \in es}
EveryQuant(e) == {Quant(k, y, e) : k \in {"Forall", "Exists"}}
Two == UNION {EveryQuant(e) : e \in Quantified({And(At(P, x), At(Q, y)), Impl(At(P, x), At(Q, y))})}
Hoists == UNION {{And(e, f), Or(f, e), Impl(e, f), Impl(f, e)}
                    : e \in Quantified(Atoms),
                      f \in {At(P, a), At(P, x), At(Q, y), Forall(y, At(Q, y))}}
Weakened == Quantified({And(e, f) : e, f \in {At(P, x), At(Q, x), At(P, a)}})
              \cup {Or(e, f) : e, f \in {Forall(x, At(P, x)), Forall(x, At(Q, x)), Forall(y, At(Q, y))}}
Dependent == Quantified(EveryQuant(Rel(x, y))) \cup {Exists(x, Not(Exists(y, Rel(x, y))))}
Below == {Not(e) : e \in Weakened} \cup {Impl(e, At(Q, a)) : e \in Weakened}
QuantifierInputs ==
    With({"negate_quantifiers", "aristotelean", "null_quantifiers", "quantifier_distribution"},
         Quantified(Compound) \cup {Not(e) : e \in Quantified(Compound)})
      \cup With({"swap_quantifiers", "negate_quantifiers"}, Two \cup {Not(e) : e \in Two})
      \cup With({"prenex"}, Hoists \cup Dependent)
      \cup With({"quantifier_inference"}, Weakened \cup Below)

(* Bound variables of every combination of two names. *)
Related(names) == {Rel(v, w) : v, w \in names}
Alls(es) == {Forall(v, e) : v \in {x, y}, e \in es}
BindingInputs ==
    With({"replacing_bound_vars"},
         Related({x, y}) \cup Alls(Related({x, y})) \cup Alls(Alls(Related({x, y})))
             \cup {Exists(v, Rel(x, y)) : v \in {x, y}})

MCInputs == BooleanInputs \cup OrderInputs \cup RewriteInputs \cup QuantifierInputs \cup BindingInputs

QuantifierLaws == {i.law : i \in QuantifierInputs}
MCStructures ==
    [l \in {i.law : i \in MCInputs} \cup {"idle"} |->
        IF l \in QuantifierLaws THEN Monadic
        ELSE IF l = "replacing_bound_vars" THEN Dyadic
        ELSE IF l = "idle" THEN {}
        ELSE Booleans]

-----------------------------------------------------------------------------
(* One exercise for ExistsElim: Some x R(x, a), with R(a, a) assumed. *)
Skolem ==
    [skolem |-> Exercise({<<Exists(x, Rel(x, a))>>}, {Rel(a, a)}, {"ExistsIntro", "ExistsElim"},
                         {Exists(y, Rel(y, y)), Exists(y, Rel(y, a))}, 4, Dyadic)]

MCExercises ==
    [quantifiers |-> Quantifiers, subproofs |-> Subproofs, connectives |-> Connectives,
     implications |-> Implications, biconditionals |-> Biconditionals, dilemmas |-> Dilemmas,
     halves |-> HalfDeMorgans,
     boolean |-> BooleanEquivalence, conditional |-> ConditionalEquivalence,
     bicond |-> BiconditionalEquivalence, quantified |-> QuantifierEquivalence,
     induction |-> Inductions] @@ Skolem
NoInputs == {}
NoExercises == <<>>
NoStructures == [l \in {"idle"} |-> {}]
-----------------------------------------------------------------------------
(* Each of the exceptions is real: an expression whose meaning the law     *)
(* changes, and a step that the rule accepts and that does not follow.     *)
Changes(l, e, structures) ==
    /\ LawFails(l, e)
    /\ \E f \in Forms(l, e), m \in structures :
           /\ Truth(f, m) # Truth(e, m)
           /\ l = "quantifier_inference" => Truth(e, m)

Misleads(rule, from, to, structures) ==
    /\ RuleFails(rule, from, <<>>, to)
    /\ Accepts(rule, from, <<>>, to)
    /\ \E m \in structures : (\A i \in 1..Len(from) : Truth(from[i], m)) /\ ~Truth(to, m)

Someone == Exists(x, And(At(P, x), At(Q, x)))
Swapped == <<Forall(y, Exists(x, Rel(x, y))), Exists(x, Forall(y, Rel(x, y)))>>
Captured(p) == And(Bicon(At(P, x), At(Q, a)), Exists(x, p))

ASSUME LawsFail ==
    /\ \A l \in CollectedInSet : Changes(l, Bicon(A, A), Booleans)
    /\ Changes("reduction", And(And(A, B), Or(Not(A), Not(B))), Booleans)
    /\ Changes("reduction", Not(Forall(x, At(P, x))), Monadic)
    /\ Changes("cnf", Or(A, Taut), Booleans)
    /\ Changes("prenex", Swapped[2], Dyadic)
    /\ Changes("quantifier_inference", Not(Someone), Monadic)

ASSUME RulesFail ==
    /\ \A rule \in {"Idempotence", "Absorption", "Adjacency"} :
           Misleads(rule, <<Bicon(A, A)>>, And(A, A), Booleans)
    /\ Misleads("Reduction", <<And(A, B)>>, And(And(A, B), Or(Not(A), Not(B))), Booleans)
    /\ Misleads("PrenexLaws", <<Swapped[1]>>, Swapped[2], Dyadic)
    /\ Misleads("QuantInference", <<Not(Someone)>>,
                Not(And(Exists(x, At(P, x)), Exists(x, At(Q, x)))), Monadic)
    /\ Misleads("TruthFunctionalConsequence", <<Or(A, Taut)>>, B, Booleans)
    /\ Misleads("BiconditionalIntro", <<Assoc("Bicon", <<A, B, C>>)>>, Bicon(A, B), Booleans)
    /\ Misleads("BiconditionalElim", <<Bicon(B, C), Bicon(B, B)>>, C, Booleans)
    /\ Misleads("HalfDeMorgan", <<Not(A)>>, Not(Or(A, B)), Booleans)
    /\ Misleads("Resolution", <<Assoc("Or", <<A, Not(A), B>>), A>>, B, Booleans)
    /\ Misleads("BiconditionalSubstitution", <<Captured(At(P, x))>>, Captured(At(Q, a)), Monadic)
=============================================================================
