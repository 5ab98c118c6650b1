------------------------------- MODULE Rules -------------------------------
(***************************************************************************)
(* Rule::check (aris/src/rules.rs): the number of lines and subproofs that *)
(* a rule takes, the rules that compare normal forms, and the verdict of a *)
(* rule by its name in the enumeration.                                    *)
(***************************************************************************)
EXTENDS Inference

(***************************************************************************)
(* The form that an equivalence rule compares, by the name of the law or   *)
(* of the rewrite rule that computes it.                                   *)
(***************************************************************************)
BooleanForm ==
    [DeMorgan |-> "demorgans", Association |-> "combine_bool", Commutation |-> "sort_bool",
     Idempotence |-> "idempotence", DoubleNegation |-> "DOUBLE_NEGATION",
     Complement |-> "complement", Identity |-> "IDENTITY", Annihilation |-> "ANNIHILATION",
     Inverse |-> "INVERSE", Absorption |-> "absorption", Reduction |-> "reduction",
     Adjacency |-> "adjacency"]
ConditionalForm ==
    [Implication |-> "CONDITIONAL_IMPLICATION", Contraposition |-> "CONDITIONAL_CONTRAPOSITION",
     Exportation |-> "CONDITIONAL_EXPORTATION",
     ConditionalDistribution |-> "CONDITIONAL_DISTRIBUTION",
     ConditionalAbsorption |-> "CONDITIONAL_ABSORPTION",
     ConditionalReduction |-> "CONDITIONAL_REDUCTION",
     ConditionalIdempotence |-> "CONDITIONAL_IDEMPOTENCE",
     ConditionalComplement |-> "CONDITIONAL_COMPLEMENT",
     ConditionalIdentity |-> "CONDITIONAL_IDENTITY",
     ConditionalAnnihilation |-> "CONDITIONAL_ANNIHILATION"]
BiconditionalForm ==
    [BiconditionalContraposition |-> "bicon_contraposition",
     BiconditionalCommutation |-> "sort_bicon", BiconditionalAssociation |-> "combine_bicon",
     BiEquivalence |-> "BICONDITIONAL_EQUIVALENCE",
     BiconditionalReduction |-> "BICONDITIONAL_REDUCTION",
     BiconditionalComplement |-> "BICONDITIONAL_COMPLEMENT",
     BiconditionalIdentity |-> "BICONDITIONAL_IDENTITY",
     BiconditionalNegation |-> "BICONDITIONAL_NEGATION",
     KnightsAndKnaves |-> "KNIGHTS_AND_KNAVES"]
QuantifierForm ==
    [QuantifierNegation |-> "negate_quantifiers", NullQuantification |-> "null_quantifiers",
     ReplacingBoundVars |-> "replacing_bound_vars", SwappingQuantifiers |-> "swap_quantifiers",
     AristoteleanSquare |-> "aristotelean", QuantifierDistribution |-> "quantifier_distribution",
     PrenexLaws |-> "prenex"]
ReductionForm ==
    [Conjunction |-> "CONJUNCTION", Disjunction |-> "DISJUNCTION", Negation |-> "INVERSE",
     BicondReduction |-> "BICOND_REDUCTION", CondReduction |-> "COND_REDUCTION"]
FormOf == BooleanForm @@ ConditionalForm @@ BiconditionalForm @@ QuantifierForm @@ ReductionForm

BooleanEquivalences == DOMAIN BooleanForm \cup {"Distribution"}
ConditionalEquivalences == DOMAIN ConditionalForm
BiconditionalEquivalences == DOMAIN BiconditionalForm \cup {"BiconditionalSubstitution"}
QuantifierEquivalences == DOMAIN QuantifierForm
EquivalenceRules == DOMAIN FormOf \cup {"Distribution", "BiconditionalSubstitution"}

-----------------------------------------------------------------------------
(* num_deps and num_subdeps; -1 stands for any number. *)
AnyNumber == -1

NumDeps(rule) ==
    CASE rule \in {"NotIntro", "ImpIntro", "ForallIntro", "ExcludedMiddle"} -> 0
      [] rule \in {"ContradictionIntro", "ImpElim", "BiconditionalElim", "EquivalenceElim",
                   "DisjunctiveSyllogism", "Exclusion", "ModusTollens", "HypotheticalSyllogism",
                   "BiconIntro", "BiconIntroNegation", "BiconElim", "BiconElimNegation",
                   "Resolution", "WeakInduction"} -> 2
      [] rule \in {"ConstructiveDilemma", "DestructiveDilemma"} -> 3
      [] rule \in {"AndIntro", "BiconditionalIntro", "EquivalenceIntro",
                   "TruthFunctionalConsequence", "EmptyRule"} -> AnyNumber
      [] OTHER -> 1

NumSubdeps(rule) ==
    CASE rule \in {"NotIntro", "ImpIntro", "ForallIntro", "ExistsElim"} -> 1
      [] rule \in {"OrElim", "BiconditionalIntro", "EquivalenceIntro", "EmptyRule"} -> AnyNumber
      [] OTHER -> 0

-----------------------------------------------------------------------------
(* Bound variables become numbers: gamma lists the free variables of the   *)
(* expression in the order a HashSet gives them, then the bound ones. A    *)
(* variable is looked up from the end, and the free ones get their names   *)
(* back.                                                                   *)
Numeral(i) == <<i>>

(* Fault: variables are looked up from the outermost binding. *)
IndexOutermost(gamma, n) ==
    CHOOSE i \in 1..Len(gamma) : gamma[i] = n /\ \A j \in 1..(i - 1) : gamma[j] # n

IndexIn(gamma, n) ==
    CHOOSE i \in 1..Len(gamma) : gamma[i] = n /\ \A j \in (i + 1)..Len(gamma) : gamma[j] # n

RECURSIVE Numbered(_, _)
Numbered(e, gamma) ==
    CASE Is(e, "Var") -> Var(Numeral(IndexIn(gamma, e.name) - 1))
      [] Is(e, "Quant") ->
            Quant(e.kind, Numeral(Len(gamma)), Numbered(e.body, Append(gamma, e.name)))
      [] OTHER -> WithChildren(e, Map(LAMBDA c : Numbered(c, gamma), Children(e)))

ReplacingBoundVars(e) ==
    {ApplySubstitution(Numbered(e, gamma),
                       [i \in 1..Len(gamma) |-> <<Numeral(i - 1), Var(gamma[i])>>])
        : gamma \in SetToSeqs(FreeVars(e))}

-----------------------------------------------------------------------------
(* BiconditionalSubstitution: in a conjunction, the right side of every    *)
(* biconditional takes the place of the left side in the other conjuncts.  *)
RECURSIVE SubstExpr(_, _, _)
SubstExpr(e, from, to) ==
    IF e = from THEN to
    ELSE WithChildren(e, Map(LAMBDA c : SubstExpr(c, from, to), Children(e)))

RECURSIVE SubstBiconditionals(_)
SubstBiconditionals(e) ==
    IF IsAssoc(e, "And")
    THEN LET bicons == SelectSeq(e.exprs, LAMBDA x : IsAssoc(x, "Bicon"))
             others == SelectSeq(e.exprs, LAMBDA x : ~IsAssoc(x, "Bicon"))
             pairs == SelectSeq(bicons, LAMBDA x : IsPair(x, "Bicon"))
             Replace(x) == FoldLeft(LAMBDA z, p : SubstExpr(z, p.exprs[1], p.exprs[2]), x, pairs)
         IN  Assoc("And", bicons \o Map(Replace, others))
    ELSE WithChildren(e, Map(SubstBiconditionals, Children(e)))

-----------------------------------------------------------------------------
(* The forms that are computed by recursion over the expression; a set,    *)
(* as some depend on the order in which a hash set is read.                *)
RebuildLaws == {"idempotence", "absorption", "reduction", "adjacency", "complement",
                "to_binary", "to_binary_left", "replacing_bound_vars", "cnf"}

Rebuilt(l, e) ==
    CASE l = "idempotence" -> {NormalizeIdempotence(e)}
      [] l = "absorption" -> {NormalizeAbsorption(e)}
      [] l = "reduction" -> {NormalizeReduction(e)}
      [] l = "adjacency" -> {NormalizeAdjacency(e)}
      [] l = "complement" -> NormalizeComplement(e)
      [] l = "to_binary" -> {ToBinary(e)}
      [] l = "to_binary_left" -> {ToBinaryLeft(e)}
      [] l = "replacing_bound_vars" -> ReplacingBoundVars(e)
      [] l = "cnf" -> {IntoCnf(e)}

(* The form an equivalence rule compares. *)
LeftNested == {"IDENTITY", "ANNIHILATION"}
Forms(form, e) ==
    CASE form \in RebuildLaws -> Rebuilt(form, e)
      [] form \in LeftNested -> {SortBool(Reduce(form, ToBinaryLeft(e)))}
      [] form \in Rewrites \ LeftNested -> {Reduce(form, e)}
      [] form = "prenex" -> {ForallsFirst(Transform(form, e))}
      [] OTHER -> {Transform(form, e)}

(* The rules that also sort operands, before and after. *)
Commutative ==
    {"Idempotence", "Complement", "Absorption", "Reduction", "Adjacency",
     "ConditionalDistribution", "ConditionalReduction", "ConditionalIdempotence",
     "BiconditionalReduction", "BiconditionalNegation", "KnightsAndKnaves"}

SortFor(rule, e) == IF rule \in Commutative THEN Transform("sort_none", e) ELSE e
SortedForms(rule, e) == {SortFor(rule, f) : f \in Forms(FormOf[rule], SortFor(rule, e))}

(* check_by_normalize_first_expr computes one form of each; where a form   *)
(* depends on the order of a hash set, acceptance is a possible outcome.   *)
SameForm(rule, p, q) == SortedForms(rule, p) \cap SortedForms(rule, q) # {}

(* check_by_rewrite_rule_one_step_anywhere, for Distribution: one pattern  *)
(* turns one of the two into the other.                                    *)
Turns(p, q) ==
    \E i \in 1..Len(Reductions["DISTRIBUTION"]) :
        /\ p # q
        /\ q = Transform("sort_none", ReducePattern(<<Reductions["DISTRIBUTION"][i]>>, p))
SortedBinary(e) == Transform("sort_none", ToBinary(e))
Distributed(p, q) ==
    \E pair \in {<<p, q>>, <<q, p>>} : Turns(SortedBinary(pair[1]), SortedBinary(pair[2]))

EquivalenceAccepts(rule, p, q) ==
    CASE rule = "Distribution" -> Distributed(p, q)
      [] rule = "BiconditionalSubstitution" -> SubstBiconditionals(p) = q
      [] OTHER -> SameForm(rule, p, q)

-----------------------------------------------------------------------------
InferenceAccepts(rule, d, s, c) ==
    CASE rule = "AndIntro" -> AndIntro(d, c)
      [] rule = "AndElim" -> AndElim(d, c)
      [] rule = "OrIntro" -> OrIntro(d, c)
      [] rule = "OrElim" -> OrElim(d, s, c)
      [] rule = "ImpIntro" -> ImpIntro(s, c)
      [] rule = "ImpElim" -> ImpElim(d, c)
      [] rule = "NotIntro" -> NotIntro(s, c)
      [] rule = "NotElim" -> NotElim(d, c)
      [] rule = "ContradictionIntro" -> ContradictionIntro(d, c)
      [] rule = "ContradictionElim" -> ContradictionElim(d)
      [] rule = "BiconditionalIntro" -> BiconditionalIntro(d, s, c)
      [] rule = "BiconditionalElim" -> BiconditionalElim(d, c)
      [] rule = "EquivalenceIntro" -> EquivalenceIntro(d, s, c)
      [] rule = "EquivalenceElim" -> EquivalenceElim(d, c)
      [] rule = "ForallIntro" -> ForallIntro(s, c)
      [] rule = "ForallElim" -> ForallElim(d, c)
      [] rule = "ExistsIntro" -> ExistsIntro(d, c)
      [] rule = "ExistsElim" -> ExistsElim(d, s, c)
      [] rule = "DisjunctiveSyllogism" -> DisjunctiveSyllogism(d, c)
      [] rule = "Exclusion" -> Exclusion(d, c)
      [] rule = "ExcludedMiddle" -> ExcludedMiddle(c)
      [] rule = "HalfDeMorgan" -> HalfDeMorgan(d, c)
      [] rule = "ModusTollens" -> ModusTollens(d, c)
      [] rule = "HypotheticalSyllogism" -> HypotheticalSyllogism(d, c)
      [] rule = "ConstructiveDilemma" -> ConstructiveDilemma(d, c)
      [] rule = "DestructiveDilemma" -> DestructiveDilemma(d, c)
      [] rule = "StrengthenAntecedent" -> StrengthenAntecedent(d, c)
      [] rule = "WeakenConsequent" -> WeakenConsequent(d, c)
      [] rule = "ConIntroNegation" -> ConIntroNegation(d, c)
      [] rule = "ConElimNegation" -> ConElimNegation(d, c)
      [] rule = "BiconIntro" -> BiconIntro(d, c)
      [] rule = "BiconIntroNegation" -> BiconIntroNegation(d, c)
      [] rule = "BiconElim" -> BiconElim(d, c)
      [] rule = "BiconElimNegation" -> BiconElimNegation(d, c)
      [] rule = "QuantInference" -> Transform("quantifier_inference", d[1]) = c
      [] rule = "Reiteration" -> Reiteration(d, c)
      [] rule = "Resolution" -> Resolution(d, c)
      [] rule = "TruthFunctionalConsequence" -> TruthFunctionalConsequence(d, c)
      [] rule = "WeakInduction" -> WeakInduction(d, c)
      [] rule = "StrongInduction" -> StrongInduction(d, c)
      [] rule = "EmptyRule" -> FALSE

(* SharedChecks::check *)
Accepts(rule, d, s, c) ==
    /\ NumDeps(rule) \in {AnyNumber, Len(d)}
    /\ NumSubdeps(rule) \in {AnyNumber, Len(s)}
    /\ IF rule \in EquivalenceRules THEN EquivalenceAccepts(rule, d[1], c)
       ELSE InferenceAccepts(rule, d, s, c)
=============================================================================
