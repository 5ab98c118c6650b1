------------------------------ MODULE Patterns ------------------------------
(***************************************************************************)
(* Rewriting by patterns: the equivalences of aris/src/equivs.rs and the   *)
(* engine of aris/src/rewrite_rules.rs that applies them. A rewrite rule   *)
(* is a sequence of pairs <<find, replace>>; it is named as in equivs.rs.  *)
(* (The variables P, Q, R of two rules are written phi, psi, lambda here:  *)
(* the engine renames them anyway.)                                        *)
(***************************************************************************)
EXTENDS UnifyOps, Simplify

phi == Var(<<50>>)
psi == Var(<<51>>)
lambda == Var(<<52>>)

BooleanPatterns(rule) ==
    CASE rule = "DOUBLE_NEGATION" -> <<<<Not(Not(phi)), phi>>>>
      [] rule = "DISTRIBUTION" ->
            << <<Or(And(phi, psi), And(phi, lambda)), And(phi, Or(psi, lambda))>>,
               <<And(Or(phi, psi), Or(phi, lambda)), Or(phi, And(psi, lambda))>>,
               <<And(phi, Or(psi, lambda)), Or(And(phi, psi), And(phi, lambda))>>,
               <<Or(phi, And(psi, lambda)), And(Or(phi, psi), Or(phi, lambda))>> >>
      [] rule = "IDENTITY" -> <<<<And(phi, Taut), phi>>, <<Or(phi, Contra), phi>>>>
      [] rule = "ANNIHILATION" -> <<<<And(phi, Contra), Contra>>, <<Or(phi, Taut), Taut>>>>
      [] rule = "INVERSE" -> <<<<Not(Taut), Contra>>, <<Not(Contra), Taut>>>>
      [] rule = "CONJUNCTION" -> <<<<And(phi, Taut), phi>>, <<And(phi, Contra), Contra>>>>
      [] rule = "DISJUNCTION" -> <<<<Or(phi, Contra), phi>>, <<Or(phi, Taut), Taut>>>>

ConditionalPatterns(rule) ==
    CASE rule = "CONDITIONAL_ABSORPTION" ->
            <<<<And(phi, Impl(Not(phi), psi)), phi>>, <<And(psi, Impl(phi, psi)), psi>>>>
      [] rule = "CONDITIONAL_COMPLEMENT" -> <<<<Impl(phi, phi), Taut>>>>
      [] rule = "CONDITIONAL_IDENTITY" -> <<<<Impl(phi, Contra), Not(phi)>>, <<Impl(Taut, phi), phi>>>>
      [] rule = "CONDITIONAL_ANNIHILATION" ->
            <<<<Impl(phi, Taut), Taut>>, <<Impl(Contra, phi), Taut>>>>
      [] rule = "CONDITIONAL_IMPLICATION" ->
            << <<Impl(phi, psi), Or(Not(phi), psi)>>,
               <<Not(Impl(phi, psi)), And(phi, Not(psi))>>,
               <<Not(Impl(phi, psi)), Not(Or(Not(phi), psi))>>,
               <<Not(Or(Not(phi), psi)), And(phi, Not(psi))>> >>
      [] rule = "CONDITIONAL_CONTRAPOSITION" -> <<<<Impl(Not(phi), Not(psi)), Impl(psi, phi)>>>>
      [] rule = "CONDITIONAL_EXPORTATION" ->
            <<<<Impl(phi, Impl(psi, lambda)), Impl(And(phi, psi), lambda)>>>>
      [] rule = "CONDITIONAL_DISTRIBUTION" ->
            << <<Impl(phi, And(psi, lambda)), And(Impl(phi, psi), Impl(phi, lambda))>>,
               <<Impl(Or(phi, psi), lambda), And(Impl(phi, lambda), Impl(psi, lambda))>>,
               <<Impl(phi, Or(psi, lambda)), Or(Impl(phi, psi), Impl(phi, lambda))>>,
               <<Impl(And(phi, psi), lambda), Or(Impl(phi, lambda), Impl(psi, lambda))>> >>
      [] rule = "CONDITIONAL_REDUCTION" ->
            << <<And(phi, Impl(phi, psi)), And(phi, psi)>>,
               <<And(Not(psi), Impl(phi, psi)), And(Not(psi), Not(phi))>> >>
      [] rule = "CONDITIONAL_IDEMPOTENCE" ->
            <<<<Impl(phi, Not(phi)), Not(phi)>>, <<Impl(Not(phi), phi), phi>>>>
      [] rule = "COND_REDUCTION" ->
            << <<Impl(phi, Taut), Taut>>, <<Impl(Contra, phi), Taut>>,
               <<Impl(phi, Contra), Not(phi)>>, <<Impl(Taut, phi), phi>> >>

BiconditionalPatterns(rule) ==
    CASE rule = "KNIGHTS_AND_KNAVES" ->
            << <<Bicon(phi, And(phi, psi)), Impl(phi, psi)>>,
               <<Bicon(phi, Or(phi, psi)), Impl(psi, phi)>> >>
      [] rule = "BICONDITIONAL_EQUIVALENCE" ->
            << <<And(Impl(phi, psi), Impl(psi, phi)), Bicon(phi, psi)>>,
               <<Or(And(phi, psi), And(Not(phi), Not(psi))), Bicon(phi, psi)>> >>
      [] rule = "BICONDITIONAL_REDUCTION" ->
            << <<And(phi, Bicon(phi, psi)), And(phi, psi)>>,
               <<And(Not(phi), Bicon(phi, psi)), And(Not(phi), Not(psi))>> >>
      [] rule = "BICONDITIONAL_COMPLEMENT" ->
            <<<<Bicon(phi, phi), Taut>>, <<Bicon(phi, Not(phi)), Contra>>>>
      [] rule \in {"BICONDITIONAL_IDENTITY", "BICOND_REDUCTION"} ->
            <<<<Bicon(phi, Contra), Not(phi)>>, <<Bicon(phi, Taut), phi>>>>
      [] rule = "BICONDITIONAL_NEGATION" ->
            << <<Bicon(Not(phi), psi), Not(Bicon(phi, psi))>>,
               <<Bicon(phi, Not(psi)), Not(Bicon(phi, psi))>> >>

BooleanRewrites == {"DOUBLE_NEGATION", "DISTRIBUTION", "IDENTITY", "ANNIHILATION", "INVERSE",
                    "CONJUNCTION", "DISJUNCTION"}
ConditionalRewrites ==
    {"CONDITIONAL_ABSORPTION", "CONDITIONAL_COMPLEMENT", "CONDITIONAL_IDENTITY",
     "CONDITIONAL_ANNIHILATION", "CONDITIONAL_IMPLICATION", "CONDITIONAL_CONTRAPOSITION",
     "CONDITIONAL_EXPORTATION", "CONDITIONAL_DISTRIBUTION", "CONDITIONAL_REDUCTION",
     "CONDITIONAL_IDEMPOTENCE", "COND_REDUCTION"}
BiconditionalRewrites ==
    {"KNIGHTS_AND_KNAVES", "BICONDITIONAL_EQUIVALENCE", "BICONDITIONAL_REDUCTION",
     "BICONDITIONAL_COMPLEMENT", "BICONDITIONAL_IDENTITY", "BICOND_REDUCTION",
     "BICONDITIONAL_NEGATION"}
Rewrites == BooleanRewrites \cup ConditionalRewrites \cup BiconditionalRewrites

-----------------------------------------------------------------------------
(* A pattern also stands for those with operands in another order.         *)

Arrangements(s) ==
    Map(LAMBDA f : [i \in 1..Len(s) |-> s[f[i]]],
        SortSeq(SetToSeq(SetToSeqs(1..Len(s))), NameLess))

(* All ways to take one element of each sequence, the last one varying     *)
(* fastest.                                                                *)
RECURSIVE PickEach(_)
PickEach(seqs) ==
    IF seqs = <<>> THEN << <<>> >>
    ELSE FlattenSeq(Map(LAMBDA x : Map(LAMBDA rest : <<x>> \o rest, PickEach(Tail(seqs))),
                        Head(seqs)))

RECURSIVE PermuteOps(_)
PermuteOps(e) ==
    LET arranged == IF Is(e, "Assoc") THEN Arrangements(e.exprs) ELSE <<Children(e)>>
        Below(cs) == Map(LAMBDA ds : WithChildren(e, ds), PickEach(Map(PermuteOps, cs)))
    IN  FlattenSeq(Map(Below, arranged))

Permuted(patterns) ==
    FlattenSeq(Map(LAMBDA p : Map(LAMBDA find : <<find, p[2]>>, PermuteOps(p[1])), patterns))

(* The static tables, each computed once. *)
Reductions ==
    [rule \in Rewrites |->
        Permuted(CASE rule \in BooleanRewrites -> BooleanPatterns(rule)
                   [] rule \in ConditionalRewrites -> ConditionalPatterns(rule)
                   [] rule \in BiconditionalRewrites -> BiconditionalPatterns(rule))]

-----------------------------------------------------------------------------
(* Applying patterns. *)

(* freevarsify_pattern: the variables of a pattern become names that are   *)
(* not free in the expression.                                             *)
Renamed(p, avoid) ==
    FoldLeft(LAMBDA q, v : LET name == GenVar(v, avoid)
                           IN  [find |-> Subst(q.find, v, Var(name)),
                                replace |-> Subst(q.replace, v, Var(name)),
                                vars |-> q.vars \cup {name}],
             [find |-> p[1], replace |-> p[2], vars |-> {}],
             SetToSeq(FreeVars(p[1])))
Freevarsified(patterns, e) == Map(LAMBDA p : Renamed(p, FreeVars(e)), patterns)

(* Only the variables of the pattern are bound, and all of them. *)
MatchesExactly(u, pattern) ==
    u.ok /\ {u.pairs[i][1] : i \in 1..Len(u.pairs)} = pattern.vars

(* The first attempt <<pattern, expression>> that matches decides. (The    *)
(* pairs are applied in hash order; no pattern variable occurs in what is  *)
(* substituted unless a bound variable has its name, which those of this   *)
(* model do not.)                                                          *)
RECURSIVE FirstMatch(_, _)
FirstMatch(attempts, e) ==
    IF attempts = <<>> THEN Unchanged(e)
    ELSE LET pattern == attempts[1][1]
             u == Unifier({<<pattern.find, attempts[1][2]>>})
         IN  IF MatchesExactly(u, pattern)
             THEN Rewritten(ApplySubstitution(pattern.replace, u.pairs))
             ELSE FirstMatch(Tail(attempts), e)

(* reduce_transform_func: each pattern is tried with the operands nested   *)
(* to the right, and then to the left.                                     *)
ReduceStep(patterns, e) ==
    LET right == ToBinary(e)
        left == ToBinaryLeft(right)
        tries == IF left = right THEN <<right>> ELSE <<right, left>>
    IN  FirstMatch(FlattenSeq(Map(LAMBDA p : Map(LAMBDA t : <<p, t>>, tries), patterns)), e)

RECURSIVE ReduceInner(_, _)
ReduceInner(patterns, e) ==
    Descend(LAMBDA c : ReduceInner(patterns, c), ReduceStep(patterns, e))

RECURSIVE ReduceAll(_, _), ReduceAgain(_, _)
ReduceAgain(patterns, r) == IF r[2] THEN ReduceAll(patterns, r[1]) ELSE r[1]
ReduceAll(patterns, e) == ReduceAgain(patterns, ReduceInner(patterns, e))

(* reduce_pattern and RewriteRule::reduce *)
ReducePattern(patterns, e) == ReduceAll(Freevarsified(patterns, e), e)
Reduce(rule, e) == ReducePattern(Reductions[rule], e)
=============================================================================
