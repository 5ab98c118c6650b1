----------------------------- MODULE Derivation -----------------------------
(***************************************************************************)
(* A proof all of whose lines check, written line by line in reading order *)
(* (aris/src/proofs.rs and pooledproof.rs, verify_line): premises first,   *)
(* then steps, each accepted by its rule for the lines and subproofs it    *)
(* refers to, and subproofs, each opened by an assumption.                 *)
(*                                                                         *)
(* A line is a record: kind, expr, in (the subproofs around it, outermost  *)
(* first), rule, deps (numbers of lines) and sdeps (subproofs). A subproof *)
(* is named by the number of the line of its assumption.                   *)
(***************************************************************************)
EXTENDS Exceptions

CONSTANT Exercises
    \* by name: premises (a set of sequences), rules, assumptions, conclusions,
    \* lines (how many a proof may have) and structures (those in which the
    \* proof is read)

VARIABLES
    exercise,
    lines,
    open       \* the subproofs that are open, outermost first

proofVars == <<exercise, lines, open>>

Premise(e, around) ==
    [kind |-> "premise", expr |-> e, in |-> around, rule |-> "", deps |-> <<>>, sdeps |-> <<>>]

-----------------------------------------------------------------------------
(* Which lines a step may refer to, and what it depends on.                *)

DirectlyIn(sub) == lines[sub].in
IsClosed(sub) == ~IsPrefix(DirectlyIn(sub), open)

(* possible_deps_for_line, for the line that comes next. *)
PossibleDeps == {i \in 1..Len(lines) : IsPrefix(lines[i].in, open)}
PossibleSubdeps ==
    {i \in 1..Len(lines) :
        /\ lines[i].kind = "premise" /\ lines[i].in # <<>>
        /\ IsClosed(i) /\ IsPrefix(Front(lines[i].in), open)}

(* lines() of a subproof, its steps only. *)
StepsOf(sub) == {i \in 1..Len(lines) : lines[i].kind = "step" /\ lines[i].in = DirectlyIn(sub)}

(* contained_justifications *)
Contained(sub) == {i \in 1..Len(lines) : IsPrefix(DirectlyIn(sub), lines[i].in)}

StepsBelow(sub) == {i \in Contained(sub) : lines[i].kind = "step"}

(* transitive_dependencies: through a subproof, what its lines depend on.  *)
RECURSIVE DependsOn(_)
DependsOn(i) ==
    LET l == lines[i]
        direct == {l.deps[k] : k \in 1..Len(l.deps)}
        below == UNION {StepsBelow(l.sdeps[k]) : k \in 1..Len(l.sdeps)}
    IN  {i} \cup UNION {DependsOn(j) : j \in direct \cup below}

(* What a rule sees of a subproof. *)
LineSeen(sub, i) ==
    [expr |-> lines[i].expr,
     outside |-> {lines[j].expr : j \in DependsOn(i) \ Contained(sub)},
     assumes |-> sub \in DependsOn(i)]
SubproofSeen(sub) ==
    [premise |-> lines[sub].expr,
     lines |-> Map(LAMBDA i : LineSeen(sub, i),
                   <<sub>> \o SetToSortSeq(StepsOf(sub), LAMBDA i, j : i < j))]

(* verify_line *)
Verified(rule, c, deps, sdeps) ==
    Accepts(rule, Map(LAMBDA i : lines[i].expr, deps), Map(SubproofSeen, sdeps), c)

-----------------------------------------------------------------------------
ProofIdle == exercise = "none" /\ lines = <<>> /\ open = <<>>

ProofInit ==
    /\ exercise \in DOMAIN Exercises
    /\ \E ps \in Exercises[exercise].premises : lines = Map(LAMBDA e : Premise(e, <<>>), ps)
    /\ open = <<>>

Room == exercise # "none" /\ Len(lines) < Exercises[exercise].lines

Assume ==
    /\ Room
    /\ \E e \in Exercises[exercise].assumptions :
           /\ open' = Append(open, Len(lines) + 1)
           /\ lines' = Append(lines, Premise(e, open'))
    /\ UNCHANGED exercise

(* Where a rule takes any number of lines or subproofs, up to MaxRefs. *)
MaxRefs == 2
References(n, set) == IF n = AnyNumber THEN SeqOf(set, MaxRefs) ELSE [1..n -> set]

Conclude ==
    /\ Room
    /\ \E rule \in Exercises[exercise].rules, c \in Exercises[exercise].conclusions :
       \E deps \in References(NumDeps(rule), PossibleDeps) :
       \E sdeps \in {s \in References(NumSubdeps(rule), PossibleSubdeps) :
                        Verified(rule, c, deps, s)} :
           lines' = Append(lines, [kind |-> "step", expr |-> c, in |-> open, rule |-> rule,
                                   deps |-> deps, sdeps |-> sdeps])
    /\ UNCHANGED <<exercise, open>>

Close ==
    /\ open # <<>>
    /\ open' = Front(open)
    /\ UNCHANGED <<exercise, lines>>

ProofNext == Assume \/ Conclude \/ Close

-----------------------------------------------------------------------------
Cited(i) == Map(LAMBDA j : lines[j].expr, lines[i].deps)
CitedSubproofs(i) == Map(SubproofSeen, lines[i].sdeps)

(* A step of a kind that the code is known to be wrong about. *)
Fails(i) ==
    /\ lines[i].kind = "step"
    /\ RuleFails(lines[i].rule, Cited(i), CitedSubproofs(i), lines[i].expr)

(* What the proof editor promises: a step that checks follows. In every    *)
(* structure in which the premises of the proof and the assumptions of the *)
(* subproofs around a step are true, the step is true. Not claimed, because *)
(* false, of proofs with a step of which RuleFails says so.                *)
Given(i) == {j \in 1..i : lines[j].kind = "premise" /\ IsPrefix(lines[j].in, lines[i].in)}
Sound ==
    \A i \in 1..Len(lines) :
        (\A j \in 1..i : ~Fails(j)) =>
            \A m \in Exercises[exercise].structures :
                (\A j \in Given(i) : Truth(lines[j].expr, m)) => Truth(lines[i].expr, m)

(* "the skolem constant must not occur in the transitive dependencies of   *)
(* the conclusion": the constant for which ExistsElim assumed the body of  *)
(* the existential is not free in what the conclusion depends on outside   *)
(* the subproof.                                                           *)
SkolemIsFresh ==
    \A i \in 1..Len(lines) :
        lines[i].rule = "ExistsElim" =>
            \A j \in DependsOn(i) \ Contained(lines[i].sdeps[1]) :
                SkolemOf(Cited(i), CitedSubproofs(i)) \notin FreeVars(lines[j].expr)

(* A rule accepts a step in whatever order its lines are referred to.      *)
OrderIrrelevant ==
    \A i \in 1..Len(lines) :
        \A order \in SetToSeqs(1..Len(lines[i].deps)) :
            lines[i].kind = "step" =>
                Accepts(lines[i].rule, Map(LAMBDA k : Cited(i)[k], order), CitedSubproofs(i),
                        lines[i].expr)
=============================================================================
