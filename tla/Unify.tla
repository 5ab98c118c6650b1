------------------------------- MODULE Unify -------------------------------
(***************************************************************************)
(* unify (aris/src/expr.rs): solving a set of equations between            *)
(* expressions. One action is one call of the recursive function, by the   *)
(* arm of its match that applies, or the return of one; the equation taken *)
(* is the first that draining a HashSet gives, so any of them.             *)
(***************************************************************************)
EXTENDS UnifyOps

CONSTANTS
    Equations,    \* the pairs of expressions of which one or two are given
    Terms         \* the expressions among which unifiers are looked for

VARIABLES
    equations, \* the equations of the call
    c,         \* the equations still to be solved
    calls,     \* the calls that wait for a recursive one, outermost first
    sub,       \* the substitution that the calls return
    result     \* "idle" (no call), "solving", "returning", "some" or "none"

unifyVars == <<equations, c, calls, sub, result>>

(* What a waiting call does when the recursive one returns: it adds its    *)
(* pair at the end, or looks for its fresh variable. The other calls hand  *)
(* on what they get, and are left out.                                     *)
Binds(v, e) == [is |-> "pair", pair |-> <<v, e>>]
Guards(uv) == [is |-> "fresh", name |-> uv]

UnifyIdle == equations = {} /\ c = {} /\ calls = <<>> /\ sub = <<>> /\ result = "idle"

UnifyInit ==
    /\ equations \in {{p, q} : p, q \in Equations}
    /\ c = equations
    /\ calls = <<>> /\ sub = <<>> /\ result = "solving"

-----------------------------------------------------------------------------
Solve(v, e, rest) ==
    /\ c' = SubstSet(v, e, rest)
    /\ calls' = Append(calls, Binds(v, e))
    /\ UNCHANGED <<equations, sub, result>>

Delete(q) ==
    /\ Same(q[1], q[2])
    /\ c' = c \ {q}
    /\ UNCHANGED <<equations, calls, sub, result>>

SolveLeft(q) ==
    /\ ~Same(q[1], q[2])
    /\ BindsLeft(q[1], q[2])
    /\ Solve(q[1].name, q[2], c \ {q})

SolveRight(q) ==
    /\ ~Same(q[1], q[2])
    /\ ~BindsLeft(q[1], q[2])
    /\ BindsRight(q[1], q[2])
    /\ Solve(q[2].name, q[1], c \ {q})

(* Fault: the equation stays among those to be solved. *)
DecomposeKept(q) ==
    /\ ~Same(q[1], q[2])
    /\ SameShape(q[1], q[2])
    /\ c' = c \cup PartsEqual(q[1], q[2])
    /\ UNCHANGED <<equations, calls, sub, result>>

Decompose(q) ==
    /\ ~Same(q[1], q[2])
    /\ SameShape(q[1], q[2])
    /\ c' = (c \ {q}) \cup PartsEqual(q[1], q[2])
    /\ UNCHANGED <<equations, calls, sub, result>>

(* The bodies must agree for a fresh variable, and no pair found from here *)
(* on may mention it; that is checked when the recursive call returns.     *)
Open(q) ==
    /\ ~Same(q[1], q[2])
    /\ BothQuant(q[1], q[2])
    /\ LET uv == FreshFor(q[1], q[2])
       IN  /\ c' = (c \ {q}) \cup {BodiesEqual(q[1], q[2], uv)}
           /\ calls' = Append(calls, Guards(uv))
    /\ UNCHANGED <<equations, sub, result>>

(* None goes through every call that waits. *)
Fail(q) ==
    /\ ~Same(q[1], q[2])
    /\ ~BindsLeft(q[1], q[2]) /\ ~BindsRight(q[1], q[2])
    /\ ~SameShape(q[1], q[2]) /\ ~BothQuant(q[1], q[2])
    /\ result' = "none"
    /\ UNCHANGED <<equations, c, calls, sub>>

(* No equation is left: the innermost call returns the empty substitution. *)
Solved ==
    /\ c = {}
    /\ result' = "returning"
    /\ UNCHANGED <<equations, c, calls, sub>>

Solving(q) ==
    \/ Delete(q) \/ SolveLeft(q) \/ SolveRight(q) \/ Decompose(q) \/ Open(q) \/ Fail(q)

(* The calls return, the innermost first. *)
AddPair ==
    /\ calls # <<>> /\ Last(calls).is = "pair"
    /\ sub' = Append(sub, Last(calls).pair)
    /\ calls' = Front(calls)
    /\ UNCHANGED <<equations, c, result>>

Escapes(uv) == \E i \in 1..Len(sub) : Mentions(sub[i], uv)

LookForFresh ==
    /\ calls # <<>> /\ Last(calls).is = "fresh"
    /\ result' = IF Escapes(Last(calls).name) THEN "none" ELSE result
    /\ calls' = Front(calls)
    /\ UNCHANGED <<equations, c, sub>>

Finish ==
    /\ calls = <<>>
    /\ result' = "some"
    /\ UNCHANGED <<equations, c, calls, sub>>

UnifyNext ==
    \/ result = "solving" /\ ((\E q \in c : Solving(q)) \/ Solved)
    \/ result = "returning" /\ (AddPair \/ LookForFresh \/ Finish)

Pending == result \in {"solving", "returning"}

-----------------------------------------------------------------------------
Unified(pairs) ==
    \A q \in equations : AlphaEqual(ApplySubstitution(q[1], pairs), ApplySubstitution(q[2], pairs))

(* When unify succeeds, the pairs are a solution: substituted in the order *)
(* in which they were found, the opposite of the order in which they are   *)
(* returned, they make both sides of every given equation equal up to      *)
(* bound names.                                                            *)
SolvedUnifies == result = "some" => Unified(Reverse(sub))

(* "giving a list of substitutions that make constrained expressions       *)
(* equal", where a Substitution's pairs are applied in the order of the    *)
(* list. Each call adds its pair after the recursive call has returned, so *)
(* the list has the pairs that were found last first.                      *)
ReturnedUnifies == result = "some" => Unified(sub)

(* unify gives up only on equations that no assignment of expressions to   *)
(* their variables solves; in particular the outcome does not depend on    *)
(* the order in which the hash set gives the equations.                    *)
AllVars == UNION {FreeVars(q[1]) \cup FreeVars(q[2]) : q \in equations}
Assign(e, s) ==
    LET names == SetToSeq(DOMAIN s)
    IN  ApplySubstitution(e, [i \in 1..Len(names) |-> <<names[i], s[names[i]]>>])
FailsOnlyIfUnsolvable ==
    result = "none" =>
        \A s \in [AllVars -> Terms] :
            \E q \in equations : ~AlphaEqual(Assign(q[1], s), Assign(q[2], s))

(* Equations between expressions that are equal up to bound names are      *)
(* solved without binding anything.                                        *)
AlphaEqualSolved ==
    (result \in {"some", "none"} /\ \A q \in equations : AlphaEqual(q[1], q[2]))
        => result = "some" /\ sub = <<>>

(* unify returns: no order of equations makes it run for ever. *)
Returns == Pending ~> (result \in {"some", "none"})
=============================================================================
