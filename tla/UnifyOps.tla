------------------------------ MODULE UnifyOps ------------------------------
(***************************************************************************)
(* Equations between expressions (aris/src/expr.rs, unify): which arm of   *)
(* the match an equation falls under, and unify as a function. The state   *)
(* machine `Unify` takes the same arms one by one, in every order.         *)
(***************************************************************************)
EXTENDS Exprs

(* The conditions of the arms, in the order of the match. *)

Same(l, r) == l = r
BindsLeft(l, r) == Is(l, "Var") /\ l.name \notin FreeVars(r)
BindsRight(l, r) == Is(r, "Var") /\ r.name \notin FreeVars(l)

(* Fault: a negation does not match a negation. *)
SameShapeNotNegation(l, r) ==
    /\ l.node = r.node
    /\ l.node \in {"Impl", "Apply", "Assoc"}
    /\ Is(l, "Assoc") => l.op = r.op
    /\ Len(Children(l)) = Len(Children(r))

SameShape(l, r) ==
    /\ l.node = r.node
    /\ l.node \in {"Not", "Impl", "Apply", "Assoc"}
    /\ Is(l, "Assoc") => l.op = r.op
    /\ Len(Children(l)) = Len(Children(r))

BothQuant(l, r) == Is(l, "Quant") /\ Is(r, "Quant") /\ l.kind = r.kind

(* The equations between the parts of two expressions of one shape. *)
PartsEqual(l, r) == {<<Children(l)[i], Children(r)[i]>> : i \in 1..Len(Children(l))}

(* The name "__unification_var": a letter that no other name uses. *)
UnifyVar == <<99>>
FreshFor(l, r) == GenVar(UnifyVar, FreeVars(l) \cup FreeVars(r))

(* Fault: only one of the two bodies gets the fresh variable. *)
BodiesEqualLeftOnly(l, r, uv) == <<Subst(l.body, l.name, Var(uv)), r.body>>

(* The equation between two bodies, for a fresh variable. *)
BodiesEqual(l, r, uv) == <<Subst(l.body, l.name, Var(uv)), Subst(r.body, r.name, Var(uv))>>

(* Fault: solving an equation leaves the others as they are. *)
SubstSetForgotten(v, e, set) == set

(* subst_set, the substitution in the equations that are left. *)
SubstSet(v, e, set) == {<<Subst(q[1], v, e), Subst(q[2], v, e)>> : q \in set}

Mentions(pair, v) == pair[1] = v \/ v \in FreeVars(pair[2])

(* unify as a function: the pairs in the order in which they are returned. *)
NoUnifier == [ok |-> FALSE, pairs |-> <<>>]
Push(u, v, e) == IF u.ok THEN [u EXCEPT !.pairs = Append(@, <<v, e>>)] ELSE u

RECURSIVE Unifier(_)
Unifier(c) ==
    IF c = {} THEN [ok |-> TRUE, pairs |-> <<>>]
    ELSE LET q == CHOOSE q \in c : TRUE
             l == q[1]
             r == q[2]
             rest == c \ {q}
         IN  CASE Same(l, r) -> Unifier(rest)
               [] ~Same(l, r) /\ BindsLeft(l, r) ->
                     Push(Unifier(SubstSet(l.name, r, rest)), l.name, r)
               [] ~Same(l, r) /\ ~BindsLeft(l, r) /\ BindsRight(l, r) ->
                     Push(Unifier(SubstSet(r.name, l, rest)), r.name, l)
               [] ~Same(l, r) /\ SameShape(l, r) -> Unifier(rest \cup PartsEqual(l, r))
               [] ~Same(l, r) /\ BothQuant(l, r) ->
                     LET uv == FreshFor(l, r)
                         u == Unifier(rest \cup {BodiesEqual(l, r, uv)})
                     IN  IF \E i \in 1..Len(u.pairs) : Mentions(u.pairs[i], uv)
                         THEN NoUnifier ELSE u
               [] OTHER -> NoUnifier
=============================================================================
