--------------------------- MODULE Normalization ---------------------------
(***************************************************************************)
(* Bringing an expression into one of the normal forms of `Normalize` and  *)
(* `Simplify`: the loop of `transform`, one pass per step, or one step for *)
(* a form that is computed by recursion.                                   *)
(***************************************************************************)
EXTENDS Exceptions

CONSTANTS
    Inputs,      \* expressions with a law: [law |-> ..., pick |-> ..., expr |-> ...]
    Structures   \* for each law, the structures in which truth is compared

VARIABLES
    law, given,
    pick,      \* the one pattern of a rewrite rule that is used, or 0 for all
    expr,      \* what has become of given
    running,   \* the loop goes on
    passes     \* how many passes were made (not in the code)

normVars == <<law, given, pick, expr, running, passes>>

(* The patterns of a rewrite rule, renamed apart from the expression. *)
PatternsUsed ==
    Freevarsified(IF pick = 0 THEN Reductions[law] ELSE <<Reductions[law][pick]>>, given)

OnePass(e) ==
    IF law \in Rewrites THEN ReduceInner(PatternsUsed, e) ELSE TransformInner(law, e)

NormIdle ==
    law = "idle" /\ given = Taut /\ pick = 0 /\ expr = Taut /\ running = FALSE /\ passes = 0

NormInit ==
    /\ \E i \in Inputs : law = i.law /\ given = i.expr /\ pick = i.pick
    /\ expr = given
    /\ running = TRUE
    /\ passes = 0

(* Fault: the loop goes on once a pass has rewritten something. *)
PassAgain ==
    /\ running /\ law \notin RebuildLaws
    /\ LET r == OnePass(expr)
       IN  /\ running' = (r[2] \/ passes > 0)
           /\ expr' = r[1]
    /\ passes' = passes + 1
    /\ UNCHANGED <<law, given, pick>>

Pass ==
    /\ running /\ law \notin RebuildLaws
    /\ LET r == OnePass(expr)
       IN  /\ running' = r[2]
           /\ expr' = IF law = "prenex" /\ ~r[2] THEN ForallsFirst(r[1]) ELSE r[1]
    /\ passes' = passes + 1
    /\ UNCHANGED <<law, given, pick>>

Rebuild ==
    /\ running /\ law \in RebuildLaws
    /\ expr' \in Rebuilt(law, expr)
    /\ running' = FALSE
    /\ passes' = passes + 1
    /\ UNCHANGED <<law, given, pick>>

NormNext == Pass \/ Rebuild

-----------------------------------------------------------------------------
(* Every pass of a law keeps the meaning of the expression, so a rule that *)
(* compares normal forms only ever equates equivalent expressions;         *)
(* quantifier_inference, which is used in one direction, may weaken it.    *)
(* Not claimed, because false, of the expressions of which LawFails says   *)
(* so.                                                                     *)
MeaningKept ==
    ~LawFails(law, given) =>
        \A m \in Structures[law] :
            /\ Truth(given, m) => Truth(expr, m)
            /\ law # "quantifier_inference" => (Truth(expr, m) => Truth(given, m))

(* Two expressions have the same sorted form exactly when they are the     *)
(* same up to the order of operands, at every depth, although parents are  *)
(* sorted before their children.                                           *)
RECURSIVE SameUpToOrder(_, _)
SameUpToOrder(a, b) ==
    LET n == Len(Children(a))
    IN  /\ Header(a) = Header(b)
        /\ Len(Children(b)) = n
        /\ IF Is(a, "Assoc")
           THEN \E f \in SetToSeqs(1..n) :
                    \A i \in 1..n : SameUpToOrder(a.exprs[i], b.exprs[f[i]])
           ELSE \A i \in 1..n : SameUpToOrder(Children(a)[i], Children(b)[i])

SortedIsCanonical ==
    (law = "sort_none" /\ ~running) =>
        \A i \in Inputs : i.law = "sort_none" =>
            (Transform("sort_none", i.expr) = expr <=> SameUpToOrder(given, i.expr))

(* Two expressions have the same form with numbered bound variables        *)
(* exactly when they differ in the names of bound variables only, in       *)
(* whatever order the two hash sets of free variables were read.           *)
ComparesUpToAlpha ==
    (law = "replacing_bound_vars" /\ ~running) =>
        \A i \in {i \in Inputs : i.law = "replacing_bound_vars"} :
            \A e \in ReplacingBoundVars(i.expr) : e = expr <=> AlphaEqual(given, i.expr)

(* transform stops, after no more passes than the expression has nodes:   *)
(* no law creates what it rewrites for ever.                               *)
RECURSIVE Size(_)
Size(e) == 1 + FoldLeft(LAMBDA n, c : n + Size(c), 0, Children(e))
StopsSoon == passes <= Size(given)
=============================================================================
