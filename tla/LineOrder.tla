------------------------------ MODULE LineOrder ------------------------------
(***************************************************************************)
(* The lines of a proof in the order in which they are drawn and saved:    *)
(* the premises of a subproof, then its steps and subproofs, with what is  *)
(* inside a subproof in the place of the subproof.                         *)
(***************************************************************************)
EXTENDS PooledProof

(* x comes before y when, in some list, x or a subproof around x comes     *)
(* before y or a subproof around y.                                        *)
Before(p, x, y) ==
  \E a \in {x} \cup transitive_parents(p, x), b \in {y} \cup transitive_parents(p, y) :
    parent_of(p, a) = parent_of(p, b) /\ a # b /\ a \in Earlier(p, b)

(* How many lines come before the line or subproof x.                      *)
LinesBefore(p, x) == Cardinality({y \in Lines(p) : Before(p, y, x)})
=============================================================================
