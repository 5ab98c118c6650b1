------------------------------ MODULE Checker ------------------------------
(***************************************************************************)
(* The proof checker: one proof being written, one call of unify, or one   *)
(* computation of a normal form at a time. The rules that check a proof    *)
(* use the last two as functions; here each is also taken step by step.    *)
(***************************************************************************)
EXTENDS Unify, Normalization, Derivation

checkerVars == <<unifyVars, normVars, proofVars>>

CheckerInit ==
    \/ UnifyInit /\ NormIdle /\ ProofIdle
    \/ UnifyIdle /\ NormInit /\ ProofIdle
    \/ UnifyIdle /\ NormIdle /\ ProofInit

CheckerNext ==
    \/ UnifyNext /\ UNCHANGED <<normVars, proofVars>>
    \/ NormNext /\ UNCHANGED <<unifyVars, proofVars>>
    \/ ProofNext /\ UNCHANGED <<unifyVars, normVars>>

(* unify is a function that was called: while its result is pending it    *)
(* goes on. (Weak fairness of UnifyNext, which alone changes unifyVars and *)
(* is enabled as long as the result is pending.)                           *)
UnifyGoesOn == []<>~Pending \/ []<><<TRUE>>_unifyVars

CheckerSpec == CheckerInit /\ [][CheckerNext]_checkerVars /\ UnifyGoesOn
=============================================================================
