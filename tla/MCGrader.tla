------------------------------ MODULE MCGrader ------------------------------
(***************************************************************************)
(* Grader on two statements.  A student may state the goal g or a lemma h, *)
(* with or without a rule that accepts it.                                 *)
(***************************************************************************)
EXTENDS Grader

CONSTANTS g, h

MCStatements == {g, h}
MCExprs == [says : {g, h}, ok : BOOLEAN]
MCGoals == <<g>>
MCTwoGoals == <<g, h>>
MCPremises == {h}
=============================================================================
