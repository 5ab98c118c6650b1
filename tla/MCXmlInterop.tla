---------------------------- MODULE MCXmlInterop ----------------------------
(***************************************************************************)
(* XmlInterop for TLC.  Saving and opening read neither the texts, the     *)
(* numbers nor the selection of the widget. Of the rules, AndIntro         *)
(* (rules.rs:297) and Conjunction (rules.rs:389) are saved by one name.    *)
(***************************************************************************)
EXTENDS XmlInterop

CONSTANTS empty, blank, AndIntro, Conjunction, CONJUNCTION, EMPTY_RULE, REITERATION

MCExprs == [says : Formulas, rule : Rules]

MCDeclaredRules ==
  <<[id |-> AndIntro, name |-> CONJUNCTION], [id |-> Reiteration, name |-> REITERATION],
    [id |-> Conjunction, name |-> CONJUNCTION], [id |-> EmptyRule, name |-> EMPTY_RULE]>>

MCParseOf == [t \in Inputs |-> None]

(* States of an edit differ in the selection; texts and numbers, which no  *)
(* guard and no property of the run reads, do not tell states apart.       *)
WithoutUi ==
  <<proof, IF phase = "editing" /\ selected_line \in Justs(proof) THEN selected_line ELSE None,
    xmlVars>>
=============================================================================
