---------------------------- MODULE MCProofWidget ----------------------------
(***************************************************************************)
(* ProofWidget with the empty text, which does not parse, and one text     *)
(* that does.                                                              *)
(***************************************************************************)
EXTENDS ProofWidget

CONSTANTS empty, A, txtA, blank

MCExprs == [says : Formulas, rule : Rules]

MCParseOf == [t \in Inputs |-> IF t = txtA THEN A ELSE None]

(* The numbers of lines that are gone do not tell states apart: no guard   *)
(* reads them, and a line that gets the key of one that is gone is         *)
(* numbered anew before anything reads its number.                         *)
Numbers ==
  [x \in Lines(proof) \cap DOMAIN ref_to_line_depth |-> ref_to_line_depth[x]]

(* Lines whose text parses: the other texts bind the proof to nothing.     *)
Typed == {r \in DOMAIN ref_to_input : ParseOf[ref_to_input[r]] # None}

(* Texts and references do not meet in any guard or property: at most one  *)
(* such line at a time, there or gone, beside it one subproof, and no      *)
(* references then.                                                        *)
OneText ==
  Typed # {} =>
    /\ Cardinality(Typed) = 1 /\ Cardinality(Subs(proof)) <= 1
    /\ \A j \in Justs(proof) : proof.just_map[j].deps \cup proof.just_map[j].sdeps = {}

(* Where a line has no text that parses, no guard and no property reads    *)
(* what the proof holds there; elsewhere only whether it fits the text.    *)
WithTexts ==
  <<proof.premise_list, proof.line_list, proof.containing_subproof, Prems(proof),
    [r \in Justs(proof) |-> <<proof.just_map[r].deps, proof.just_map[r].sdeps>>],
    selected_line, Numbers, Typed, {r \in Typed \cap Lines(proof) : TextFits(r)}>>
=============================================================================
