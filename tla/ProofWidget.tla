----------------------------- MODULE ProofWidget -----------------------------
(***************************************************************************)
(* web-app/src/components/proof_widget: the editor of one proof.  The      *)
(* widget keeps, beside the proof, what the user typed on each line and    *)
(* the number of each line, both by reference to the line, and the         *)
(* selected line.  An action is one message handled by update, with the    *)
(* guard the menus put on sending it; a keyboard shortcut sends the same   *)
(* messages for the selected line.                                         *)
(***************************************************************************)
EXTENDS LineOrder

CONSTANTS Formulas,  \* the expressions a line may hold
          Rules,     \* the rules
          MenuRules, \* those the menu of a step offers
          Inputs,    \* what a user may type on a line
          NoInput,   \* the empty text
          ParseOf,   \* the expression a text parses to, or None
          EmptyExpr, \* what a new line holds: the variable with the empty name
          EmptyRule, \* the rule of a new step
          None

(* What the proof holds on a line: the expression and, of a step, the rule *)
(* (of a premise, EmptyRule).                                              *)
ASSUME ContentsAssumption == Exprs = [says : Formulas, rule : Rules]
ASSUME InputsAssumption ==
  /\ NoInput \in Inputs
  /\ EmptyExpr \in Formulas /\ None \notin Formulas /\ EmptyRule \in Rules /\ MenuRules \subseteq Rules
  /\ ParseOf \in [Inputs -> Formulas \cup {None}]
(* The bound leaves room for the premise a new proof starts with.          *)
ASSUME RoomAssumption == MaxPrems > 0

VARIABLES selected_line,      \* a line, or None
          ref_to_input,       \* pud: text by line
          ref_to_line_depth   \* pud: number and depth by line

pud == <<ref_to_input, ref_to_line_depth>>
vars == <<proof, selected_line, pud>>

premise(e) == [says |-> e, rule |-> EmptyRule]

new_empty_step ==
  [expr |-> [says |-> EmptyExpr, rule |-> EmptyRule], deps |-> {}, sdeps |-> {}]

-----------------------------------------------------------------------------
(* Numbering the lines.                                                    *)

(* calculate_lineinfo overwrites the entries of the lines of the proof and *)
(* leaves the others.                                                      *)
calculate_lineinfo(old, p) ==
  [x \in DOMAIN old \cup Lines(p) |->
     IF x \in Lines(p)
     THEN <<LinesBefore(p, x) + 1, Cardinality(transitive_parents(p, x))>>
     ELSE old[x]]

Number(x) == ref_to_line_depth[x][1]

(* Fault: the lines are not numbered again.                                *)
RedrawOldNumbers == UNCHANGED ref_to_line_depth

(* The end of update for a message that changed something.                 *)
Redraw == ref_to_line_depth' = calculate_lineinfo(ref_to_line_depth, proof')

-----------------------------------------------------------------------------

InSubproof(r) == parent_of(proof, r) # Root

(* Fault: the assumption of a subproof may be removed.                     *)
may_remove_any_line(r) ==
  r \in Prems(proof) => Len(proof.premise_list[Root]) > 1

(* The last premise of the top level, and the assumption of a subproof,    *)
(* stay.                                                                   *)
may_remove_line(r) ==
  r \in Prems(proof) => ~InSubproof(r) /\ Len(proof.premise_list[Root]) > 1

(* A new proof: one premise, with no text yet.                             *)
WidgetInit ==
  LET p == add_premise(new, Root, premise(EmptyExpr))
  IN  /\ proof = p
      /\ selected_line = None
      /\ ref_to_input = [x \in Lines(p) |-> NoInput]
      /\ ref_to_line_depth = calculate_lineinfo(<<>>, p)

(* Fault: what is typed on a step reaches only its text.                   *)
PremiseChanged(r, input) ==
  /\ ref_to_input' = Put(ref_to_input, r, input)
  /\ IF ParseOf[input] # None /\ r \in Prems(proof)
     THEN proof' = with_mut_premise(proof, r, premise(ParseOf[input]))
     ELSE UNCHANGED proof
  /\ Redraw
  /\ UNCHANGED selected_line

(* The text is kept even when it does not parse; the proof then stays.     *)
LineChanged(r, input) ==
  /\ ref_to_input' = Put(ref_to_input, r, input)
  /\ LET e == ParseOf[input]
     IN  CASE e = None -> UNCHANGED proof
           [] e # None /\ r \in Prems(proof) -> proof' = with_mut_premise(proof, r, premise(e))
           [] e # None /\ r \in Justs(proof) ->
                proof' = with_mut_step(proof, r, [proof.just_map[r] EXCEPT !.expr.says = e])
  /\ Redraw
  /\ UNCHANGED selected_line

(* A line was added: it is selected, and no text is recorded for it.       *)
Inserted(x) ==
  /\ selected_line' = x
  /\ Redraw
  /\ UNCHANGED ref_to_input

(* "Subproofs should only have one assumption": only at the top level.     *)
InsertPremise(r, after) ==
  /\ RoomForPremise
  /\ ~InSubproof(r)
  /\ \/ r \in Prems(proof) /\ proof' = add_premise_relative(proof, premise(EmptyExpr), r, after)
     \/ r \in Justs(proof) /\ ~after /\ proof' = add_premise(proof, Root, premise(EmptyExpr))
  /\ Inserted(next_premkey(proof))

(* point is what the line is inserted next to: r, or the subproof r is in. *)
InsertStep(r, point, after) ==
  /\ RoomForStep
  /\ \/ /\ r \in Prems(proof) /\ point = r /\ after
        /\ proof' = prepend_step(proof, parent_of(proof, r), new_empty_step)
     \/ /\ \/ r \in Justs(proof) /\ point = r
           \/ InSubproof(r) /\ point = parent_of(proof, r)
        /\ proof' = add_step_relative(proof, new_empty_step, point, after)
  /\ Inserted(next_justkey(proof))

(* A new subproof comes with an assumption and a step.                     *)
InsertSubproof(r, point, after) ==
  /\ RoomForPremise /\ RoomForStep /\ RoomForSubproof
  /\ \/ r \in Justs(proof) /\ point = r
     \/ InSubproof(r) /\ point = parent_of(proof, r)
  /\ LET s == next_subkey(proof)
         p1 == add_subproof_relative(proof, point, after)
         p2 == add_premise(p1, s, premise(EmptyExpr))
     IN  proof' = prepend_step(p2, s, new_empty_step)
  /\ Inserted(next_premkey(proof))

(* What was selected may be gone, so nothing stays selected.               *)
DeleteLine(r) ==
  /\ may_remove_line(r)
  /\ proof' = remove_line(proof, parent_of(proof, r), r)
  /\ selected_line' = None
  /\ ref_to_input' = Drop(ref_to_input, {r})
  /\ ref_to_line_depth' = calculate_lineinfo(Drop(ref_to_line_depth, {r}), proof')

(* Fault: the selection stays.                                             *)
DeleteSubproofKeepingSelection(r) ==
  /\ InSubproof(r)
  /\ proof' = remove_subproof(proof, parent_of(proof, r))
  /\ UNCHANGED <<selected_line, ref_to_input>>
  /\ Redraw

(* The texts of the lines inside are not cleaned out.                      *)
DeleteSubproof(r) ==
  /\ InSubproof(r)
  /\ proof' = remove_subproof(proof, parent_of(proof, r))
  /\ selected_line' = None
  /\ UNCHANGED ref_to_input
  /\ Redraw

Select(r) ==
  /\ selected_line' = r
  /\ UNCHANGED <<proof, ref_to_input>>
  /\ Redraw

(* The line whose rule is chosen is selected, too.                         *)
SetRule(r, rule) ==
  /\ r \in Justs(proof)
  /\ proof' = with_mut_step(proof, r, [proof.just_map[r] EXCEPT !.expr.rule = rule])
  /\ selected_line' = r
  /\ UNCHANGED ref_to_input
  /\ Redraw

Toggle(S, x) == IF x \in S THEN S \ {x} ELSE S \cup {x}

Toggled(just, dep) ==
  IF dep \in Subs(proof)
  THEN [just EXCEPT !.sdeps = Toggle(@, dep)]
  ELSE [just EXCEPT !.deps = Toggle(@, dep)]

(* Fault: every line has a button.                                         *)
ToggleAnyDependency(dep) ==
  /\ selected_line \in Justs(proof)
  /\ LET just == Toggled(proof.just_map[selected_line], dep)
     IN  /\ Cardinality(just.deps) + Cardinality(just.sdeps) <= MaxRefs
         /\ proof' = with_mut_step(proof, selected_line, just)
  /\ Redraw
  /\ UNCHANGED <<selected_line, ref_to_input>>

(* The button of what the selected step may refer to.                      *)
ToggleDependency(dep) ==
  /\ selected_line \in Justs(proof)
  /\ can_reference_dep(proof, selected_line, dep)
  /\ LET just == Toggled(proof.just_map[selected_line], dep)
     IN  /\ Cardinality(just.deps) + Cardinality(just.sdeps) <= MaxRefs
         /\ proof' = with_mut_step(proof, selected_line, just)
  /\ Redraw
  /\ UNCHANGED <<selected_line, ref_to_input>>

WidgetNext ==
  \/ \E r \in Lines(proof) :
       \/ \E input \in Inputs : LineChanged(r, input)
       \/ \E after \in BOOLEAN :
            \/ InsertPremise(r, after)
            \/ \E point \in {r, parent_of(proof, r)} :
                 InsertStep(r, point, after) \/ InsertSubproof(r, point, after)
       \/ DeleteLine(r) \/ DeleteSubproof(r) \/ Select(r)
       \/ \E rule \in MenuRules : SetRule(r, rule)
  \/ \E dep \in Live(proof) : ToggleDependency(dep)

WidgetSpec == WidgetInit /\ [][WidgetNext]_vars

-----------------------------------------------------------------------------

(* The proof under edit is well formed; the line that the keyboard acts on *)
(* is in it; and every line has a number to draw.                          *)
WidgetTypeOK ==
  /\ ProofType(proof) /\ ListedOnce(proof) /\ NoDanglingRefs(proof) /\ NestingEnds(proof)
  /\ Lines(proof) \subseteq DOMAIN ref_to_line_depth

(* A keyboard shortcut never acts on a line that is gone, though deleting  *)
(* a subproof deletes lines the message does not name.                     *)
SelectedIsLive == selected_line \in Lines(proof) \cup {None}

(* Every subproof has its one assumption and the top level a premise: what *)
(* subproof rules and the line-range badges of subproofs count on.         *)
OneAssumption ==
  /\ \A s \in Subs(proof) : Len(proof.premise_list[s]) = 1
  /\ Len(proof.premise_list[Root]) >= 1

(* References were in scope when they were made, and no later edit of the  *)
(* proof takes them out of scope: the number of a line is above the        *)
(* numbers of the lines it refers to, and of all lines in the subproofs it *)
(* refers to.                                                              *)
RefsPointBack ==
  \A j \in Justs(proof) :
    /\ RefsInScope(proof, j)
    /\ \A x \in RestsOn(proof, j) : Number(x) < Number(j)

(* In the editor the walk of transitive_dependencies from any line ends,   *)
(* which the rules about quantifiers take whenever they check a step.      *)
DependencyWalkEnds == WalkEnds(proof)

(* The text kept for line r, when it parses, is the text of what the proof *)
(* holds on that line.                                                     *)
TextFits(r) ==
  r \in DOMAIN ref_to_input =>
    LET e == ParseOf[ref_to_input[r]]
        held == IF r \in Prems(proof)
                THEN proof.prem_map[r].says
                ELSE proof.just_map[r].expr.says
    IN  e # None => e = held

(* No message separates the text of a line that stays in the proof from    *)
(* what the proof holds there, whatever other lines it adds or deletes.    *)
EditsKeepTexts ==
  [][\A r \in Lines(proof) \cap Lines(proof)' : TextFits(r) => TextFits(r)']_vars

(* Every line shows the text of what the proof holds there, so that the    *)
(* mark beside it, which verify_line gives for what the proof holds, is    *)
(* about what it shows.                                                    *)
TextIsOfItsLine == \A r \in Lines(proof) : TextFits(r)
=============================================================================
