# A TLA+ verification of Aris

Aris is a natural-deduction proof assistant: a Rust library (`aris/`) that
represents, checks, loads and saves proofs, a command-line grader
(`auto-grader/`), a web editor (`web-app/`) and bindings for other languages.
This directory holds TLA+ models of its core, the TLC runs that check them on
small instances, and theorems about them that TLAPS checks for every value of
the constants.

## Inventory

| Component | State it keeps | Operations | Talks to | Hard parts | What makes it correct |
|---|---|---|---|---|---|
| `ZipperVec` (`aris/src/zipper_vec.rs`) | entries before the cursor; entries after it, reversed | push, pop, insert_relative, move_cursor, get, iter, from_vec | holds the lists of every proof | the effect of a call must not depend on where earlier calls left the cursor; loops | it is a plain list; calls return |
| `PooledProof` (`aris/src/proofs/pooledproof.rs`) | maps from keys to premises, steps and subproofs; parent of each line; ordered lists per subproof | add (at the end, relative), set, remove line, remove subproof | implements the `Proof` trait for everyone | removal is recursive over four maps and all lists; keys are used again; parents are recorded by comparing addresses | lists, pools and parents agree; nesting ends; no dangling reference |
| `Proof` trait (`aris/src/proofs.rs`) | none | prepend_step, possible_deps_for_line, can_reference_dep, transitive_dependencies | default methods of every proof | scope of references, checked only when a line is verified; a walk along them with no check for cycles | accepted references never go in a circle; the walk ends |
| XML files (`aris/src/proofs/xml_interop.rs`) | while reading: number-to-reference maps, current proof | read, write | grader, widget | subproofs come after the lines around them; a subproof's number aliases its first line | what is saved is what is opened |
| `LinedProof` (`aris/src/proofs/lined_proof.rs`) | a proof and a flat list of its lines | from_proof, add_line, delete | Java client, grader's messages | two structures edited in step | the list is the lines of the proof in order |
| expressions (`aris/src/expr.rs`) | none | substitute, unify, a dozen normal forms, CNF | the rules use all of them | hash sets read in any order; capture; passes repeated until nothing changes | a unifier unifies; a normal form means the same; loops end |
| equivalences, rewriting (`equivs.rs`, `rewrite_rules.rs`) | tables of patterns | permute patterns, rewrite with them | equivalence rules | patterns tried in several arrangements, over and over | rewriting keeps the meaning and ends |
| rules (`aris/src/rules.rs`) | none | check a step | called by `verify_line`; look at subproofs and transitive dependencies | freshness of constants; lines in any order | a rule accepts only what follows |
| parser, macros (`aris/src/parser.rs`, `macros.rs`) | none | parse | widget, files | - | - |
| auto-grader (`auto-grader/src/main.rs`) | the lines still to validate | compare premises, find goals, validate_recursive | reads files, calls `verify_line` | a loop with no record of visited lines | accepts a proof exactly if its goals are valid down to the premises; ends |
| proof widget (`web-app/src/components/proof_widget`) | a proof, the selected line, texts and numbers by line | one message per user action | edits the proof, sends messages to itself | references kept outside the proof while lines are deleted and keys used again | selection, numbers and texts are those of live lines |
| tabs, app, navigation bar (`web-app/src/components`) | tabs, current tab, widgets by name, names waiting for a file | new, open, save, close, switch | asynchronous messages; events of the browser | index of the current tab; files that finish in another order than they were opened in, or fail; components that announce themselves in any order | a tab shows its file; the proof that is saved is the one shown |
| bindings (`bindings/`) | none | conversions | Java, C, JavaScript | - | - |

There are no threads: the concurrency is between messages and browser events in
the web editor, and in the order in which hash sets are read. The hard behaviour
of the core is in long sequences of legal edits, in references that outlive what
they name, in loops with no explicit measure, and in rules that must reject every
step that does not follow.
`PROJECT.json` lists the hazards with their lines, and the properties aimed at
each.

## Modules

| Module | Models | Uses |
|---|---|---|
| `ListOps` | what the list operations do to the iteration order, as functions on sequences | |
| `EditList` | the abstract specification of a list: a call is made, and answered in one step | `ListOps` |
| `ZipperVec` | `zipper_vec.rs`, one iteration of a cursor loop per step | `ListOps`; `EditList` by `INSTANCE` (refinement) |
| `PooledProof` | `pooledproof.rs` and the trait's default methods; one action per operation | `ListOps` |
| `Verdict` | the abstract specification of a grader: a document is written, then judged once, rightly | |
| `Grader` | `auto-grader/src/main.rs` on top of the reading order of `xml_interop.rs` | `PooledProof`; `Verdict` by `INSTANCE` (refinement) |
| `LineOrder` | the order in which lines are drawn, numbered and saved | `PooledProof` |
| `ProofWidget` | `proof_widget/mod.rs` with the guards of `actions.rs`, `calculate_lineinfo` and `ProofUiData` | `LineOrder` |
| `XmlInterop` | `xml_interop.rs`: saving what the editor made and opening it again | `ProofWidget` |
| `AppTabs` | `app.rs`, `tabbed_container.rs`, `nav_bar.rs`: one action per message or browser event | |
| `Exprs` | the tree of `expr.rs`, its derived order, `free_vars`, `gen_var`, `subst`; and, as reference, alpha-equivalence and truth in a structure | |
| `UnifyOps` | the arms of `unify`, and `unify` as a function | `Exprs` |
| `Unify` | `unify` as a state machine: one call, or the return of one, per step; the equation taken is any of those left | `UnifyOps` |
| `Normalize` | the normal forms that rewrite node by node, and `transform` | `Exprs` |
| `Simplify` | the normal forms that rebuild an expression | `Normalize` |
| `Patterns` | `equivs.rs` and `rewrite_rules.rs` | `UnifyOps`, `Simplify` |
| `Cnf` | NNF and CNF, and the question asked of the SAT solver | `Patterns` |
| `Inference` | the inference rules of `rules.rs` | `Cnf` |
| `Rules` | `SharedChecks`, the equivalence rules, and the verdict of a rule by name | `Inference` |
| `Exceptions` | where the code is known to go wrong: expressions whose meaning a normal form changes, steps that a rule accepts though they do not follow | `Rules` |
| `Normalization` | the loop of `transform`, one pass per step | `Exceptions` |
| `Derivation` | proofs all of whose steps check, written line by line | `Exceptions` |
| `Checker` | unification, normal forms and proofs together | `Unify`, `Normalization`, `Derivation` |
| `MCGrader`, `MCProofWidget`, `MCXmlInterop`, `MCAppTabs`, `MCChecker` | values of the constants, and views, for TLC | |
| `ListOpsProofs`, `ZipperVecProofs`, `PooledProofProofs`, `PooledReasoningProofs`, `GraderProofs`, `ProofWidgetProofs`, `XmlInteropProofs`, `AppTabsProofs` | theorems and proofs | |

### How the models correspond to the code

**`ZipperVec`.** `prefix` and `suffix_r` are the two vectors. A client makes one
call at a time (`call`); `phase` says which loop of it is running. `iter` is the
list the rest of the program sees. Filtering is the idiom with which the pools
rebuild a list (`from_vec` of a filtered `iter`).

**`PooledProof`.** The variable `proof` is a record of the four maps. `sub_map` is split
into its two kinds of lists, `premise_list` and `line_list`, indexed by subproof; the
extra index `Root` is the top-level proof, which is not in the map. A reference is a
kind and a key. Lists are sequences, which `ZipperRefinesPlainList` justifies. The
dependencies of a step are sets. An expression (and a step's rule) is an opaque value.
Address comparison in `subproof_to_subkey` identifies the subproof, which is right as
long as entries of `sub_map` do not move: `MaxSubsAssumption` keeps the map within one
B-tree node, and the undefined behaviour beyond it is not modelled. Operations are
operators from proofs to proofs, so that `Grader` and `ProofWidget` can use them; the
actions of `PooledProof` let a client call them in any order with any live reference.

**`Grader`.** Reading only adds to the proof; a step can refer to anything read before
it, which, since a subproof is read after the lines around it, includes subproofs whose
lines are still to come. `verify_line` is scope (`RefsInScope`) and the outcome of the
rule's own check, a Boolean that is part of what the step says. That check need not end:
a rule may look at what the lines of a cited subproof transitively depend on, and
`transitive_dependencies` keeps no record of what it has seen. Where references of the
file go in a circle (`GoesRound`) the step may also get stuck (`GetStuck`), and there is
no verdict. The stack `q` is a set: its order and repetitions do not matter to which
lines are reached (`GraderLoopEnds` counts them, since they could matter to whether the
loop ends). `RightProof` says which proofs deserve to be accepted: the first step
stating a goal lies in a set of valid lines that contains whatever their validity rests
on (`ValidDown`). `AcceptedFollows` gives this its meaning. Take the statements in any
set `T` for true; if each rule accepts only what is true when all it cites is
(`SoundStep`; a cited subproof says that its steps are true if its assumptions are),
then accepted goals are true if the premises are. For propositional rules `T` is what
one valuation makes true. A rule that generalises over an object is not sound for each
`T` by itself, so the property says nothing of proofs that use one; whether rules are
sound is the subject of `checker`.

**`ProofWidget`.** An action is one message together with the condition under
which a menu, a button or a shortcut offers it. `ref_to_input` and
`ref_to_line_depth` are the two maps of `ProofUiData`, stale entries included.
What a text parses to is the constant `ParseOf`. A line holds a formula and, if it
is a step, a rule; `SetRule` sets the rule and selects the line.

**`XmlInterop`.** A file is the sequence of its assumption, step and subproof elements,
each with the id of the proof element around it; one action is one call of the
writer's `aux` or one element read. Numbers and ids are the code's; a number
written for a subproof is that of its first line, and the reader looks every
number up both as a line and as a subproof. An element of a step carries the
serialized name of its rule, and the reader takes the first rule of that name in the
order of `declare_rules!`, or Reiteration. `AndIntro` (rules.rs:297) and the
reduction `Conjunction` (rules.rs:389) share `CONJUNCTION`, so a Conjunction step opens
as `AndIntro`, and `RoundTrip` claims of rules only that the name is the same. That the
text of an expression parses to it again is taken as given; the one empty text that does
not parse is read as `EmptyExpr`.

**`AppTabs`.** `queue` holds the messages that were sent; the framework handles
them in that order, and all of them before the next event of the browser. A tab
is its name, the widget it shows and where its content came from; widgets are
numbered as they are made. Rendering a new tab makes its widget, which registers
itself, so `Create` sends `RegisterProofName`. A `FileReader` is loading, done or
failed; `channel` is the queue from which the one closure of `FileOpenHelper`
takes a name with its reader, and `recv` on an empty channel stops the page.
`made`, `loads`, `opened`, `clash` and `saved` record history for the properties.

**Expressions.** An expression is a record by variant. A name is a sequence of
numbers, since `gen_var` appends digits and sorting compares characters. A
`BTreeSet` is a set that is read in the derived order, a `HashSet` one that is
read in any order: `Unify` takes any equation, `NormalizeComplement` and
`ReplacingBoundVars` give a set of outcomes. `unify` is recursive; its state machine
keeps the equations left and the stack of calls that wait for a recursive one: those
that will add a pair, and those that will look for a fresh variable. Pairs are
added as the calls return, so the list of pairs is the one the code returns, the pair
found last first. `gen_var` counts up to `MaxSuffix` here.

**Rules.** A rule is an operator on the expressions of the lines it refers to and
on what it looks at in a subproof (`Inference`); error values are all *rejected*.
Where several lines fit, the first one decides, as in the code. An equivalence
rule compares the forms of premise and conclusion (`Forms`); where the form
depends on hash order the rule *may* accept, if two outcomes agree: `Sound` must hold
for whatever it may accept. `any_order` is the
existence of an order that fits. The SAT solver is external: `Unsatisfiable` is
what it must answer.

**`Derivation`.** Lines are written in reading order. Opening a subproof adds its
assumption, a step is added only if `verify_line` accepts it for some references
in scope, closing a subproof returns to the proof around it. Which lines a step
transitively depends on is computed as `transitive_dependencies` does.

Definitions whose comment starts with *Fault* are variants with a plausible
mistake; no specification uses them. Each is paired in `PROJECT.json` with the
property that finds it, so that a property is known to depend on the code.

## Runs

| Run | Bounds | What it shows |
|---|---|---|
| `zipper` | 3 values, length 4 | refinement of the plain list, loop invariant, every call returns |
| `zipper_get` | same | finding: `get` behind the cursor counts from the wrong end |
| `pooled` | 1 expression, 2 premises, 2 steps, 2 subproofs, 1 reference per step | lists, parents and pools agree; no dangling references; accepted references are not circular; edits keep order |
| `grader` | 2 premises, 2 steps, 1 subproof, 2 references, 2 goals | a verdict is reached, unless a rule gets stuck on references that go in a circle, and right in both directions; accepted goals follow from the premises |
| `grader_first_match` | 1 premise, 2 steps, 1 subproof, 2 references, 1 goal | finding: only the first step that states the goal counts |
| `widget` | 3 premises, 2 steps, 2 subproofs, 2 references per step; one text that parses at a time, and then one subproof and no references | well-formedness, selection, one assumption, references point back, the walk along dependencies ends, edits keep texts and lines together |
| `widget_text` | 2 premises, 2 steps, 1 subproof, no references, 2 texts | finding: a new line shows the text of a deleted one |
| `xml_round_trip` | 3 premises, 2 steps, 2 subproofs, 1 reference per step, 4 rules of which two have one name | opening a saved proof gives the same lines, order, nesting and references, and rules of the same names |
| `checker` | one or two equations of 52; 5178 laws with an expression each; 13 exercises over three propositions, over predicates on two objects, and over three numbers, with proofs of up to 5 lines | unification, normal forms, rewriting and rules (below) |
| `unify_order` | two equations | finding: the list `unify` returns, applied in its order, need not unify |
| `exists_elim` | one exercise of 4 lines | finding: the skolem constant may be free in the existential premise |
| `tabs` | 2 files, 3 opens, 1 tab made by the menu beside the example and the first blank one | tabs, texts and saved proofs (below) |

Why the bounds are enough for the interesting cases: a length of 4 with 3 values has
repeated elements on both sides of every cursor position; two subproofs are nested or
siblings, so removal recurses or leaves something behind (and the theorem
`PooledStructure` covers every depth); two steps and a subproof are what a circular
argument needs (a step cites a subproof whose step cites it back); two premises are one
at the top level and one assumption, which a step outside its subproof could misuse; two
goals separate one goal from all goals; three premises in the widget are the top level
and two nested subproofs, or two siblings of which the later cites the earlier, the case
in which the order of subproofs in a file matters. The numbers of a step in a file are
looked up one by one, so one reference per step shows what each number can mean (the
theorem `SavedProofIsOpened` covers sets of them). Keys are bounded (`MaxPrems`,
`MaxSteps`, `MaxSubs`), and within the bounds every key is freed and used again. Three
files in flight can finish in every order with one of them failing; one file has the
name of a tab that the menu makes, so names clash. Two objects tell the quantifiers
apart and falsify a generalisation from one object; three propositions are as many as
the patterns have variables; proofs of five lines contain a subproof with a step that
depends on a line outside.

`checker` asks three things. *Unification*: the pairs of a success unify when they are
applied in the order they were found in (`SolvedUnifies`; in the order they are returned
in they need not, finding 4), a failure means that no assignment of small terms does
(`FailsOnlyIfUnsolvable`), alpha-equal sides unify with nothing bound
(`AlphaEqualSolved`), and the call returns (`Returns`). *Normal forms*: outside
`LawFails` every pass keeps the meaning (`MeaningKept`), the passes end (`StopsSoon`),
sorting is canonical (`SortedIsCanonical`), and numbering bound variables identifies
exactly alpha-equivalent expressions (`ComparesUpToAlpha`). *Proofs*: in a proof without
a step of `RuleFails`, every accepted step follows from the premises and the open
assumptions (`Sound`); a rule that accepts a step accepts it with its lines in any other
order, three lines in all six (`OrderIrrelevant`). `LawFails` and `RuleFails` are the
exceptions of the section below; expressions and steps that fall under them are among
the inputs.

`tabs` shows that saving panics only when every tab is closed
(`PanicsOnlyWithoutTabs`), that the closure never blocks the page (`NeverBlocks`), that
a tab shows the text of a file of its name (`TextsMatchNames`), that files which
finish in order are all opened (`ReadInOrderIsOpened`), that a registered widget is
that of an open tab (`LinksAreOpen`), that the proof which is saved is the one
shown unless two tabs shared a name (`SavesShownProof`), and that the first blank
proof appears (`FirstProofAppears`).

The `widget` and `xml_round_trip` runs identify states that differ only in entries
nothing in the run reads (the views in `MCProofWidget` and `MCXmlInterop`). `widget`
also cuts off (`OneText`) states in which texts that parse meet a second subproof or
references: no guard and no property reads both, and `MessagesKeepTexts` is proved
without the bound.

**Fairness.** `ZipperVec!FairSpec` and `Grader!FairGraderSpec` assume weak fairness
of the steps of a running call and of the program: both are straight-line code
of one thread, and an input file is finite. Clients are not assumed to make
calls. In `Checker`, a call of `unify` that was made goes on (`UnifyGoesOn`, which
is weak fairness of `UnifyNext` written without ENABLED). In `AppTabs` the framework
handles messages that were sent (weak fairness of `Handle`), while clicks and the
end of reading a file may never come. No other run uses fairness.

**Deadlock** is checked except where the program may stop: the grader ends, a call
of the checker returns or its proof is complete, and the page halts after a panic.

## Findings

1. `ZipperVec::get` reads the reversed suffix without reversing the index.
   `iter()` and `pop()` disagree with it as soon as two entries are behind the
   cursor. `LinedProof::add_line` uses it.
2. The grader rejects a proof in which the goal is stated twice and only the
   second statement is valid; its comment speaks of *some* conclusion.
3. Deleting a subproof in the editor leaves the texts of its lines, and keys are
   used again: a new line appears with the text of a deleted one although the
   proof holds the empty expression there.
4. `unify` adds the pair it found after the call for the remaining equations has
   returned, so the list it returns starts with the pair found last, and
   `Substitution::apply` applies it from the start. From *x = y* and *_|_ = y* it may return
   *y -> _|_* before *x -> y*, which makes *_|_ = y* of the first equation instead of an
   identity; its comment promises a list that makes the sides equal. The rules match
   with one variable or with patterns whose variables do not occur in what is
   matched, so the order does not show there.
5. `ExistsElim` checks the skolem constant against what the subproof's line depends
   on outside the subproof, but not against the existential premise itself, which
   the conclusion depends on as well. From *some x R(x, a)*, assuming *R(a, a)*, the
   program accepts *some y R(y, y)*.

### What the code is known to get wrong

`MeaningKept` and `Sound` are false of some expressions and steps, and do not claim
otherwise: `Exceptions` names these cases, by law (`LawFails`) and by rule
(`RuleFails`), and the properties speak of all others. For each case `MCChecker`
assumes, and TLC evaluates, an example in which it really occurs: an expression that
the law gives another meaning (`LawsFail`), or a step that the rule accepts and that a
structure refutes (`RulesFail`); for `ExistsElim` that is the run `exists_elim`. No
document of the repository says more of them than that the rule is what its name says,
so they are not findings of a run.

- `Idempotence`, `Absorption`, `Adjacency` and `Reduction` collect operands in a set,
  also those of a biconditional: *A <-> A* becomes *A*;
- `normalize_reduction` adds what is left of a dual operand term by term, and drops
  negations of quantifiers;
- a tautology below a disjunction becomes a contradiction in `CnfExpr::or`, so
  `TruthFunctionalConsequence` accepts too much;
- `PrenexLaws` ends by moving universal quantifiers in front of existential ones;
- `quantifier_inference` weakens below a negation, in an antecedent and in a
  biconditional too;
- `BiconditionalIntro` reads a premise *A <-> B <-> C* as if all three were
  equivalent; `BiconditionalElim` drops every occurrence of a term (*B <-> B* with
  *B <-> C* gives *C*);
- `HalfDeMorgan` weakens the conclusion as well as the premise, and accepts *~A* to
  *~(A | B)*;
- `Resolution` removes a complementary pair even if it stands within one of the clauses;
- `BiconditionalSubstitution` replaces under quantifiers without renaming;
- `ExistsElim`, when its constant is free in the existential premise.

What else the models are restricted to:

- `normalize_complement` gives outcomes that depend on the order of a hash set; a rule
  that uses it is taken to accept whatever it may accept;
- `subst` renames a bound variable apart from the replacement only, so *x0* may be
  captured when a bound *x* is renamed; `replacing_bound_vars` assumes that no name is
  a number, `freevarsify_pattern` that no bound variable has the name of a pattern
  variable; the inputs have no such names;
- `unifies_wrt_var` asserts identity, and stops the program on sides that are equal
  only up to bound names; a rule is taken to reject there;
- the patterns of `DISTRIBUTION` point in both directions and would loop together; the
  rule uses one pattern at a time, and so does the run.

In the window, a file that finishes out of order, or after one that failed, is
dropped or opened one file late, tabs of one name share a registration, and
closing a tab left of the current one changes which tab is shown; the properties
of `tabs` state what holds nevertheless.

## Proofs

Every theorem holds for every value of the constants that satisfies the named
assumptions; the last column says which ones matter beyond the natural bounds.

| Theorem | States | Module | Assumes |
|---|---|---|---|
| `ZipperTypeCorrect`, `ZipperScans` | `[]TypeOK`, `[]ScanInv` | `ZipperVecProofs` | `None \notin Values` |
| `ZipperRefinesPlainList` | `Spec => Plain!Spec` | `ZipperVecProofs` | the same |
| `LoopsAlwaysMove`, `LoopsCountDown` | `[]NothingIsMissing`, the action property `CallAdvances` | `ZipperVecProofs` | the same |
| `PooledTypeCorrect`, `PooledStructure`, `PooledReferences` | `[]TypeOK`, `[]Structure`, `[]References` | `PooledProofProofs` | |
| `PooledEditsKeepOrder` | the action property `EditsKeepOrder` | `PooledProofProofs` | |
| `PooledReasoning` | `[]Reasoning` | `PooledReasoningProofs` | |
| `GraderEditsProof` | `GraderSpec` implies the specification of `PooledProof` | `GraderProofs` | types of `Exprs`, `Goals`, `InstructorPremises` |
| `GraderProgress`, `GraderValidatedIsGrounded` | `[]Progress`, `[]ValidatedIsGrounded` | `GraderProofs` | the same |
| `GraderGivesRightVerdict` | `GraderSpec => Promise!Spec`, the refinement of `Verdict` | `GraderProofs` | the same |
| `GraderIsSound` | `[]AcceptedFollows` | `GraderProofs` | the same |
| `GraderLoopDescends`, `GraderLoopEnds` | the action property `Descends`, `[]LoopEnds` | `GraderProofs` | the same |
| `WidgetTypeCorrect`, `SelectionIsLive`, `SubproofsHaveOneAssumption`, `ReferencesPointBack` | `[]WidgetTypeOK`, `[]SelectedIsLive`, `[]OneAssumption`, `[]RefsPointBack` | `ProofWidgetProofs` | `InputsAssumption`; room for one premise |
| `EditorWalkEnds` | `[]DependencyWalkEnds` | `ProofWidgetProofs` | the same |
| `MessagesKeepTexts` | the action property `EditsKeepTexts` | `ProofWidgetProofs` | the same |
| `ReaderNeverPanics`, `SavedProofIsOpened` | `[]ReaderOK`, `[]RoundTrip` | `XmlInteropProofs` | the same, `ContentsAssumption`, and `RulesAssumption`: every rule is declared once, and has a name that others may have too |
| `TabsNeverOutOfRange`, `NeverWaitsForName`, `NamesFollowTexts`, `OrderedFilesAreOpened`, `NoStaleLinks`, `SavesWhatIsShown` | `[]PanicsOnlyWithoutTabs`, `[]NeverBlocks`, `[]TextsMatchNames`, `[]ReadInOrderIsOpened`, `[]LinksAreOpen`, `[]SavesShownProof` | `AppTabsProofs` | `TextsAssumption`: files with one text have one name, and no file has the text of a tab the program makes itself |

*Lists.* `ListOpsProofs` says what `Without`, `PlacedAt` and `InsertRelative` return:
their entries, that nothing is doubled, and that the entries both lists have keep
their order. Removal is counted (`Without` takes the entry with k kept entries
before it to place k + 1), so the facts follow from cardinalities, without induction
on the list.

*ZipperVec.* The invariant is inductive as stated: the clause about the scan
(everything passed differs from `rel`) is what makes the place where a scan stops
the place `InsertRelative` chooses, and the clause that a `move` phase of an
insertion means an empty list covers the early branch. Refinement then says
that cursor steps leave `iter` unchanged, and that the last step of each call is
the step of the plain list. `inc_cursor` and `dec_cursor` do nothing when there is
nothing to move, and a loop around them would then turn for ever. `NothingMissing`
excludes that: the target of a move is a position of the list. So the number of
iterations a call has left at most (`Left`; of `move_cursor` exactly the distance its
comment promises) falls by one with each.

*PooledProof.* The inductive invariant is `WellFormed`, the conjunction of types,
`ListedOnce`, `NestingEnds` and `NoDanglingRefs`; none of them is inductive alone:
a removed subproof's lines are found through the lists (so removal needs
`ListedOnce`), a fresh key must not be in any list (types), and a line inserted
next to another goes to the list of that line's parent. Each operation has a
lemma; removal of a subproof rests on the fact that everything found through
the lists of nested subproofs is closed under parenthood in both directions.
`EditsKeepOrder` follows list by list from the lemmas of `ListOpsProofs`.

*Reasoning.* A proof has finitely many subproofs (`FewSubproofs`, kept by every
edit). Take a set of steps that rest on each other. From the top level, go into
the first entry that is, or contains, a step of the set; since nesting ends, this
arrives at a step, the first in reading order. What it rests on is earlier at
some level, so it is not in the set. `transitive_parents`, `nested_subproofs` and the
lists are related by their closures only, so no induction on the depth is needed.

*Grader.* `Progress` says that what has been visited is valid, and that what it
needs is visited or still to come. The verdict needs the other direction too, and
this is not about the lines seen: any set that is valid all the way down and contains
the first step stating the goal contains every line visited or queued (`Judged`). So
a queued line that fails shows that there is no such set, and when the queue is
empty the visited lines are one; since the first match is unique
(`FirstMatchIsUnique`), the refinement of `Verdict` follows: reading is a stutter of the
verdict, and each way out of the loop decides it.

For `ValidatedIsGrounded` the visited lines must be valid in every phase
(`VisitedValid`); then it is an instance of the argument above. `GraderIsSound` adds
scope to it. Suppose that a step of the supporting set is false though all assumptions
around it are true. Among such steps, one rests on none of the others (`Grounded`).
What it cites is in scope, hence under assumptions that are around it as well
(`CitedIsAround`), and true by this choice; a subproof it cites keeps its promise, since
its steps have only its own assumptions in addition. So the step is not sound
(`ValidIsTrue`). A goal is at the top level, where the assumptions are the premises.

The loop pops a line and pushes lines that are read before it (`PushedIsEarlier`):
that is `Descends`. It does not end the loop by itself, as a line may be pushed any
number of times. Suppose an endless run. Some lines are popped again and again; of
those take the latest in the reading order, by the number of lines before it. Only
later lines could push it, and they are popped finitely often, so from some point on
its number in `q` only falls, and falls again and again (`CannotKeepFalling`).

*Proof widget.* The inductive invariant `WidgetInv` joins `WellFormed`, the one
assumption of each subproof, that every reference is in scope, that the proof has
finitely many lines, that the selection is live and that each line has the number
its place gives it. Scope survives an edit because no operation moves an entry
within its list (`KeepsPlaces`) or to another parent (`KeepsParents`). Numbers then
point back because the reading order is a strict order (`BeforeIsStrict`), what a
step rests on comes before it (`RestsOnEarlier`), and so more lines come before the
step than before what it rests on. `transitive_dependencies` also enters subproofs and
follows lines nobody verified, so order among steps is not enough: what it looks at
next is before, or inside, what it looks at (`WalkGoesBack`), which is a strict order on
steps and subproofs together (`ReadFirstIsStrict`). As each subproof has its own
assumption there are finitely many (`AssumptionsCount`), so any set of steps and
subproofs has one from which the walk leaves the set (`WalkEndsInScope`).

*Files.* The invariant `XmlInv` says for each phase what file and maps stand for. While
the writer runs (`Writes`), ids stand for different subproofs, the file tells of
the things `xs` one by one, and `xs` is all that is directly in a subproof no longer
queued. While the reader runs (`Reads`), the rest of the file tells of what is left,
and the proof built so far is a copy of the part that was read (`Copied`: an
injection `f`, every list the front of the saved one, texts and references carried
by `f`). The order of the file (`Ordered`) carries the argument. Whatever a thing
needs is read before it: its subproof, what is earlier in its list, what it rests
on. And what would spoil it is not: a subproof has the number of its assumption,
so a step that refers to a subproof is read rightly only while that assumption is
unread. It is unread because the queue is taken from its end, so that a subproof
before one that waits waits nearer to the front (`LaterWaits`) and is written
later. In the other direction, a step that refers to the first line of a subproof
is in that subproof (`InScope`), and `add_step` drops references to subproofs around
the step; no other number has two meanings (`NumbersTell`, `RefsApart`). The bounds of
the model never stop the reader: keys are given out in order and the saved proof
fits below the bounds (`Fits`, `Packed`, `KeyLeft`). The copy is one up to rules: what is
read for a rule is the first that is declared with its name (`RuleRead`), which has
the same name again. `XmlInv` quantifies over the
meaning of ids and over the order, so TLC does not evaluate it; it checks what
follows from it.

*Tabs.* The messages in the queue carry promises, which the invariants collect:
a message of a click is alone in the queue (`QueueInv`), so the index it carries is
still that of a tab (`TabsInv`); fewer readers can still finish than names wait in
the channel (`ReadersInv`); a request for a tab has the name and text of one file
(`TextsInv`); while files finish in order the waiting names are those of the files
to come (`OrderInv`); a registered widget, or one about to be, has a tab, unless the
message that says it was closed is on its way (`LinksInv`); and while names are
distinct every widget of a tab is registered or about to be (`Tidy`, `SavesInv`).

Only model-checked:

- liveness under fairness (`CallsReturn`, `Terminates`, `FirstProofAppears`), which is
  out of this prover's reach. The safety half of the first two is proved: a loop of
  a list operation counts down to its end without missing an entry, and no proof
  lets the loop of the grader go on for ever;
- everything about expressions, rewriting and rules: the functions of `expr.rs` are
  recursive over trees, and what a recursive definition computes for every input
  is out of the provers' reach. (Arguments about the numbers, by the least
  counterexample, are not: `LeastNat`.)

`GraderLoopEnds` is about the loop of `validate_recursive`. Inside one of its iterations
the check of a quantifier rule calls `transitive_dependencies`. In the editor that walk
ends (`EditorWalkEnds`). In a file that the editor did not write, a step may cite a
subproof that is read after it, while a step in that subproof cites it back, and the
walk goes round; the grader finds such a step out of scope only when it comes to it.
`Grader` has this as `GetStuck`, and `Terminates` says what is left: the run ends with a
verdict, or in a step in scope whose cited subproof really leads into a circle.

## Not modelled

Printing, HTML and error messages; the parser and the macros; metadata of files
(goals are read and never written); `Clone` of a proof; more than 11 subproofs at
once (see above); opening a file in the proof widget (the tabs know only where a
text came from); `LinedProof`, the Java view and the bindings; the theme and the
palette of symbols; what the framework does with two elements of one key; the
tables of `equivs.rs` and the functions of `expr.rs` that no rule uses (`ABSORPTION`,
`COMPLEMENT`, `NEGATION`, `BICONDITIONAL_COMMUTATION`, `_ASSOCIATION`, `_SUBSTITUTION`,
`transform_set`, `eval`, `infer_arities`).

## Plan

Done: lists, pools, grader, widget, files, window, expressions, rewriting, rules;
proofs of every safety property except those about expressions and rules.
Left, in this order:

1. *Rules in the grader*: `Accepts` in place of the Boolean that stands for a rule's
   verdict.
2. *LinedProof*, composed with the step-level list, including its use of `get`.
3. *Clone*: the pools a cloned subproof points to.
