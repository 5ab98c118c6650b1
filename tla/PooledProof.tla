---------------------------- MODULE PooledProof ----------------------------
(***************************************************************************)
(* aris/src/proofs/pooledproof.rs: a natural-deduction proof as pools of   *)
(* premises, justified steps and subproofs, addressed by keys, plus, for   *)
(* the top level and for every subproof, the ordered lists of the keys in  *)
(* it.  The lists are ZipperVecs, modelled by the plain lists that         *)
(* ZipperVecProofs shows them to implement.                                *)
(*                                                                         *)
(* A reference is a kind and a key.  What a line says (its expression, and *)
(* for a step its rule) is an opaque member of Exprs; the Vecs of          *)
(* dependencies of a step are sets, since only membership in them matters. *)
(***************************************************************************)
EXTENDS ListOps

CONSTANTS Exprs,    \* what a line may say
          MaxPrems, \* bound: keys of premises are below this
          MaxSteps, \* bound: keys of steps are below this
          MaxSubs,  \* bound: keys of subproofs are below this
          MaxRefs   \* bound: a client gives a step at most this many references

ASSUME MaxLinesAssumption == MaxPrems \in Nat /\ MaxSteps \in Nat
(* A BTreeMap node holds 11 entries.  Up to that many subproofs sub_map is *)
(* one node, and an insertion at its end moves no entry, as add_subproof   *)
(* needs: it holds a reference into sub_map across the insertion.          *)
ASSUME MaxSubsAssumption == MaxSubs \in 0 .. 11
ASSUME MaxRefsAssumption == MaxRefs \in Nat

PremRefs == {"prem"} \X Nat
JustRefs == {"just"} \X Nat
SubRefs == {"sub"} \X Nat

(* The top-level proof; as a parent it stands for None.                    *)
Root == <<"root", 0>>

-----------------------------------------------------------------------------
(* Partial functions (BTreeMap), and the closure of a set of nodes under   *)
(* the successors of its members.                                          *)

Put(f, x, v) == [y \in DOMAIN f \cup {x} |-> IF y = x THEN v ELSE f[y]]
Drop(f, S) == [y \in DOMAIN f \ S |-> f[y]]

IsClosed(succ, C) == \A c \in C : succ[c] \subseteq C
Closure(succ, S) ==
  {v \in DOMAIN succ :
     \A C \in SUBSET DOMAIN succ : S \subseteq C /\ IsClosed(succ, C) => v \in C}

-----------------------------------------------------------------------------
(* Reading a proof p.                                                      *)

Prems(p) == DOMAIN p.prem_map
Justs(p) == DOMAIN p.just_map
Subs(p) == DOMAIN p.line_list \ {Root}
Lines(p) == Prems(p) \cup Justs(p)
Live(p) == Lines(p) \cup Subs(p)

parent_of(p, x) ==
  IF x \in DOMAIN p.containing_subproof THEN p.containing_subproof[x] ELSE Root

(* The subproofs around x, found by following parents to the top level.    *)
transitive_parents(p, x) ==
  LET up == [s \in Subs(p) |-> {parent_of(p, s)} \ {Root}]
  IN  Closure(up, {parent_of(p, x)} \ {Root})

(* s and the subproofs inside it, found through the lists of lines: the    *)
(* calls that remove_subproof(s) makes.                                    *)
nested_subproofs(p, s) ==
  LET down == [t \in Subs(p) |-> Entries(p.line_list[t]) \cap Subs(p)]
  IN  Closure(down, {s})

(* Fault: x itself counts as earlier.                                      *)
EarlierOrSame(p, x) ==
  LET s == parent_of(p, x)
      all == p.premise_list[s] \o p.line_list[s]
  IN  {all[i] : i \in {i \in DOMAIN all : \A j \in 1 .. i - 1 : all[j] # x}}

(* What comes before x in the list that x is in, or all of that list when  *)
(* x is not in it.                                                         *)
Earlier(p, x) ==
  LET s == parent_of(p, x)
      all == p.premise_list[s] \o p.line_list[s]
  IN  {all[i] : i \in {i \in DOMAIN all : \A j \in 1 .. i : all[j] # x}}

(* What line r may refer to: the walk goes from r to the top level and     *)
(* stops, at each level, at the subproof it came from.                     *)
possible_deps_for_line(p, r) ==
  UNION {Earlier(p, x) : x \in {r} \cup transitive_parents(p, r)}

can_reference_dep(p, r, x) == x \in possible_deps_for_line(p, r)

(* The part of verify_line that is not the rule's own check.               *)
RefsInScope(p, j) ==
  \A x \in p.just_map[j].deps \cup p.just_map[j].sdeps : can_reference_dep(p, j, x)

(* The steps directly or deeper inside a subproof.                         *)
contained_justifications(p, s) ==
  {j \in Justs(p) : \E t \in nested_subproofs(p, s) : j \in Entries(p.line_list[t])}

(* What transitive_dependencies looks at after a step, its references, or  *)
(* a subproof, all that is listed in it; after a premise it stops.         *)
walked(p, x) ==
  IF x \in Justs(p) THEN p.just_map[x].deps \cup p.just_map[x].sdeps ELSE Entries(p.line_list[x])

-----------------------------------------------------------------------------
(* The operations.  Keys are handed out one above the highest in use.      *)

IsNextKey(D, n) ==
  /\ \A x \in D : x[2] < n
  /\ n # 0 => \E x \in D : x[2] = n - 1

HasNextKey(D, bound) == \E n \in 0 .. bound - 1 : IsNextKey(D, n)
NextKey(D, bound) == CHOOSE n \in 0 .. bound - 1 : IsNextKey(D, n)

next_premkey(p) == <<"prem", NextKey(Prems(p), MaxPrems)>>
next_justkey(p) == <<"just", NextKey(Justs(p), MaxSteps)>>
next_subkey(p) == <<"sub", NextKey(Subs(p), MaxSubs)>>

(* Fault: the parent is not recorded.                                      *)
set_no_parent(owners, x, s) == owners

(* Only a subproof of the pool is recorded as a parent.                    *)
set_parent(owners, x, s) == IF s = Root THEN owners ELSE Put(owners, x, s)

new ==
  [prem_map |-> <<>>, just_map |-> <<>>,
   premise_list |-> [s \in {Root} |-> <<>>], line_list |-> [s \in {Root} |-> <<>>],
   containing_subproof |-> <<>>]

(* In subproof s: add a premise, a step or a subproof x, with list as the  *)
(* new list of s that has it.                                              *)
WithPremise(p, s, x, e, list) ==
  [prem_map |-> Put(p.prem_map, x, e),
   just_map |-> p.just_map,
   premise_list |-> [p.premise_list EXCEPT ![s] = list],
   line_list |-> p.line_list,
   containing_subproof |-> set_parent(p.containing_subproof, x, s)]

WithStep(p, s, x, just, list) ==
  [prem_map |-> p.prem_map,
   just_map |-> Put(p.just_map, x, just),
   premise_list |-> p.premise_list,
   line_list |-> [p.line_list EXCEPT ![s] = list],
   containing_subproof |-> set_parent(p.containing_subproof, x, s)]

WithSubproof(p, s, x, list) ==
  [prem_map |-> p.prem_map,
   just_map |-> p.just_map,
   premise_list |-> Put(p.premise_list, x, <<>>),
   line_list |-> Put([p.line_list EXCEPT ![s] = list], x, <<>>),
   containing_subproof |-> set_parent(p.containing_subproof, x, s)]

add_premise(p, s, e) ==
  LET x == next_premkey(p)
  IN  WithPremise(p, s, x, e, Append(p.premise_list[s], x))

add_subproof(p, s) ==
  LET x == next_subkey(p)
  IN  WithSubproof(p, s, x, Append(p.line_list[s], x))

(* References to the subproofs the new step is in are dropped silently.    *)
add_step(p, s, just) ==
  LET x == next_justkey(p)
      around == transitive_parents(p, s) \cup ({s} \ {Root})
      kept == [just EXCEPT !.sdeps = @ \ around]
  IN  WithStep(p, s, x, kept, Append(p.line_list[s], x))

(* The same next to r, in the list r's parent says r is in.                *)
add_premise_relative(p, e, r, after) ==
  LET x == next_premkey(p)
      s == parent_of(p, r)
  IN  WithPremise(p, s, x, e, InsertRelative(p.premise_list[s], x, r, after))

add_subproof_relative(p, r, after) ==
  LET x == next_subkey(p)
      s == parent_of(p, r)
  IN  WithSubproof(p, s, x, InsertRelative(p.line_list[s], x, r, after))

add_step_relative(p, just, r, after) ==
  LET x == next_justkey(p)
      s == parent_of(p, r)
  IN  WithStep(p, s, x, just, InsertRelative(p.line_list[s], x, r, after))

prepend_step(p, s, just) ==
  IF p.line_list[s] = <<>>
  THEN add_step(p, s, just)
  ELSE add_step_relative(p, just, p.line_list[s][1], FALSE)

with_mut_premise(p, r, e) == [p EXCEPT !.prem_map[r] = e]
with_mut_step(p, r, just) == [p EXCEPT !.just_map[r] = just]

(* Fault: references to removed subproofs stay in the steps.               *)
remove_line_helper_keeping_sdeps(p, G, premises, lines) ==
  [prem_map |-> Drop(p.prem_map, G),
   just_map |-> [j \in Justs(p) \ G |->
                   [p.just_map[j] EXCEPT !.deps = @ \ G]],
   premise_list |-> premises,
   line_list |-> lines,
   containing_subproof |-> Drop(p.containing_subproof, G)]

(* The pools without the references in G; the lists are premises and       *)
(* lines, which the callers have cleaned.                                  *)
remove_line_helper(p, G, premises, lines) ==
  [prem_map |-> Drop(p.prem_map, G),
   just_map |-> [j \in Justs(p) \ G |->
                   [expr |-> p.just_map[j].expr,
                    deps |-> p.just_map[j].deps \ G, sdeps |-> p.just_map[j].sdeps \ G]],
   premise_list |-> premises,
   line_list |-> lines,
   containing_subproof |-> Drop(p.containing_subproof, G)]

(* Fault: a cleaned list is rebuilt back to front.                         *)
remove_line_reversing(p, self, r) ==
  LET reversed(list) == [i \in DOMAIN list |-> list[Len(list) + 1 - i]]
      cleaned(lists) ==
        [s \in DOMAIN lists |->
           IF s = Root /\ self # Root THEN lists[s] ELSE reversed(Without(lists[s], {r}))]
  IN  remove_line_helper(p, {r}, cleaned(p.premise_list), cleaned(p.line_list))

(* The pools clean the lists of the subproofs; only the top-level proof    *)
(* cleans its own lists.                                                   *)
remove_line(p, self, r) ==
  LET cleaned(lists) ==
        [s \in DOMAIN lists |->
           IF s = Root /\ self # Root THEN lists[s] ELSE Without(lists[s], {r})]
  IN  remove_line_helper(p, {r}, cleaned(p.premise_list), cleaned(p.line_list))

(* Fault: removal does not descend into nested subproofs.                  *)
directly_inside(p, s) == {s} \cup Entries(p.premise_list[s]) \cup Entries(p.line_list[s])

(* Called on the top-level proof: s goes from its list, and s with all     *)
(* that is in it from the pools and from the lists of the other subproofs. *)
inside(p, s) ==
  LET D == nested_subproofs(p, s)
  IN  D \cup UNION {Entries(p.premise_list[t]) \cup Entries(p.line_list[t]) : t \in D}

remove_subproof(p, s) ==
  LET G == inside(p, s)
  IN  remove_line_helper(p, G,
        [t \in DOMAIN p.premise_list \ G |->
           IF t = Root THEN p.premise_list[t] ELSE Without(p.premise_list[t], G)],
        [t \in DOMAIN p.line_list \ G |->
           Without(p.line_list[t], IF t = Root THEN {s} ELSE G)])

-----------------------------------------------------------------------------
(* A proof edited through the trait.  Clients hand over references to what *)
(* is in the proof, in any order: nothing but verify_line looks at where a *)
(* referenced line stands.                                                 *)

VARIABLE proof

(* The steps a client may write.                                           *)
Justifications(p) ==
  {just \in [expr : Exprs, deps : SUBSET Lines(p), sdeps : SUBSET Subs(p)] :
     Cardinality(just.deps) + Cardinality(just.sdeps) <= MaxRefs}

RoomForPremise == HasNextKey(Prems(proof), MaxPrems)
RoomForStep == HasNextKey(Justs(proof), MaxSteps)
RoomForSubproof == HasNextKey(Subs(proof), MaxSubs)

Init == proof = new

AddPremise(s, e) == RoomForPremise /\ proof' = add_premise(proof, s, e)
AddSubproof(s) == RoomForSubproof /\ proof' = add_subproof(proof, s)
AddStep(s, just) == RoomForStep /\ proof' = add_step(proof, s, just)
PrependStep(s, just) == RoomForStep /\ proof' = prepend_step(proof, s, just)

AddPremiseRelative(e, r, after) ==
  RoomForPremise /\ proof' = add_premise_relative(proof, e, r, after)
AddSubproofRelative(r, after) ==
  RoomForSubproof /\ proof' = add_subproof_relative(proof, r, after)
AddStepRelative(just, r, after) ==
  RoomForStep /\ proof' = add_step_relative(proof, just, r, after)

SetPremise(r, e) == proof' = with_mut_premise(proof, r, e)
SetStep(r, just) == proof' = with_mut_step(proof, r, just)

(* The caller holds the top-level proof or the subproof the line is in.    *)
RemoveLine(r, self) == self \in {Root, parent_of(proof, r)} /\ proof' = remove_line(proof, self, r)
RemoveSubproof(s) == proof' = remove_subproof(proof, s)

Next ==
  \/ \E s \in Subs(proof) \cup {Root} :
       \/ \E e \in Exprs : AddPremise(s, e)
       \/ AddSubproof(s)
       \/ \E just \in Justifications(proof) : AddStep(s, just) \/ PrependStep(s, just)
  \/ \E after \in BOOLEAN :
       \/ \E r \in Prems(proof), e \in Exprs : AddPremiseRelative(e, r, after)
       \/ \E r \in Justs(proof) \cup Subs(proof) :
            \/ AddSubproofRelative(r, after)
            \/ \E just \in Justifications(proof) : AddStepRelative(just, r, after)
  \/ \E r \in Prems(proof), e \in Exprs : SetPremise(r, e)
  \/ \E r \in Justs(proof), just \in Justifications(proof) : SetStep(r, just)
  \/ \E r \in Lines(proof), self \in Subs(proof) \cup {Root} : RemoveLine(r, self)
  \/ \E s \in Subs(proof) : RemoveSubproof(s)

Spec == Init /\ [][Next]_proof

-----------------------------------------------------------------------------
(* Properties.  They are stated of a proof p, so that the components that  *)
(* edit one can use them.                                                  *)

(* Every list holds live references only, and every parent is a live       *)
(* subproof: no lookup that the code unwraps can fail.                     *)
ProofType(p) ==
  /\ p = [prem_map |-> p.prem_map, just_map |-> p.just_map,
          premise_list |-> p.premise_list, line_list |-> p.line_list,
          containing_subproof |-> p.containing_subproof]
  /\ Prems(p) \subseteq PremRefs /\ Justs(p) \subseteq JustRefs /\ Subs(p) \subseteq SubRefs
  /\ Root \in DOMAIN p.line_list
  /\ p.prem_map \in [Prems(p) -> Exprs]
  /\ p.just_map \in [Justs(p) -> [expr : Exprs, deps : SUBSET (PremRefs \cup JustRefs),
                                  sdeps : SUBSET SubRefs]]
  /\ p.premise_list \in [Subs(p) \cup {Root} -> Seq(Prems(p))]
  /\ p.line_list \in [Subs(p) \cup {Root} -> Seq(Justs(p) \cup Subs(p))]
  /\ p.containing_subproof \in [DOMAIN p.containing_subproof -> Subs(p)]
  /\ DOMAIN p.containing_subproof \subseteq Live(p)

(* The lists and the record of parents, kept apart, agree: what is in the  *)
(* pools is in one list, once, and it is the list of its recorded parent.  *)
ListedOnce(p) ==
  \A s \in Subs(p) \cup {Root} :
    /\ NoRepeats(p.premise_list[s]) /\ NoRepeats(p.line_list[s])
    /\ Entries(p.premise_list[s]) = {x \in Prems(p) : parent_of(p, x) = s}
    /\ Entries(p.line_list[s]) = {x \in Justs(p) \cup Subs(p) : parent_of(p, x) = s}

(* A step refers to nothing that was removed, however it was removed.      *)
NoDanglingRefs(p) ==
  \A j \in Justs(p) :
    /\ p.just_map[j].deps \subseteq Lines(p)
    /\ p.just_map[j].sdeps \subseteq Subs(p)

(* Subproofs are nested: no chain of parents runs in a circle, so the      *)
(* loops of transitive_parents and depth_of_line end.                      *)
NestingEnds(p) ==
  \A S \in SUBSET Subs(p) : S # {} => \E s \in S : parent_of(p, s) \notin S

(* The lines and steps that step j rests on: its dependencies, and every   *)
(* step inside a subproof it cites.                                        *)
RestsOn(p, j) ==
  p.just_map[j].deps
    \cup UNION {contained_justifications(p, s) : s \in p.just_map[j].sdeps}

(* Steps whose references verify_line accepts never rest on each other in  *)
(* a circle: no step is, through others, a reason for itself.              *)
NoCircularReasoning(p) ==
  \A S \in SUBSET {j \in Justs(p) : RefsInScope(p, j)} :
    S # {} => \E j \in S : RestsOn(p, j) \cap S = {}

(* The walk of transitive_dependencies, which keeps no record of where it  *)
(* has been, ends: whatever it looks at, it cannot go on among the same    *)
(* steps and subproofs for ever.                                           *)
WalkEnds(p) ==
  \A S \in SUBSET (Justs(p) \cup Subs(p)) :
    S # {} => \E x \in S : walked(p, x) \cap S = {}

TypeOK == ProofType(proof)
Structure == ListedOnce(proof) /\ NestingEnds(proof)
References == NoDanglingRefs(proof)
Reasoning == NoCircularReasoning(proof)

(* An edit only adds or removes: what is there before and after it keeps   *)
(* its list and its place among the others of that list.                   *)
KeepsOrder ==
  \A s \in (Subs(proof) \cup {Root}) \cap (Subs(proof)' \cup {Root}) :
    LET gone == Live(proof) \ Live(proof)'
        added == Live(proof)' \ Live(proof)
    IN  /\ Without(proof.premise_list[s], gone) = Without(proof'.premise_list[s], added)
        /\ Without(proof.line_list[s], gone) = Without(proof'.line_list[s], added)

EditsKeepOrder == [][KeepsOrder]_proof
=============================================================================
