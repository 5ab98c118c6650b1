------------------------- MODULE ProofWidgetProofs -------------------------
(***************************************************************************)
(* The editor keeps its proof in the shape its rules and badges count on,  *)
(* its selection on a line that exists, and the text of a line with what   *)
(* the proof holds there, for every set of expressions and texts and every *)
(* bound.                                                                  *)
(***************************************************************************)
EXTENDS ProofWidget, PooledReasoningProofs

(* The expression that the proof holds on line r.                          *)
Held(p, r) == IF r \in Prems(p) THEN p.prem_map[r].says ELSE p.just_map[r].expr.says

(* From p to q, the lines of p that are in q say what they said.           *)
KeepsLines(p, q) ==
  \A r \in Lines(p) \cap Lines(q) : Held(q, r) = Held(p, r) /\ (r \in Prems(q) <=> r \in Prems(p))

(* Every subproof has one premise, and the top level at least one.         *)
Assumes(p) ==
  /\ \A s \in Subs(p) : Len(p.premise_list[s]) = 1
  /\ Len(p.premise_list[Root]) >= 1

(* Every reference of a step is to what the step may refer to.             *)
InScope(p) == \A j \in Justs(p) : RefsInScope(p, j)

(* From p to q, no step gets a reference; and what stays keeps its parent  *)
(* and its place.                                                          *)
RefsKept(p, q) ==
  \A j \in Justs(q) :
    \/ /\ j \in Justs(p)
       /\ q.just_map[j].deps \subseteq p.just_map[j].deps
       /\ q.just_map[j].sdeps \subseteq p.just_map[j].sdeps
    \/ q.just_map[j].deps = {} /\ q.just_map[j].sdeps = {}

KeepsRefs(p, q) == KeepsPlaces(p, q) /\ KeepsParents(p, q) /\ RefsKept(p, q)

Steps(p) == [expr : Exprs, deps : SUBSET Lines(p), sdeps : SUBSET Subs(p)]

-----------------------------------------------------------------------------
(* The operations the editor calls.                                        *)

(* What a well-formed proof says about its lists and kinds.                *)
LEMMA Shape ==
  ASSUME NEW p, WellFormed(p)
  PROVE  /\ DOMAIN p.premise_list = Owners(p) /\ DOMAIN p.line_list = Owners(p)
         /\ Root \notin Subs(p) /\ Prems(p) \cap Justs(p) = {} /\ Lines(p) \cap Owners(p) = {}
         /\ \A r : parent_of(p, r) \in Owners(p)
         /\ \A j \in Justs(p) : p.just_map[j] \in Steps(p)
  <1>1. ProofType(p) /\ NoDanglingRefs(p)
    BY DEF WellFormed
  <1>2. /\ DOMAIN p.premise_list = Owners(p) /\ DOMAIN p.line_list = Owners(p)
        /\ \A r : parent_of(p, r) \in Owners(p)
    BY <1>1 DEF ProofType, Owners, parent_of
  <1>3. Root \notin Subs(p) /\ Prems(p) \cap Justs(p) = {} /\ Lines(p) \cap Owners(p) = {}
    BY <1>1, KindsDisjoint DEF ProofType, Owners, Subs, Lines
  <1>4. ASSUME NEW j \in Justs(p) PROVE p.just_map[j] \in Steps(p)
    <2> DEFINE just == p.just_map[j]
    <2>1. just \in [expr : Exprs, deps : SUBSET (PremRefs \cup JustRefs), sdeps : SUBSET SubRefs]
      BY <1>1 DEF ProofType
    <2>2. just.deps \subseteq Lines(p) /\ just.sdeps \subseteq Subs(p)
      BY <1>1 DEF NoDanglingRefs
    <2> HIDE DEF just
    <2>3. just \in Steps(p)
      BY <2>1, <2>2 DEF Steps
    <2> QED BY <2>3 DEF just
  <1> QED BY <1>2, <1>3, <1>4

(* Such an edit takes no reference out of scope.                           *)
LEMMA ScopeKept ==
  ASSUME NEW p, WellFormed(p), NEW q, WellFormed(q), KeepsRefs(p, q), InScope(p)
  PROVE  InScope(q)
  <1> SUFFICES ASSUME NEW j \in Justs(q), NEW d \in q.just_map[j].deps \cup q.just_map[j].sdeps
               PROVE  can_reference_dep(q, j, d)
    BY DEF InScope, RefsInScope
  <1>1. j \in Justs(p) /\ d \in p.just_map[j].deps \cup p.just_map[j].sdeps
    BY DEF KeepsRefs, RefsKept
  <1>2. can_reference_dep(p, j, d)
    BY <1>1 DEF InScope, RefsInScope
  <1>3. d \in Live(p) /\ d \in Live(q)
    BY <1>1 DEF WellFormed, NoDanglingRefs, Live
  <1>4. j \in Live(p) /\ j \in Live(q)
    BY <1>1 DEF Live, Lines
  <1> QED BY <1>2, <1>3, <1>4, ScopeStays DEF KeepsRefs

(* What an addition does to the parents and to the references of others.   *)
LEMMA AdditionParents ==
  ASSUME NEW p, WellFormed(p), NEW s, NEW x, x \notin Live(p), NEW list
  PROVE  /\ \A e : LET q == WithPremise(p, s, x, e, list)
                   IN  KeepsParents(p, q) /\ RefsKept(p, q)
         /\ \A just : LET q == WithStep(p, s, x, just, list)
                      IN  /\ KeepsParents(p, q)
                          /\ just.deps = {} /\ just.sdeps = {} => RefsKept(p, q)
         /\ LET q == WithSubproof(p, s, x, list)
            IN  KeepsParents(p, q) /\ RefsKept(p, q)
  <1>1. ASSUME NEW q, q.containing_subproof = set_parent(p.containing_subproof, x, s)
        PROVE  KeepsParents(p, q)
    BY <1>1 DEF KeepsParents, parent_of, set_parent, Put
  <1>2. ASSUME NEW q, q.just_map = p.just_map PROVE RefsKept(p, q)
    BY <1>2 DEF RefsKept, Justs
  <1>3. ASSUME NEW q, NEW just, q.just_map = Put(p.just_map, x, just), just.deps = {}, just.sdeps = {}
        PROVE  RefsKept(p, q)
    <2> SUFFICES ASSUME NEW j \in Justs(q)
                 PROVE  \/ j \in Justs(p) /\ q.just_map[j] = p.just_map[j]
                        \/ q.just_map[j] = just
      BY <1>3 DEF RefsKept
    <2> QED BY <1>3 DEF Put, Justs
  <1>4. \A e : LET q == WithPremise(p, s, x, e, list)
               IN  /\ q.containing_subproof = set_parent(p.containing_subproof, x, s)
                   /\ q.just_map = p.just_map
    BY DEF WithPremise
  <1>5. \A just : LET q == WithStep(p, s, x, just, list)
                  IN  /\ q.containing_subproof = set_parent(p.containing_subproof, x, s)
                      /\ q.just_map = Put(p.just_map, x, just)
    BY DEF WithStep
  <1>6. LET q == WithSubproof(p, s, x, list)
        IN  /\ q.containing_subproof = set_parent(p.containing_subproof, x, s)
            /\ q.just_map = p.just_map
    BY DEF WithSubproof
  <1>7. \A e : LET q == WithPremise(p, s, x, e, list)
               IN  KeepsParents(p, q) /\ RefsKept(p, q)
    BY <1>1, <1>2, <1>4
  <1>8. \A just : LET q == WithStep(p, s, x, just, list)
                  IN  /\ KeepsParents(p, q)
                      /\ just.deps = {} /\ just.sdeps = {} => RefsKept(p, q)
    BY <1>1, <1>3, <1>5
  <1>9. LET q == WithSubproof(p, s, x, list)
        IN  KeepsParents(p, q) /\ RefsKept(p, q)
    BY <1>1, <1>2, <1>6
  <1> QED BY <1>7, <1>8, <1>9

(* A premise is added.                                                     *)
LEMMA WithPremiseEffect ==
  ASSUME NEW p, WellFormed(p), NEW s \in Owners(p), NEW x \in PremRefs \ Prems(p), NEW e, NEW list
  PROVE  LET q == WithPremise(p, s, x, e, list)
         IN  /\ Prems(q) = Prems(p) \cup {x} /\ Justs(q) = Justs(p) /\ Subs(q) = Subs(p)
             /\ KeepsLines(p, q)
             /\ \A t \in Owners(p) : q.premise_list[t] = IF t = s THEN list ELSE p.premise_list[t]
  <1> DEFINE q == WithPremise(p, s, x, e, list)
  <1>1. /\ q.prem_map = Put(p.prem_map, x, e) /\ q.just_map = p.just_map
        /\ q.premise_list = [p.premise_list EXCEPT ![s] = list]
        /\ q.line_list = p.line_list
    BY DEF WithPremise
  <1> HIDE DEF q
  <1>2. Prems(q) = Prems(p) \cup {x} /\ Justs(q) = Justs(p) /\ Subs(q) = Subs(p)
    BY <1>1 DEF Prems, Justs, Subs, Put
  <1>3. x \notin Lines(p)
    BY KindsDisjoint DEF WellFormed, ProofType, Lines
  <1>4. ASSUME NEW r \in Lines(p)
        PROVE  Held(q, r) = Held(p, r) /\ (r \in Prems(q) <=> r \in Prems(p))
    <2>1. r # x
      BY <1>3
    <2>2. r \in Prems(p) => q.prem_map[r] = p.prem_map[r]
      BY <1>1, <2>1 DEF Put, Prems
    <2> QED BY <1>1, <1>2, <2>1, <2>2 DEF Held
  <1>5. \A t \in Owners(p) : q.premise_list[t] = IF t = s THEN list ELSE p.premise_list[t]
    BY <1>1, Shape
  <1> QED BY <1>2, <1>4, <1>5 DEF KeepsLines, q

(* A step is added.                                                        *)
LEMMA WithStepEffect ==
  ASSUME NEW p, WellFormed(p), NEW s, NEW x \in JustRefs \ Justs(p), NEW just, NEW list
  PROVE  LET q == WithStep(p, s, x, just, list)
         IN  /\ Prems(q) = Prems(p) /\ Justs(q) = Justs(p) \cup {x} /\ Subs(q) = Subs(p)
             /\ KeepsLines(p, q)
             /\ q.premise_list = p.premise_list
  <1> DEFINE q == WithStep(p, s, x, just, list)
  <1>1. /\ q.prem_map = p.prem_map /\ q.just_map = Put(p.just_map, x, just)
        /\ q.premise_list = p.premise_list
        /\ q.line_list = [p.line_list EXCEPT ![s] = list]
    BY DEF WithStep
  <1> HIDE DEF q
  <1>2. Prems(q) = Prems(p) /\ Justs(q) = Justs(p) \cup {x} /\ Subs(q) = Subs(p)
    BY <1>1 DEF Prems, Justs, Subs, Put
  <1>3. x \notin Lines(p)
    BY KindsDisjoint DEF WellFormed, ProofType, Lines
  <1>4. ASSUME NEW r \in Lines(p)
        PROVE  Held(q, r) = Held(p, r) /\ (r \in Prems(q) <=> r \in Prems(p))
    <2>1. r # x
      BY <1>3
    <2>2. r \in Justs(p) => q.just_map[r] = p.just_map[r]
      BY <1>1, <2>1 DEF Put, Justs
    <2> QED BY <1>1, <1>2, <2>1, <2>2 DEF Held, Lines
  <1> QED BY <1>1, <1>2, <1>4 DEF KeepsLines, q

(* A subproof is added.                                                    *)
LEMMA WithSubproofEffect ==
  ASSUME NEW p, WellFormed(p), NEW s, NEW x \in SubRefs \ Subs(p), NEW list
  PROVE  LET q == WithSubproof(p, s, x, list)
         IN  /\ Prems(q) = Prems(p) /\ Justs(q) = Justs(p) /\ Subs(q) = Subs(p) \cup {x}
             /\ KeepsLines(p, q)
             /\ q.premise_list[x] = <<>>
             /\ \A t \in Owners(p) : t # x /\ q.premise_list[t] = p.premise_list[t]
  <1> DEFINE q == WithSubproof(p, s, x, list)
  <1>1. /\ q.prem_map = p.prem_map /\ q.just_map = p.just_map
        /\ q.premise_list = Put(p.premise_list, x, <<>>)
        /\ q.line_list = Put([p.line_list EXCEPT ![s] = list], x, <<>>)
    BY DEF WithSubproof
  <1> HIDE DEF q
  <1>2. x # Root /\ x \notin Owners(p)
    BY KindsDisjoint DEF Owners
  <1>3. Prems(q) = Prems(p) /\ Justs(q) = Justs(p) /\ Subs(q) = Subs(p) \cup {x}
    BY <1>1, <1>2 DEF Prems, Justs, Subs, Put
  <1>4. KeepsLines(p, q)
    BY <1>1, <1>3 DEF KeepsLines, Held
  <1>5. q.premise_list[x] = <<>> /\ \A t \in Owners(p) : q.premise_list[t] = p.premise_list[t]
    BY <1>1, <1>2, Shape DEF Put
  <1> QED BY <1>2, <1>3, <1>4, <1>5 DEF q

(* A premise is rewritten.                                                 *)
LEMMA SetPremiseEffect ==
  ASSUME NEW p, WellFormed(p), NEW r \in Prems(p), NEW e
  PROVE  LET q == with_mut_premise(p, r, e)
         IN  /\ Prems(q) = Prems(p) /\ Justs(q) = Justs(p) /\ Subs(q) = Subs(p)
             /\ q.premise_list = p.premise_list /\ KeepsRefs(p, q)
             /\ Held(q, r) = e.says /\ \A x \in Lines(p) : x # r => Held(q, x) = Held(p, x)
  <1> DEFINE q == with_mut_premise(p, r, e)
  <1>1. /\ q.prem_map = [p.prem_map EXCEPT ![r] = e] /\ q.just_map = p.just_map
        /\ q.premise_list = p.premise_list /\ q.line_list = p.line_list
        /\ q.containing_subproof = p.containing_subproof
    <2>1. p = [prem_map |-> p.prem_map, just_map |-> p.just_map,
               premise_list |-> p.premise_list, line_list |-> p.line_list,
               containing_subproof |-> p.containing_subproof]
      BY DEF WellFormed, ProofType
    <2> QED BY <2>1 DEF with_mut_premise
  <1>0. KeepsPlaces(p, q)
    BY RewritingKeeps
  <1> HIDE DEF q
  <1>2. Prems(q) = Prems(p) /\ Justs(q) = Justs(p) /\ Subs(q) = Subs(p)
    BY <1>1 DEF Prems, Justs, Subs
  <1>3. q.prem_map[r] = e /\ \A x \in Prems(p) : x # r => q.prem_map[x] = p.prem_map[x]
    BY <1>1 DEF Prems
  <1>4. Held(q, r) = e.says /\ \A x \in Lines(p) : x # r => Held(q, x) = Held(p, x)
    BY <1>1, <1>2, <1>3 DEF Held
  <1>5. KeepsRefs(p, q)
    BY <1>0, <1>1, <1>2 DEF KeepsRefs, KeepsParents, RefsKept, parent_of
  <1> QED BY <1>1, <1>2, <1>4, <1>5 DEF q

(* A step is rewritten.                                                    *)
StepRewritten(p, q, r, just) ==
  /\ Prems(q) = Prems(p) /\ Justs(q) = Justs(p) /\ Subs(q) = Subs(p)
  /\ q.premise_list = p.premise_list
  /\ Held(q, r) = just.expr.says /\ \A x \in Lines(p) : x # r => Held(q, x) = Held(p, x)
  /\ KeepsPlaces(p, q) /\ KeepsParents(p, q)
  /\ q.just_map[r] = just /\ \A j \in Justs(p) : j # r => q.just_map[j] = p.just_map[j]

(* with_mut_step.                                                          *)
LEMMA SetStepEffect ==
  ASSUME NEW p, WellFormed(p), NEW r \in Justs(p), NEW just
  PROVE  StepRewritten(p, with_mut_step(p, r, just), r, just)
  <1> DEFINE q == with_mut_step(p, r, just)
  <1>1. /\ q.prem_map = p.prem_map /\ q.just_map = [p.just_map EXCEPT ![r] = just]
        /\ q.premise_list = p.premise_list /\ q.line_list = p.line_list
        /\ q.containing_subproof = p.containing_subproof
    <2>1. p = [prem_map |-> p.prem_map, just_map |-> p.just_map,
               premise_list |-> p.premise_list, line_list |-> p.line_list,
               containing_subproof |-> p.containing_subproof]
      BY DEF WellFormed, ProofType
    <2> QED BY <2>1 DEF with_mut_step
  <1>0. KeepsPlaces(p, q)
    BY RewritingKeeps
  <1> HIDE DEF q
  <1>2. Prems(q) = Prems(p) /\ Justs(q) = Justs(p) /\ Subs(q) = Subs(p)
    BY <1>1 DEF Prems, Justs, Subs
  <1>3. q.just_map[r] = just /\ \A x \in Justs(p) : x # r => q.just_map[x] = p.just_map[x]
    BY <1>1 DEF Justs
  <1>4. r \notin Prems(q)
    BY <1>2, Shape
  <1>5. Held(q, r) = just.expr.says /\ \A x \in Lines(p) : x # r => Held(q, x) = Held(p, x)
    BY <1>1, <1>2, <1>3, <1>4 DEF Held, Lines
  <1>6. KeepsParents(p, q)
    BY <1>1 DEF KeepsParents, parent_of
  <1>7. StepRewritten(p, q, r, just)
    BY <1>0, <1>1, <1>2, <1>3, <1>5, <1>6 DEF StepRewritten
  <1> QED BY <1>7 DEF q

(* Lines are removed from the pools.                                       *)
LEMMA RemovalEffect ==
  ASSUME NEW p, WellFormed(p), NEW G, NEW premises, NEW lines
  PROVE  LET q == remove_line_helper(p, G, premises, lines)
         IN  /\ Prems(q) = Prems(p) \ G /\ Justs(q) = Justs(p) \ G
             /\ q.premise_list = premises /\ q.line_list = lines
             /\ KeepsLines(p, q) /\ RefsKept(p, q)
             /\ \A y : y \notin G => parent_of(q, y) = parent_of(p, y)
  <1> DEFINE q == remove_line_helper(p, G, premises, lines)
  <1>1. /\ q.prem_map = Drop(p.prem_map, G)
        /\ q.just_map = [j \in Justs(p) \ G |->
                           [expr |-> p.just_map[j].expr,
                            deps |-> p.just_map[j].deps \ G, sdeps |-> p.just_map[j].sdeps \ G]]
        /\ q.premise_list = premises /\ q.line_list = lines
        /\ q.containing_subproof = Drop(p.containing_subproof, G)
    BY DEF remove_line_helper
  <1> HIDE DEF q
  <1>2. Prems(q) = Prems(p) \ G /\ Justs(q) = Justs(p) \ G
    BY <1>1 DEF Prems, Justs, Drop
  <1>3. \A x \in Prems(q) : q.prem_map[x] = p.prem_map[x]
    BY <1>1, <1>2 DEF Prems, Drop
  <1>4. \A x \in Justs(q) : q.just_map[x].expr = p.just_map[x].expr
    BY <1>1, <1>2
  <1>5. ASSUME NEW r \in Lines(p) \cap Lines(q)
        PROVE  Held(q, r) = Held(p, r) /\ (r \in Prems(q) <=> r \in Prems(p))
    <2>1. r \in Prems(q) <=> r \in Prems(p)
      BY <1>2, Shape DEF Lines
    <2> QED BY <2>1, <1>3, <1>4 DEF Held, Lines
  <1>6. RefsKept(p, q)
    <2>1. \A j \in Justs(q) : /\ q.just_map[j].deps = p.just_map[j].deps \ G
                              /\ q.just_map[j].sdeps = p.just_map[j].sdeps \ G
      BY <1>1, <1>2
    <2> QED BY <1>2, <2>1 DEF RefsKept
  <1>7. \A y : y \notin G => parent_of(q, y) = parent_of(p, y)
    BY <1>1 DEF parent_of, Drop
  <1> QED BY <1>1, <1>2, <1>5, <1>6, <1>7 DEF KeepsLines, q

(* The list of two or more entries is not empty without one of them.       *)
LEMMA WithoutOneLeaves ==
  ASSUME NEW T, NEW s \in Seq(T), NoRepeats(s), NEW r, Len(s) > 1
  PROVE  Len(Without(s, {r})) >= 1
  <1> DEFINE X == {r}
             w == Without(s, X)
  <1>1. w \in Seq(T) /\ Entries(w) = Entries(s) \ X
    BY WithoutProperties
  <1>2. 1 \in DOMAIN s /\ 2 \in DOMAIN s
    OBVIOUS
  <1>3. s[1] # s[2]
    BY <1>2 DEF NoRepeats
  <1>4. s[1] \in Entries(s) /\ s[2] \in Entries(s)
    BY <1>2 DEF Entries
  <1> HIDE DEF w
  <1>5. PICK x \in Entries(s) : x # r
    BY <1>3, <1>4
  <1>6. PICK i \in DOMAIN w : w[i] = x
    BY <1>1, <1>5 DEF Entries
  <1>7. Len(w) >= 1
    BY <1>1, <1>6
  <1> QED BY <1>7 DEF w

(* remove_line on a line that the editor lets go.                          *)
LEMMA RemoveLineEffect ==
  ASSUME NEW p, WellFormed(p), NEW r \in Lines(p)
  PROVE  LET q == remove_line(p, parent_of(p, r), r)
         IN  /\ Lines(q) = Lines(p) \ {r} /\ Subs(q) = Subs(p)
             /\ KeepsLines(p, q) /\ KeepsRefs(p, q)
             /\ \A t \in Owners(p) :
                  q.premise_list[t] = IF r \in Prems(p) /\ t = parent_of(p, r)
                                      THEN Without(p.premise_list[t], {r}) ELSE p.premise_list[t]
  <1> DEFINE self == parent_of(p, r)
             Cleaned(lists) ==
               [s \in DOMAIN lists |->
                  IF s = Root /\ self # Root THEN lists[s] ELSE Without(lists[s], {r})]
             premises == Cleaned(p.premise_list)
             lines == Cleaned(p.line_list)
             G == {r}
             q == remove_line_helper(p, G, premises, lines)
  <1>1. remove_line(p, self, r) = q
    BY DEF remove_line
  <1>2. /\ DOMAIN premises = Owners(p) /\ DOMAIN lines = Owners(p)
        /\ \A t \in Owners(p) : premises[t] = IF t = Root /\ self # Root THEN p.premise_list[t]
                                              ELSE Without(p.premise_list[t], G)
    BY Shape
  <1> HIDE DEF premises, lines, G
  <1>3. /\ Prems(q) = Prems(p) \ G /\ Justs(q) = Justs(p) \ G
        /\ q.premise_list = premises /\ q.line_list = lines
        /\ KeepsLines(p, q) /\ RefsKept(p, q)
        /\ \A y : y \notin G => parent_of(q, y) = parent_of(p, y)
    BY RemovalEffect
  <1>k. KeepsPlaces(p, q)
    <2> HIDE DEF q
    <2> QED BY <1>1, RemovingKeeps
  <1> HIDE DEF q, self
  <1>4. Lines(q) = Lines(p) \ G /\ Subs(q) = Subs(p)
    BY <1>2, <1>3, Shape DEF Lines, Subs, Owners
  <1>5. ASSUME NEW t \in Owners(p)
        PROVE  q.premise_list[t] = IF r \in Prems(p) /\ t = self
                                   THEN Without(p.premise_list[t], G) ELSE p.premise_list[t]
    <2> DEFINE old == p.premise_list[t]
    <2>1. old \in Seq(Prems(p)) /\ Entries(old) = {x \in Prems(p) : parent_of(p, x) = t}
      BY DEF WellFormed, ProofType, ListedOnce, Owners
    <2> HIDE DEF old
    <2>2. ~(r \in Prems(p) /\ t = self) => Entries(old) \cap G = {}
      BY <2>1 DEF self, G
    <2>3. ~(r \in Prems(p) /\ t = self) => Without(old, G) = old
      BY <2>1, <2>2, WithoutNone
    <2> QED BY <1>2, <1>3, <2>3 DEF old
  <1>6. KeepsRefs(p, q)
    <2>1. \A y \in Live(q) : y \notin G
      BY <1>4, Shape DEF Live, Owners, G
    <2> QED BY <1>3, <1>k, <2>1 DEF KeepsRefs, KeepsParents
  <1> QED BY <1>1, <1>3, <1>4, <1>5, <1>6 DEF self, G

(* remove_subproof: the lists of the other subproofs keep their premises.  *)
LEMMA RemoveSubproofEffect ==
  ASSUME NEW p, WellFormed(p), NEW s \in Subs(p)
  PROVE  LET q == remove_subproof(p, s)
         IN  /\ Lines(q) \subseteq Lines(p) /\ Subs(q) \subseteq Subs(p)
             /\ KeepsLines(p, q) /\ KeepsRefs(p, q)
             /\ \A t \in Owners(q) : q.premise_list[t] = p.premise_list[t]
  <1> DEFINE G == inside(p, s)
             premises == [t \in DOMAIN p.premise_list \ G |->
                            IF t = Root THEN p.premise_list[t]
                                        ELSE Without(p.premise_list[t], G)]
             lines == [t \in DOMAIN p.line_list \ G |->
                         Without(p.line_list[t], IF t = Root THEN {s} ELSE G)]
             q == remove_line_helper(p, G, premises, lines)
  <1>1. remove_subproof(p, s) = q
    BY DEF remove_subproof
  <1>2. /\ DOMAIN premises = Owners(p) \ G /\ DOMAIN lines = Owners(p) \ G
        /\ \A t \in Owners(p) \ G : premises[t] = IF t = Root THEN p.premise_list[t]
                                                  ELSE Without(p.premise_list[t], G)
    BY Shape
  <1> HIDE DEF premises, lines
  <1>3. /\ Prems(q) = Prems(p) \ G /\ Justs(q) = Justs(p) \ G
        /\ q.premise_list = premises /\ q.line_list = lines
        /\ KeepsLines(p, q) /\ RefsKept(p, q)
        /\ \A y : y \notin G => parent_of(q, y) = parent_of(p, y)
    BY RemovalEffect
  <1>k. KeepsPlaces(p, q)
    <2> HIDE DEF q
    <2> QED BY <1>1, RemovingKeeps
  <1>4. /\ Root \notin G /\ \A y \in Prems(p) : y \in G => parent_of(p, y) \in G
    <2>1. Root \notin G
      BY InsideSubproof
    <2>2. ASSUME NEW y \in Prems(p), y \in G PROVE parent_of(p, y) \in G
      <3> DEFINE D == nested_subproofs(p, s)
      <3>1. D \subseteq Subs(p)
        BY NestedSubproofs
      <3>2. y \notin D
        BY <3>1, KindsDisjoint DEF WellFormed, ProofType
      <3> HIDE DEF D
      <3>3. G = D \cup UNION {Entries(p.premise_list[t]) \cup Entries(p.line_list[t]) : t \in D}
        BY DEF inside, D
      <3>4. PICK t \in D : y \in Entries(p.premise_list[t]) \cup Entries(p.line_list[t])
        BY <2>2, <3>2, <3>3
      <3>5. parent_of(p, y) = t
        BY <3>1, <3>4 DEF WellFormed, ListedOnce
      <3> QED BY <3>3, <3>4, <3>5
    <2> QED BY <2>1, <2>2
  <1> HIDE DEF q, G
  <1>5. Lines(q) \subseteq Lines(p) /\ Subs(q) \subseteq Subs(p) /\ Owners(q) \subseteq Owners(p) \ G
    BY <1>2, <1>3, <1>4 DEF Lines, Subs, Owners
  <1>6. ASSUME NEW t \in Owners(p) \ G PROVE premises[t] = p.premise_list[t]
    <2> DEFINE old == p.premise_list[t]
    <2>1. old \in Seq(Prems(p)) /\ Entries(old) = {x \in Prems(p) : parent_of(p, x) = t}
      BY DEF WellFormed, ProofType, ListedOnce, Owners
    <2> HIDE DEF old
    <2>2. Entries(old) \cap G = {}
      BY <1>4, <2>1
    <2>3. Without(old, G) = old
      BY <2>1, <2>2, WithoutNone
    <2> QED BY <1>2, <2>3 DEF old
  <1>7. KeepsRefs(p, q)
    <2>1. \A y \in Live(q) : y \notin G
      BY <1>3, <1>5 DEF Live, Lines, Owners
    <2> QED BY <1>3, <1>k, <2>1 DEF KeepsRefs, KeepsParents
  <1> QED BY <1>1, <1>3, <1>5, <1>6, <1>7

-----------------------------------------------------------------------------
(* The calls that add, on a proof with a key left to hand out.             *)

PremiseAdded(p, q, s) ==
  /\ WellFormed(q) /\ KeepsLines(p, q) /\ KeepsRefs(p, q)
  /\ Prems(q) = Prems(p) \cup {next_premkey(p)} /\ Justs(q) = Justs(p) /\ Subs(q) = Subs(p)
  /\ \A t \in Owners(p) \ {s} : q.premise_list[t] = p.premise_list[t]
  /\ Len(q.premise_list[s]) = Len(p.premise_list[s]) + 1

StepAdded(p, q) ==
  /\ WellFormed(q) /\ KeepsLines(p, q) /\ KeepsRefs(p, q)
  /\ Prems(q) = Prems(p) /\ Justs(q) = Justs(p) \cup {next_justkey(p)} /\ Subs(q) = Subs(p)
  /\ q.premise_list = p.premise_list

SubproofAdded(p, q) ==
  /\ WellFormed(q) /\ KeepsLines(p, q) /\ KeepsRefs(p, q)
  /\ Prems(q) = Prems(p) /\ Justs(q) = Justs(p) /\ Subs(q) = Subs(p) \cup {next_subkey(p)}
  /\ next_subkey(p) \notin Owners(p) /\ q.premise_list[next_subkey(p)] = <<>>
  /\ \A t \in Owners(p) : q.premise_list[t] = p.premise_list[t]

(* A list with one more entry is one longer.                               *)
LEMMA GrownByOne ==
  ASSUME NEW T, NEW s \in Seq(T), NoRepeats(s), NEW x
  PROVE  /\ Len(Append(s, x)) = Len(s) + 1
         /\ \A r : \A after \in BOOLEAN : Len(InsertRelative(s, x, r, after)) = Len(s) + 1
  <1> SUFFICES ASSUME NEW r, NEW after \in BOOLEAN
               PROVE  Len(InsertRelative(s, x, r, after)) = Len(s) + 1
    OBVIOUS
  <1> DEFINE U == T \cup {x}
  <1>1. s \in Seq(U) /\ x \in U
    OBVIOUS
  <1> HIDE DEF U
  <1>2. PICK c \in 0 .. Len(s) : IsPlaceOf(s, r, c)
    BY <1>1, PlaceExists
  <1> DEFINE d == IF after /\ c < Len(s) THEN c + 1 ELSE c
  <1>3. d \in 0 .. Len(s)
    BY <1>2
  <1>4. InsertRelative(s, x, r, after) = PlacedAt(s, x, d)
    BY <1>1, <1>2, InsertRelativeAt
  <1> HIDE DEF d
  <1> QED BY <1>1, <1>3, <1>4, PlacedAtValues

(* add_premise and add_premise_relative.                                   *)
LEMMA AddPremiseEffect ==
  ASSUME NEW p, WellFormed(p), HasNextKey(Prems(p), MaxPrems), NEW e \in Exprs
  PROVE  /\ \A s \in Owners(p) : PremiseAdded(p, add_premise(p, s, e), s)
         /\ \A r : \A after \in BOOLEAN :
              PremiseAdded(p, add_premise_relative(p, e, r, after), parent_of(p, r))
  <1> DEFINE x == next_premkey(p)
  <1>1. x \in PremRefs \ Prems(p)
    BY FreshKeys
  <1> HIDE DEF x
  <1>0. x \notin Live(p)
    BY <1>1, KindsDisjoint DEF WellFormed, ProofType, Live, Lines
  <1>2. ASSUME NEW s \in Owners(p), NEW list, Len(list) = Len(p.premise_list[s]) + 1,
               WellFormed(WithPremise(p, s, x, e, list)),
               KeepsPlaces(p, WithPremise(p, s, x, e, list))
        PROVE  PremiseAdded(p, WithPremise(p, s, x, e, list), s)
    <2> DEFINE q == WithPremise(p, s, x, e, list)
    <2>1. /\ Prems(q) = Prems(p) \cup {x} /\ Justs(q) = Justs(p) /\ Subs(q) = Subs(p)
          /\ KeepsLines(p, q)
          /\ \A t \in Owners(p) : q.premise_list[t] = IF t = s THEN list ELSE p.premise_list[t]
      BY <1>1, WithPremiseEffect
    <2>2. WellFormed(q) /\ KeepsRefs(p, q)
      BY <1>0, <1>2, AdditionParents DEF KeepsRefs
    <2> HIDE DEF q
    <2>3. PremiseAdded(p, q, s)
      BY <1>2, <2>1, <2>2 DEF PremiseAdded, x
    <2> QED BY <2>3 DEF q
  <1>3. \A t \in Owners(p) : p.premise_list[t] \in Seq(Prems(p)) /\ NoRepeats(p.premise_list[t])
    BY DEF WellFormed, ProofType, ListedOnce, Owners
  <1>4. ASSUME NEW s \in Owners(p) PROVE PremiseAdded(p, add_premise(p, s, e), s)
    <2>1. /\ WellFormed(WithPremise(p, s, x, e, Append(p.premise_list[s], x)))
          /\ KeepsPlaces(p, WithPremise(p, s, x, e, Append(p.premise_list[s], x)))
      BY AddPremiseWF, AddingKeeps DEF add_premise, x
    <2>2. Len(Append(p.premise_list[s], x)) = Len(p.premise_list[s]) + 1
      BY <1>3, GrownByOne
    <2>3. PremiseAdded(p, WithPremise(p, s, x, e, Append(p.premise_list[s], x)), s)
      BY <1>2, <2>1, <2>2
    <2> QED BY <2>3 DEF add_premise, x
  <1>5. ASSUME NEW r, NEW after \in BOOLEAN
        PROVE  PremiseAdded(p, add_premise_relative(p, e, r, after), parent_of(p, r))
    <2> DEFINE s == parent_of(p, r)
               list == InsertRelative(p.premise_list[s], x, r, after)
    <2>1. WellFormed(WithPremise(p, s, x, e, list)) /\ KeepsPlaces(p, WithPremise(p, s, x, e, list))
      BY AddPremiseWF, AddingKeeps DEF add_premise_relative, x
    <2>2. s \in Owners(p)
      BY Shape
    <2>3. add_premise_relative(p, e, r, after) = WithPremise(p, s, x, e, list)
      BY DEF add_premise_relative, x
    <2> HIDE DEF s
    <2>4. Len(list) = Len(p.premise_list[s]) + 1
      BY <1>3, <2>2, GrownByOne
    <2>5. PremiseAdded(p, WithPremise(p, s, x, e, list), s)
      BY <1>2, <2>1, <2>2, <2>4
    <2> QED BY <2>3, <2>5 DEF s
  <1> QED BY <1>4, <1>5

(* add_step_relative and prepend_step, for a step with no references.      *)
LEMMA AddStepEffect ==
  ASSUME NEW p, WellFormed(p), HasNextKey(Justs(p), MaxSteps), NEW just \in Steps(p),
         just.deps = {}, just.sdeps = {}
  PROVE  /\ \A r : \A after \in BOOLEAN : StepAdded(p, add_step_relative(p, just, r, after))
         /\ \A s \in Owners(p) : StepAdded(p, prepend_step(p, s, just))
  <1> DEFINE x == next_justkey(p)
  <1>1. x \in JustRefs \ Justs(p)
    BY FreshKeys
  <1> HIDE DEF x
  <1>0. x \notin Live(p)
    BY <1>1, KindsDisjoint DEF WellFormed, ProofType, Live, Lines
  <1>2. ASSUME NEW s, NEW j, j.deps = {}, j.sdeps = {}, NEW list,
               WellFormed(WithStep(p, s, x, j, list)), KeepsPlaces(p, WithStep(p, s, x, j, list))
        PROVE  StepAdded(p, WithStep(p, s, x, j, list))
    <2> DEFINE q == WithStep(p, s, x, j, list)
    <2>1. /\ Prems(q) = Prems(p) /\ Justs(q) = Justs(p) \cup {x} /\ Subs(q) = Subs(p)
          /\ KeepsLines(p, q) /\ q.premise_list = p.premise_list
      BY <1>1, WithStepEffect
    <2>2. WellFormed(q) /\ KeepsRefs(p, q)
      BY <1>0, <1>2, AdditionParents DEF KeepsRefs
    <2> HIDE DEF q
    <2>3. StepAdded(p, q)
      BY <2>1, <2>2 DEF StepAdded, x
    <2> QED BY <2>3 DEF q
  <1>3. /\ \A s \in Owners(p) :
             WellFormed(add_step(p, s, just)) /\ KeepsPlaces(p, add_step(p, s, just))
        /\ \A r : \A after \in BOOLEAN :
             /\ WellFormed(add_step_relative(p, just, r, after))
             /\ KeepsPlaces(p, add_step_relative(p, just, r, after))
    BY AddStepWF, AddingKeeps DEF Steps
  <1>4. ASSUME NEW r, NEW after \in BOOLEAN PROVE StepAdded(p, add_step_relative(p, just, r, after))
    BY <1>2, <1>3 DEF add_step_relative, x
  <1>5. ASSUME NEW s \in Owners(p) PROVE StepAdded(p, add_step(p, s, just))
    <2> DEFINE around == transitive_parents(p, s) \cup ({s} \ {Root})
               kept == [just EXCEPT !.sdeps = @ \ around]
               list == Append(p.line_list[s], x)
    <2>1. add_step(p, s, just) = WithStep(p, s, x, kept, list)
      BY DEF add_step, x
    <2>2. kept.deps = {} /\ kept.sdeps = {}
      BY DEF Steps
    <2> HIDE DEF kept, list
    <2> QED BY <1>2, <1>3, <2>1, <2>2
  <1>6. ASSUME NEW s \in Owners(p) PROVE StepAdded(p, prepend_step(p, s, just))
    BY <1>4, <1>5 DEF prepend_step
  <1> QED BY <1>4, <1>6

(* add_subproof_relative.                                                  *)
LEMMA AddSubproofEffect ==
  ASSUME NEW p, WellFormed(p), HasNextKey(Subs(p), MaxSubs), NEW r, NEW after \in BOOLEAN
  PROVE  SubproofAdded(p, add_subproof_relative(p, r, after))
  <1> DEFINE x == next_subkey(p)
             s == parent_of(p, r)
             list == InsertRelative(p.line_list[s], x, r, after)
             q == WithSubproof(p, s, x, list)
  <1>1. x \in SubRefs \ Subs(p)
    BY FreshKeys
  <1>2. add_subproof_relative(p, r, after) = q
    BY DEF add_subproof_relative
  <1>3. WellFormed(q) /\ KeepsPlaces(p, q)
    BY <1>2, AddSubproofWF, AddingKeeps
  <1>k. KeepsRefs(p, q)
    <2>1. x \notin Live(p)
      BY <1>1, KindsDisjoint DEF WellFormed, ProofType, Live, Lines
    <2> HIDE DEF x, s, list
    <2> QED BY <1>3, <2>1, AdditionParents DEF KeepsRefs
  <1> HIDE DEF x, s, list
  <1>4. /\ Prems(q) = Prems(p) /\ Justs(q) = Justs(p) /\ Subs(q) = Subs(p) \cup {x}
        /\ KeepsLines(p, q)
        /\ q.premise_list[x] = <<>>
        /\ \A t \in Owners(p) : t # x /\ q.premise_list[t] = p.premise_list[t]
    BY <1>1, WithSubproofEffect
  <1> HIDE DEF q
  <1>5. SubproofAdded(p, q)
    BY <1>3, <1>4, <1>k DEF SubproofAdded, x
  <1> QED BY <1>2, <1>5

-----------------------------------------------------------------------------
(* The messages.                                                           *)

(* The proof is well formed, which the operations need; it has its         *)
(* assumptions and its references in scope; its lines can be counted; and  *)
(* every line has its number.                                              *)
WidgetInv ==
  /\ WellFormed(proof) /\ Assumes(proof) /\ InScope(proof) /\ IsFiniteSet(Lines(proof))
  /\ SelectedIsLive
  /\ Lines(proof) \subseteq DOMAIN ref_to_line_depth
  /\ \A x \in Lines(proof) : Number(x) = LinesBefore(proof, x) + 1

(* The step of EditsKeepTexts.                                             *)
TextStep == \A r \in Lines(proof) \cap Lines(proof)' : TextFits(r) => TextFits(r)'

(* Numbering the lines gives every line a number.                          *)
LEMMA Numbered ==
  \A old, p :
    /\ Lines(p) \subseteq DOMAIN calculate_lineinfo(old, p)
    /\ \A x \in Lines(p) : calculate_lineinfo(old, p)[x][1] = LinesBefore(p, x) + 1
  BY DEF calculate_lineinfo

(* A message that rewrites no line and no text separates none.             *)
LEMMA TextsStay ==
  ASSUME KeepsLines(proof, proof'),
         \A r \in Lines(proof) \cap Lines(proof') :
           r \in DOMAIN ref_to_input' =>
             r \in DOMAIN ref_to_input /\ ref_to_input'[r] = ref_to_input[r]
  PROVE  TextStep
  <1> SUFFICES ASSUME NEW r \in Lines(proof) \cap Lines(proof'), TextFits(r)
               PROVE  TextFits(r)'
    BY DEF TextStep
  <1>1. Held(proof', r) = Held(proof, r)
    BY DEF KeepsLines
  <1> QED BY <1>1 DEF TextFits, Held

(* A well-formed proof with the same lists of premises.                    *)
LEMMA SameAssumptions ==
  ASSUME NEW p, NEW q, Assumes(p), Subs(q) = Subs(p), q.premise_list = p.premise_list
  PROVE  Assumes(q)
  BY DEF Assumes

(* What the editor puts on a premise.                                      *)
LEMMA Premise ==
  /\ \A e \in Formulas : premise(e) \in Exprs /\ premise(e).says = e
  /\ premise(EmptyExpr) \in Exprs
  BY InputsAssumption, ContentsAssumption DEF premise

(* The user types on line r.                                               *)
LEMMA LineChangedStep ==
  ASSUME WidgetInv, NEW r \in Lines(proof), NEW input \in Inputs, LineChanged(r, input)
  PROVE  WidgetInv' /\ TextStep
  <1> DEFINE e == ParseOf[input]
             just == [proof.just_map[r] EXCEPT !.expr.says = e]
  <1>i. /\ WellFormed(proof) /\ Assumes(proof) /\ SelectedIsLive /\ e \in Formulas \cup {None}
        /\ InScope(proof) /\ IsFiniteSet(Lines(proof))
        /\ ref_to_input' = Put(ref_to_input, r, input) /\ selected_line' = selected_line
        /\ ref_to_line_depth' = calculate_lineinfo(ref_to_line_depth, proof')
    BY InputsAssumption DEF WidgetInv, LineChanged, Redraw
  <1>d. Prems(proof) \cap Justs(proof) = {} /\ Lines(proof) = Prems(proof) \cup Justs(proof)
    BY <1>i, Shape DEF Lines
  <1>1. /\ WellFormed(proof') /\ Assumes(proof') /\ InScope(proof')
        /\ Lines(proof') = Lines(proof)
        /\ \A x \in Lines(proof) : x # r => Held(proof', x) = Held(proof, x)
        /\ e # None => Held(proof', r) = e
    <2>1. CASE e = None
      BY <1>i, <2>1 DEF LineChanged
    <2>2. CASE e # None /\ r \in Prems(proof)
      <3>1. proof' = with_mut_premise(proof, r, premise(e))
        BY <2>2, <1>d DEF LineChanged
      <3>p. premise(e) \in Exprs /\ premise(e).says = e
        BY <1>i, <2>2, Premise
      <3> HIDE DEF e
      <3>2. WellFormed(proof')
        BY <1>i, <2>2, <3>1, <3>p, SetPremiseWF
      <3>3. /\ Prems(proof') = Prems(proof) /\ Justs(proof') = Justs(proof)
            /\ Subs(proof') = Subs(proof) /\ proof'.premise_list = proof.premise_list
            /\ Held(proof', r) = e /\ \A x \in Lines(proof) : x # r => Held(proof', x) = Held(proof, x)
            /\ KeepsRefs(proof, proof')
        BY <1>i, <2>2, <3>1, <3>p, SetPremiseEffect
      <3>4. Assumes(proof') /\ Lines(proof') = Lines(proof)
        BY <1>i, <3>3, SameAssumptions DEF Lines
      <3>5. InScope(proof')
        BY <1>i, <3>2, <3>3, ScopeKept
      <3> QED BY <3>2, <3>3, <3>4, <3>5
    <2>3. CASE e # None /\ r \in Justs(proof)
      <3>1. proof' = with_mut_step(proof, r, just)
        BY <2>3, <1>d DEF LineChanged
      <3>2. /\ just \in Steps(proof) /\ just.expr.says = e
            /\ just.deps = proof.just_map[r].deps /\ just.sdeps = proof.just_map[r].sdeps
        <4>1. proof.just_map[r] \in Steps(proof)
          BY <1>i, <2>3, Shape
        <4> HIDE DEF e
        <4> QED BY <1>i, <2>3, <4>1, ContentsAssumption DEF Steps
      <3> HIDE DEF e, just
      <3>3. WellFormed(proof')
        BY <1>i, <2>3, <3>1, <3>2, SetStepWF DEF Steps
      <3>4. /\ Prems(proof') = Prems(proof) /\ Justs(proof') = Justs(proof)
            /\ Subs(proof') = Subs(proof) /\ proof'.premise_list = proof.premise_list
            /\ Held(proof', r) = just.expr.says
            /\ \A x \in Lines(proof) : x # r => Held(proof', x) = Held(proof, x)
            /\ KeepsPlaces(proof, proof') /\ KeepsParents(proof, proof')
            /\ proof'.just_map[r] = just
            /\ \A j \in Justs(proof) : j # r => proof'.just_map[j] = proof.just_map[j]
        <4>1. StepRewritten(proof, proof', r, just)
          BY <1>i, <2>3, <3>1, SetStepEffect
        <4> QED BY <4>1 DEF StepRewritten
      <3>5. Assumes(proof') /\ Lines(proof') = Lines(proof)
        BY <1>i, <3>4, SameAssumptions DEF Lines
      <3>6. RefsKept(proof, proof')
        <4>1. \A j \in Justs(proof) : /\ proof'.just_map[j].deps = proof.just_map[j].deps
                                      /\ proof'.just_map[j].sdeps = proof.just_map[j].sdeps
          BY <3>2, <3>4
        <4> QED BY <3>4, <4>1 DEF RefsKept
      <3>7. InScope(proof')
        BY <1>i, <3>3, <3>4, <3>6, ScopeKept DEF KeepsRefs
      <3> QED BY <3>2, <3>3, <3>4, <3>5, <3>7
    <2> QED BY <2>1, <2>2, <2>3, <1>d
  <1>2. WidgetInv'
    BY <1>i, <1>1, Numbered DEF WidgetInv, SelectedIsLive, Number
  <1>3. TextStep
    <2> SUFFICES ASSUME NEW x \in Lines(proof), TextFits(x) PROVE TextFits(x)'
      BY <1>1 DEF TextStep
    <2>1. CASE x = r
      <3>1. ref_to_input'[x] = input
        BY <1>i, <2>1 DEF Put
      <3> QED BY <1>1, <2>1, <3>1 DEF TextFits, Held
    <2>2. CASE x # r
      <3>1. x \in DOMAIN ref_to_input' =>
              x \in DOMAIN ref_to_input /\ ref_to_input'[x] = ref_to_input[x]
        BY <1>i, <2>2 DEF Put
      <3>2. Held(proof', x) = Held(proof, x)
        BY <1>1, <2>2
      <3> QED BY <3>1, <3>2 DEF TextFits, Held
    <2> QED BY <2>1, <2>2
  <1> QED BY <1>2, <1>3

(* A line is added to the proof and selected.                              *)
LEMMA InsertedStep ==
  ASSUME NEW x, WellFormed(proof'), Assumes(proof'), InScope(proof'), KeepsLines(proof, proof'),
         IsFiniteSet(Lines(proof')), x \in Lines(proof'), Inserted(x)
  PROVE  WidgetInv' /\ TextStep
  <1>1. /\ selected_line' = x /\ ref_to_input' = ref_to_input
        /\ ref_to_line_depth' = calculate_lineinfo(ref_to_line_depth, proof')
    BY DEF Inserted, Redraw
  <1>2. WidgetInv'
    BY <1>1, Numbered DEF WidgetInv, SelectedIsLive, Number
  <1> QED BY <1>1, <1>2, TextsStay

(* A premise is inserted: only at the top level.                           *)
LEMMA InsertPremiseStep ==
  ASSUME WidgetInv, NEW r \in Lines(proof), NEW after \in BOOLEAN, InsertPremise(r, after)
  PROVE  WidgetInv' /\ TextStep
  <1>i. /\ WellFormed(proof) /\ Assumes(proof) /\ InScope(proof) /\ IsFiniteSet(Lines(proof))
        /\ HasNextKey(Prems(proof), MaxPrems)
        /\ premise(EmptyExpr) \in Exprs /\ parent_of(proof, r) = Root /\ Root \in Owners(proof)
    BY Premise DEF WidgetInv, InsertPremise, RoomForPremise, InSubproof, Owners
  <1>1. PremiseAdded(proof, proof', Root)
    BY <1>i, AddPremiseEffect DEF InsertPremise
  <1>2. /\ WellFormed(proof') /\ KeepsLines(proof, proof')
        /\ next_premkey(proof) \in Lines(proof') /\ Subs(proof') = Subs(proof)
        /\ \A t \in Subs(proof) : proof'.premise_list[t] = proof.premise_list[t]
        /\ Len(proof'.premise_list[Root]) = Len(proof.premise_list[Root]) + 1
    BY <1>1, <1>i, Shape DEF PremiseAdded, Lines, Owners
  <1>3. Assumes(proof')
    <2>1. Len(proof'.premise_list[Root]) >= 1
      <3>1. Len(proof.premise_list[Root]) \in Nat
        BY <1>i DEF WellFormed, ProofType
      <3> QED BY <1>2, <3>1
    <2> QED BY <1>i, <1>2, <2>1 DEF Assumes
  <1>4. Inserted(next_premkey(proof))
    BY DEF InsertPremise
  <1>5. InScope(proof') /\ IsFiniteSet(Lines(proof'))
    <2>1. Lines(proof') = Lines(proof) \cup {next_premkey(proof)}
      BY <1>1 DEF PremiseAdded, Lines
    <2>2. InScope(proof')
      BY <1>i, <1>1, ScopeKept DEF PremiseAdded
    <2> QED BY <1>i, <2>1, <2>2, FS_AddElement
  <1> QED BY <1>2, <1>3, <1>4, <1>5, InsertedStep

(* An empty step is one the operations take.                               *)
LEMMA EmptyStep ==
  /\ \A p : new_empty_step \in Steps(p)
  /\ new_empty_step.deps = {} /\ new_empty_step.sdeps = {}
  BY InputsAssumption, ContentsAssumption DEF new_empty_step, Steps

(* A step is inserted.                                                     *)
LEMMA InsertStepStep ==
  ASSUME WidgetInv, NEW r \in Lines(proof), NEW point, NEW after \in BOOLEAN,
         InsertStep(r, point, after)
  PROVE  WidgetInv' /\ TextStep
  <1>i. /\ WellFormed(proof) /\ Assumes(proof) /\ InScope(proof) /\ IsFiniteSet(Lines(proof))
        /\ HasNextKey(Justs(proof), MaxSteps)
        /\ parent_of(proof, r) \in Owners(proof)
    BY Shape DEF WidgetInv, InsertStep, RoomForStep
  <1>1. StepAdded(proof, proof')
    BY <1>i, AddStepEffect, EmptyStep DEF InsertStep
  <1>2. /\ WellFormed(proof') /\ KeepsLines(proof, proof')
        /\ next_justkey(proof) \in Lines(proof')
        /\ Subs(proof') = Subs(proof) /\ proof'.premise_list = proof.premise_list
    BY <1>1 DEF StepAdded, Lines
  <1>3. Assumes(proof')
    BY <1>i, <1>2, SameAssumptions
  <1>4. Inserted(next_justkey(proof))
    BY DEF InsertStep
  <1>5. InScope(proof') /\ IsFiniteSet(Lines(proof'))
    <2>1. Lines(proof') = Lines(proof) \cup {next_justkey(proof)}
      BY <1>1 DEF StepAdded, Lines
    <2>2. InScope(proof')
      BY <1>i, <1>1, ScopeKept DEF StepAdded
    <2> QED BY <1>i, <2>1, <2>2, FS_AddElement
  <1> QED BY <1>2, <1>3, <1>4, <1>5, InsertedStep

(* Additions in a row rewrite nothing.                                     *)
LEMMA KeepsLinesTrans ==
  ASSUME NEW p, NEW q, NEW o, KeepsLines(p, q), KeepsLines(q, o), Lines(p) \subseteq Lines(q)
  PROVE  KeepsLines(p, o)
  BY DEF KeepsLines

(* A subproof is inserted, with an assumption and a step.                  *)
LEMMA InsertSubproofStep ==
  ASSUME WidgetInv, NEW r \in Lines(proof), NEW point, NEW after \in BOOLEAN,
         InsertSubproof(r, point, after)
  PROVE  WidgetInv' /\ TextStep
  <1> DEFINE s == next_subkey(proof)
             p1 == add_subproof_relative(proof, point, after)
             p2 == add_premise(p1, s, premise(EmptyExpr))
             p3 == prepend_step(p2, s, new_empty_step)
  <1>i. /\ WellFormed(proof) /\ Assumes(proof) /\ premise(EmptyExpr) \in Exprs
        /\ InScope(proof) /\ IsFiniteSet(Lines(proof))
        /\ HasNextKey(Prems(proof), MaxPrems) /\ HasNextKey(Justs(proof), MaxSteps)
        /\ HasNextKey(Subs(proof), MaxSubs)
        /\ proof' = p3 /\ Inserted(next_premkey(proof))
    BY Premise
       DEF WidgetInv, InsertSubproof, RoomForPremise, RoomForStep, RoomForSubproof
  <1>1. SubproofAdded(proof, p1)
    BY <1>i, AddSubproofEffect
  <1> HIDE DEF s, p1
  <1>2. /\ WellFormed(p1) /\ HasNextKey(Prems(p1), MaxPrems) /\ HasNextKey(Justs(p1), MaxSteps)
        /\ s \in Owners(p1) /\ next_premkey(p1) = next_premkey(proof)
        /\ Lines(p1) = Lines(proof)
    BY <1>i, <1>1 DEF SubproofAdded, Owners, Lines, next_premkey, s
  <1>3. PremiseAdded(p1, p2, s)
    BY <1>i, <1>2, AddPremiseEffect
  <1> HIDE DEF p2
  <1>4. /\ WellFormed(p2) /\ HasNextKey(Justs(p2), MaxSteps) /\ s \in Owners(p2)
        /\ Lines(p1) \subseteq Lines(p2) /\ next_premkey(proof) \in Prems(p2)
    BY <1>2, <1>3 DEF PremiseAdded, Owners, Lines
  <1>5. StepAdded(p2, p3)
    BY <1>4, AddStepEffect, EmptyStep
  <1> HIDE DEF p3
  <1>6. KeepsLines(proof, p3)
    <2>1. KeepsLines(proof, p1) /\ KeepsLines(p1, p2) /\ KeepsLines(p2, p3)
      BY <1>1, <1>3, <1>5 DEF SubproofAdded, PremiseAdded, StepAdded
    <2>2. KeepsLines(proof, p2)
      BY <1>2, <2>1, KeepsLinesTrans
    <2> QED BY <1>2, <1>4, <2>1, <2>2, KeepsLinesTrans
  <1>7. Assumes(p3)
    <2>1. /\ Subs(p3) = Subs(proof) \cup {s} /\ p3.premise_list = p2.premise_list
          /\ s \notin Owners(proof)
      BY <1>1, <1>3, <1>5 DEF SubproofAdded, PremiseAdded, StepAdded, s
    <2>2. \A t \in Owners(proof) : p3.premise_list[t] = proof.premise_list[t]
      BY <1>1, <1>3, <2>1 DEF SubproofAdded, PremiseAdded, Owners
    <2>3. Len(p3.premise_list[s]) = 1
      <3>1. p1.premise_list[s] = <<>> /\ Len(p2.premise_list[s]) = Len(p1.premise_list[s]) + 1
        BY <1>1, <1>3 DEF SubproofAdded, PremiseAdded, s
      <3> QED BY <2>1, <3>1
    <2> QED BY <1>i, <2>1, <2>2, <2>3 DEF Assumes, Owners
  <1>8. WellFormed(p3) /\ next_premkey(proof) \in Lines(p3)
    BY <1>4, <1>5 DEF StepAdded, Lines
  <1>9. InScope(p3)
    <2>1. InScope(p1)
      BY <1>i, <1>1, <1>2, ScopeKept DEF SubproofAdded
    <2>2. InScope(p2)
      BY <1>2, <1>3, <1>4, <2>1, ScopeKept DEF PremiseAdded
    <2> QED BY <1>4, <1>5, <1>8, <2>2, ScopeKept DEF StepAdded
  <1>10. IsFiniteSet(Lines(p3))
    <2>1. Lines(p2) = Lines(proof) \cup {next_premkey(p1)}
      BY <1>2, <1>3 DEF PremiseAdded, Lines
    <2>2. Lines(p3) = Lines(p2) \cup {next_justkey(p2)}
      BY <1>5 DEF StepAdded, Lines
    <2>3. IsFiniteSet(Lines(p2))
      BY <1>i, <2>1, FS_AddElement
    <2> QED BY <2>2, <2>3, FS_AddElement
  <1> QED BY <1>i, <1>6, <1>7, <1>8, <1>9, <1>10, InsertedStep

(* A line is deleted, with its text: an assumption of a subproof is not    *)
(* offered, nor the last premise of the top level.                         *)
LEMMA DeleteLineStep ==
  ASSUME WidgetInv, NEW r \in Lines(proof), DeleteLine(r)
  PROVE  WidgetInv' /\ TextStep
  <1> DEFINE t0 == parent_of(proof, r)
  <1>i. /\ WellFormed(proof) /\ Assumes(proof) /\ may_remove_line(r)
        /\ InScope(proof) /\ IsFiniteSet(Lines(proof))
        /\ proof' = remove_line(proof, t0, r)
        /\ selected_line' = None /\ ref_to_input' = Drop(ref_to_input, {r})
        /\ ref_to_line_depth' = calculate_lineinfo(Drop(ref_to_line_depth, {r}), proof')
    BY DEF WidgetInv, DeleteLine
  <1>1. WellFormed(proof')
    BY <1>i, RemoveLineWF
  <1>2. /\ Lines(proof') = Lines(proof) \ {r} /\ Subs(proof') = Subs(proof)
        /\ KeepsLines(proof, proof') /\ KeepsRefs(proof, proof')
        /\ \A t \in Owners(proof) :
             proof'.premise_list[t] = IF r \in Prems(proof) /\ t = t0
                                      THEN Without(proof.premise_list[t], {r})
                                      ELSE proof.premise_list[t]
    BY <1>i, RemoveLineEffect
  <1>3. Assumes(proof')
    <2>1. CASE r \in Prems(proof)
      <3>1. t0 = Root /\ Len(proof.premise_list[Root]) > 1
        BY <1>i, <2>1 DEF may_remove_line, InSubproof
      <3>2. proof.premise_list[Root] \in Seq(Prems(proof)) /\ NoRepeats(proof.premise_list[Root])
        BY <1>i DEF WellFormed, ProofType, ListedOnce
      <3>3. Len(Without(proof.premise_list[Root], {r})) >= 1
        BY <3>1, <3>2, WithoutOneLeaves
      <3>4. \A s \in Subs(proof) : s # Root
        BY <1>i, Shape
      <3> HIDE DEF t0
      <3> QED BY <1>i, <1>2, <2>1, <3>1, <3>3, <3>4 DEF Assumes, Owners
    <2>2. CASE r \notin Prems(proof)
      BY <1>i, <1>2, <2>2 DEF Assumes, Owners
    <2> QED BY <2>1, <2>2
  <1>6. InScope(proof') /\ IsFiniteSet(Lines(proof'))
    BY <1>i, <1>1, <1>2, ScopeKept, FS_Subset
  <1>4. WidgetInv'
    BY <1>i, <1>1, <1>3, <1>6, Numbered DEF WidgetInv, SelectedIsLive, Number
  <1>5. TextStep
    <2>1. \A x \in Lines(proof) \cap Lines(proof') :
            x \in DOMAIN ref_to_input' =>
              x \in DOMAIN ref_to_input /\ ref_to_input'[x] = ref_to_input[x]
      BY <1>i DEF Drop
    <2> QED BY <1>2, <2>1, TextsStay
  <1> QED BY <1>4, <1>5

(* The subproof of line r is deleted; the texts in it stay behind.         *)
LEMMA DeleteSubproofStep ==
  ASSUME WidgetInv, NEW r \in Lines(proof), DeleteSubproof(r)
  PROVE  WidgetInv' /\ TextStep
  <1> DEFINE s == parent_of(proof, r)
  <1>i. /\ WellFormed(proof) /\ Assumes(proof) /\ s \in Subs(proof)
        /\ InScope(proof) /\ IsFiniteSet(Lines(proof))
        /\ proof' = remove_subproof(proof, s)
        /\ selected_line' = None /\ ref_to_input' = ref_to_input
        /\ ref_to_line_depth' = calculate_lineinfo(ref_to_line_depth, proof')
    BY Shape DEF WidgetInv, DeleteSubproof, InSubproof, Redraw, Owners
  <1> HIDE DEF s
  <1>1. WellFormed(proof')
    BY <1>i, RemoveSubproofWF
  <1>2. /\ Subs(proof') \subseteq Subs(proof) /\ Lines(proof') \subseteq Lines(proof)
        /\ KeepsLines(proof, proof') /\ KeepsRefs(proof, proof')
        /\ \A t \in Owners(proof') : proof'.premise_list[t] = proof.premise_list[t]
    BY <1>i, RemoveSubproofEffect
  <1>3. Assumes(proof')
    BY <1>i, <1>2 DEF Assumes, Owners
  <1>5. InScope(proof') /\ IsFiniteSet(Lines(proof'))
    BY <1>i, <1>1, <1>2, ScopeKept, FS_Subset
  <1>4. WidgetInv'
    BY <1>i, <1>1, <1>3, <1>5, Numbered DEF WidgetInv, SelectedIsLive, Number
  <1> QED BY <1>i, <1>2, <1>4, TextsStay

(* Line r is selected.                                                     *)
LEMMA SelectStep ==
  ASSUME WidgetInv, NEW r \in Lines(proof), Select(r)
  PROVE  WidgetInv' /\ TextStep
  <1>1. /\ proof' = proof /\ ref_to_input' = ref_to_input /\ selected_line' = r
        /\ ref_to_line_depth' = calculate_lineinfo(ref_to_line_depth, proof')
    BY DEF Select, Redraw
  <1>2. WidgetInv'
    BY <1>1, Numbered DEF WidgetInv, SelectedIsLive, Number
  <1> QED BY <1>1, <1>2, TextsStay DEF KeepsLines

(* A rule is chosen for step r, which keeps its expression and references. *)
LEMMA SetRuleStep ==
  ASSUME WidgetInv, NEW r \in Lines(proof), NEW rule \in MenuRules, SetRule(r, rule)
  PROVE  WidgetInv' /\ TextStep
  <1> DEFINE old == proof.just_map[r]
             just == [old EXCEPT !.expr.rule = rule]
  <1>i. /\ WellFormed(proof) /\ Assumes(proof) /\ r \in Justs(proof)
        /\ InScope(proof) /\ IsFiniteSet(Lines(proof))
        /\ proof' = with_mut_step(proof, r, just)
        /\ selected_line' = r /\ ref_to_input' = ref_to_input
        /\ ref_to_line_depth' = calculate_lineinfo(ref_to_line_depth, proof')
    BY DEF WidgetInv, SetRule, Redraw
  <1>1. /\ just \in Steps(proof) /\ just.expr.says = old.expr.says
        /\ just.deps = old.deps /\ just.sdeps = old.sdeps
    <2>1. old \in Steps(proof) /\ rule \in Rules
      BY <1>i, Shape, InputsAssumption
    <2> HIDE DEF old
    <2> QED BY <2>1, ContentsAssumption DEF Steps
  <1> HIDE DEF just
  <1>2. WellFormed(proof')
    BY <1>i, <1>1, SetStepWF DEF Steps
  <1>3. /\ Prems(proof') = Prems(proof) /\ Justs(proof') = Justs(proof)
        /\ Subs(proof') = Subs(proof) /\ proof'.premise_list = proof.premise_list
        /\ Held(proof', r) = just.expr.says
        /\ \A x \in Lines(proof) : x # r => Held(proof', x) = Held(proof, x)
        /\ KeepsPlaces(proof, proof') /\ KeepsParents(proof, proof')
        /\ proof'.just_map[r] = just
        /\ \A j \in Justs(proof) : j # r => proof'.just_map[j] = proof.just_map[j]
    <2>1. StepRewritten(proof, proof', r, just)
      BY <1>i, SetStepEffect
    <2> QED BY <2>1 DEF StepRewritten
  <1>4. Held(proof, r) = old.expr.says
    BY <1>i, Shape DEF Held
  <1>5. KeepsLines(proof, proof') /\ Lines(proof') = Lines(proof)
    BY <1>1, <1>3, <1>4 DEF KeepsLines, Lines
  <1>6. Assumes(proof')
    BY <1>i, <1>3, SameAssumptions
  <1>7. RefsKept(proof, proof')
    <2>1. \A j \in Justs(proof) : /\ proof'.just_map[j].deps = proof.just_map[j].deps
                                  /\ proof'.just_map[j].sdeps = proof.just_map[j].sdeps
      BY <1>1, <1>3
    <2> QED BY <1>3, <2>1 DEF RefsKept
  <1>8. InScope(proof')
    BY <1>i, <1>2, <1>3, <1>7, ScopeKept DEF KeepsRefs
  <1>9. WidgetInv'
    BY <1>i, <1>2, <1>5, <1>6, <1>8, Numbered DEF WidgetInv, SelectedIsLive, Number
  <1> QED BY <1>i, <1>5, <1>9, TextsStay

(* A reference of the selected step is set or cleared.                     *)
LEMMA ToggleStep ==
  ASSUME WidgetInv, NEW dep \in Live(proof), ToggleDependency(dep)
  PROVE  WidgetInv' /\ TextStep
  <1> DEFINE r == selected_line
             old == proof.just_map[r]
             just == Toggled(old, dep)
  <1>i. /\ WellFormed(proof) /\ Assumes(proof) /\ SelectedIsLive /\ r \in Justs(proof)
        /\ InScope(proof) /\ IsFiniteSet(Lines(proof)) /\ can_reference_dep(proof, r, dep)
        /\ proof' = with_mut_step(proof, r, just)
        /\ selected_line' = selected_line /\ ref_to_input' = ref_to_input
        /\ ref_to_line_depth' = calculate_lineinfo(ref_to_line_depth, proof')
    BY DEF WidgetInv, ToggleDependency, Redraw
  <1>1. /\ just \in Steps(proof) /\ just.expr = old.expr
        /\ just.deps \cup just.sdeps \subseteq old.deps \cup old.sdeps \cup {dep}
    <2>1. old \in Steps(proof)
      BY <1>i, Shape
    <2>2. dep \in Lines(proof) \/ dep \in Subs(proof)
      BY DEF Live
    <2> HIDE DEF old
    <2> QED BY <2>1, <2>2 DEF Steps, Toggled, Toggle
  <1> HIDE DEF just
  <1>2. WellFormed(proof')
    BY <1>i, <1>1, SetStepWF DEF Steps
  <1>3. /\ Prems(proof') = Prems(proof) /\ Justs(proof') = Justs(proof)
        /\ Subs(proof') = Subs(proof) /\ proof'.premise_list = proof.premise_list
        /\ Held(proof', r) = just.expr.says
        /\ \A x \in Lines(proof) : x # r => Held(proof', x) = Held(proof, x)
        /\ KeepsPlaces(proof, proof') /\ KeepsParents(proof, proof')
        /\ proof'.just_map[r] = just
        /\ \A j \in Justs(proof) : j # r => proof'.just_map[j] = proof.just_map[j]
    <2>1. StepRewritten(proof, proof', r, just)
      BY <1>i, SetStepEffect
    <2> QED BY <2>1 DEF StepRewritten
  <1>4. Held(proof, r) = old.expr.says
    BY <1>i, Shape DEF Held
  <1>5. KeepsLines(proof, proof') /\ Lines(proof') = Lines(proof)
    BY <1>1, <1>3, <1>4 DEF KeepsLines, Lines
  <1>6. Assumes(proof')
    BY <1>i, <1>3, SameAssumptions
  <1>8. InScope(proof')
    <2> SUFFICES ASSUME NEW j \in Justs(proof'),
                        NEW d \in proof'.just_map[j].deps \cup proof'.just_map[j].sdeps
                 PROVE  can_reference_dep(proof', j, d)
      BY DEF InScope, RefsInScope
    <2>1. j \in Justs(proof)
      BY <1>3
    <2>2. can_reference_dep(proof, j, d)
      <3>1. CASE j = r
        <4>1. d \in old.deps \cup old.sdeps \cup {dep}
          BY <1>1, <1>3, <3>1
        <4> QED BY <1>i, <3>1, <4>1 DEF InScope, RefsInScope
      <3>2. CASE j # r
        BY <1>3, <1>i, <2>1, <3>2 DEF InScope, RefsInScope
      <3> QED BY <3>1, <3>2
    <2>3. d \in Live(proof') /\ Live(proof') = Live(proof)
      BY <1>2, <1>3 DEF WellFormed, NoDanglingRefs, Live, Lines
    <2>4. j \in Live(proof)
      BY <2>1 DEF Live, Lines
    <2> QED BY <1>2, <1>3, <1>i, <2>2, <2>3, <2>4, ScopeStays
  <1>7. WidgetInv'
    BY <1>i, <1>2, <1>5, <1>6, <1>8, Numbered DEF WidgetInv, SelectedIsLive, Number
  <1> QED BY <1>i, <1>5, <1>7, TextsStay

-----------------------------------------------------------------------------

(* A new proof has one premise and nothing selected.                       *)
LEMMA WidgetInitInv == WidgetInit => WidgetInv
  <1> SUFFICES ASSUME WidgetInit PROVE WidgetInv
    OBVIOUS
  <1>1. HasNextKey(Prems(new), MaxPrems)
    <2>1. 0 \in 0 .. MaxPrems - 1
      BY MaxLinesAssumption, RoomAssumption
    <2> QED BY <2>1, NewWF DEF HasNextKey, IsNextKey
  <1>2. PremiseAdded(new, proof, Root)
    BY <1>1, NewWF, AddPremiseEffect, Premise DEF WidgetInit, Owners
  <1>3. WellFormed(proof) /\ Subs(proof) = {}
    BY <1>2, NewWF DEF PremiseAdded
  <1>4. Len(proof.premise_list[Root]) = 1
    <2>1. new.premise_list[Root] = <<>>
      BY DEF new
    <2> QED BY <1>2, <2>1 DEF PremiseAdded
  <1>5. Assumes(proof) /\ InScope(proof) /\ IsFiniteSet(Lines(proof))
    <2>1. Lines(proof) = {} \cup {next_premkey(new)} /\ Justs(proof) = {}
      BY <1>2, NewWF DEF PremiseAdded, Lines
    <2> QED BY <1>3, <1>4, <2>1, FS_EmptySet, FS_AddElement DEF Assumes, InScope
  <1>6. selected_line = None /\ ref_to_line_depth = calculate_lineinfo(<<>>, proof)
    BY DEF WidgetInit
  <1> QED BY <1>3, <1>5, <1>6, Numbered DEF WidgetInv, SelectedIsLive, Number

(* Every message keeps the invariant, and no message separates a text from *)
(* its line.                                                               *)
LEMMA WidgetNextInv == WidgetInv /\ [WidgetNext]_vars => WidgetInv' /\ TextStep
  <1> SUFFICES ASSUME WidgetInv, [WidgetNext]_vars PROVE WidgetInv' /\ TextStep
    OBVIOUS
  <1>1. CASE WidgetNext
    <2>1. ASSUME NEW dep \in Live(proof), ToggleDependency(dep) PROVE WidgetInv' /\ TextStep
      BY <2>1, ToggleStep
    <2>2. ASSUME NEW r \in Lines(proof), NEW input \in Inputs, LineChanged(r, input)
          PROVE  WidgetInv' /\ TextStep
      BY <2>2, LineChangedStep
    <2>3. ASSUME NEW r \in Lines(proof), NEW after \in BOOLEAN, InsertPremise(r, after)
          PROVE  WidgetInv' /\ TextStep
      BY <2>3, InsertPremiseStep
    <2>4. ASSUME NEW r \in Lines(proof), NEW after \in BOOLEAN, NEW point,
                 InsertStep(r, point, after) \/ InsertSubproof(r, point, after)
          PROVE  WidgetInv' /\ TextStep
      BY <2>4, InsertStepStep, InsertSubproofStep
    <2>5. ASSUME NEW r \in Lines(proof), DeleteLine(r) \/ DeleteSubproof(r) \/ Select(r)
          PROVE  WidgetInv' /\ TextStep
      BY <2>5, DeleteLineStep, DeleteSubproofStep, SelectStep
    <2>6. ASSUME NEW r \in Lines(proof), NEW rule \in MenuRules, SetRule(r, rule)
          PROVE  WidgetInv' /\ TextStep
      BY <2>6, SetRuleStep
    <2> QED BY <1>1, <2>1, <2>2, <2>3, <2>4, <2>5, <2>6 DEF WidgetNext
  <1>2. CASE UNCHANGED vars
    <2>1. /\ proof' = proof /\ selected_line' = selected_line /\ ref_to_input' = ref_to_input
          /\ ref_to_line_depth' = ref_to_line_depth
      BY <1>2 DEF vars, pud
    <2>2. WidgetInv'
      BY <2>1 DEF WidgetInv, SelectedIsLive, Number
    <2> QED BY <2>1, <2>2, TextsStay DEF KeepsLines
  <1> QED BY <1>1, <1>2

(* After any sequence of messages the proof under edit is well formed, so  *)
(* that no lookup of a line or a subproof in the editor fails, and every   *)
(* line has a number to draw.                                              *)
THEOREM WidgetTypeCorrect == WidgetSpec => []WidgetTypeOK
  <1>1. WidgetInv => WidgetTypeOK
    BY DEF WidgetInv, WidgetTypeOK, WellFormed
  <1> QED BY <1>1, WidgetInitInv, WidgetNextInv, PTL DEF WidgetSpec

(* The selection, which the keyboard shortcuts act on, is never a line     *)
(* that a deletion took away, directly or with a subproof around it.       *)
THEOREM SelectionIsLive == WidgetSpec => []SelectedIsLive
  <1>1. WidgetInv => SelectedIsLive
    BY DEF WidgetInv
  <1> QED BY <1>1, WidgetInitInv, WidgetNextInv, PTL DEF WidgetSpec

(* No sequence of messages leaves a subproof without its assumption or     *)
(* with two, or the top level without a premise.                           *)
THEOREM SubproofsHaveOneAssumption == WidgetSpec => []OneAssumption
  <1>1. WidgetInv => OneAssumption
    BY DEF WidgetInv, OneAssumption, Assumes
  <1> QED BY <1>1, WidgetInitInv, WidgetNextInv, PTL DEF WidgetSpec

(* References are made in scope and no message takes one out of scope, and *)
(* what is in scope is read, and numbered, before the step.                *)
THEOREM ReferencesPointBack == WidgetSpec => []RefsPointBack
  <1>1. WidgetInv => RefsPointBack
    <2> SUFFICES ASSUME WidgetInv, NEW j \in Justs(proof)
                 PROVE  /\ RefsInScope(proof, j)
                        /\ \A x \in RestsOn(proof, j) : Number(x) < Number(j)
      BY DEF RefsPointBack
    <2>1. /\ WellFormed(proof) /\ IsFiniteSet(Lines(proof)) /\ RefsInScope(proof, j)
          /\ \A x \in Lines(proof) : Number(x) = LinesBefore(proof, x) + 1
          /\ j \in Lines(proof)
      BY DEF WidgetInv, InScope, Lines
    <2>2. ASSUME NEW x \in RestsOn(proof, j) PROVE Number(x) < Number(j)
      <3>1. x \in Lines(proof) /\ Before(proof, x, j)
        BY <2>1, RestsOnEarlier
      <3>2. LinesBefore(proof, x) < LinesBefore(proof, j)
            /\ LinesBefore(proof, x) \in Nat /\ LinesBefore(proof, j) \in Nat
        BY <2>1, <3>1, NumbersFollowOrder
      <3>3. /\ Number(x) = LinesBefore(proof, x) + 1
            /\ Number(j) = LinesBefore(proof, j) + 1
        BY <2>1, <3>1
      <3> QED BY <3>2, <3>3
    <2> QED BY <2>1, <2>2
  <1> QED BY <1>1, WidgetInitInv, WidgetNextInv, PTL DEF WidgetSpec

(* There are no more subproofs than premises: each has its assumption.     *)
LEMMA AssumptionsCount ==
  ASSUME NEW p, WellFormed(p), Assumes(p), IsFiniteSet(Lines(p))
  PROVE  FewSubproofs(p)
  <1> DEFINE D == {x \in Prems(p) : parent_of(p, x) \in Subs(p)}
             f == [x \in D |-> parent_of(p, x)]
  <1>1. IsFiniteSet(D)
    <2>1. D \in SUBSET Lines(p)
      BY DEF Lines
    <2> HIDE DEF D
    <2> QED BY <2>1, FS_Subset
  <1>2. ASSUME NEW s \in Subs(p) PROVE \E x \in D : f[x] = s
    <2>1. p.premise_list[s] \in Seq(Prems(p)) /\ Len(p.premise_list[s]) = 1
      BY DEF WellFormed, ProofType, Assumes
    <2>2. p.premise_list[s][1] \in Entries(p.premise_list[s])
      BY <2>1 DEF Entries
    <2>3. p.premise_list[s][1] \in Prems(p) /\ parent_of(p, p.premise_list[s][1]) = s
      BY <2>2 DEF WellFormed, ListedOnce
    <2> QED BY <2>3
  <1>3. f \in Surjection(D, Subs(p))
    <2>1. f \in [D -> Subs(p)]
      OBVIOUS
    <2> HIDE DEF f, D
    <2> QED BY <1>2, <2>1 DEF Surjection
  <1> HIDE DEF f, D
  <1> QED BY <1>1, <1>3, FS_Surjection DEF FewSubproofs

(* In the editor the walk of transitive_dependencies, which does not look  *)
(* out for circles, ends: references are in scope, so it goes on only to   *)
(* what is read earlier, or into a subproof.                               *)
THEOREM EditorWalkEnds == WidgetSpec => []DependencyWalkEnds
  <1>1. WidgetInv => DependencyWalkEnds
    <2> SUFFICES ASSUME WidgetInv PROVE WalkEnds(proof)
      BY DEF DependencyWalkEnds
    <2>1. /\ WellFormed(proof) /\ Assumes(proof) /\ IsFiniteSet(Lines(proof))
          /\ \A j \in Justs(proof) : RefsInScope(proof, j)
      BY DEF WidgetInv, InScope
    <2>2. FewSubproofs(proof)
      BY <2>1, AssumptionsCount
    <2> QED BY <2>1, <2>2, WalkEndsInScope
  <1> QED BY <1>1, WidgetInitInv, WidgetNextInv, PTL DEF WidgetSpec

(* No message separates the text of a line that stays from what the proof  *)
(* holds there.                                                            *)
THEOREM MessagesKeepTexts == WidgetSpec => EditsKeepTexts
  <1>1. WidgetInv /\ [WidgetNext]_vars
          => [\A r \in Lines(proof) \cap Lines(proof)' : TextFits(r) => TextFits(r)']_vars
    BY WidgetNextInv DEF TextStep
  <1> QED BY <1>1, WidgetInitInv, WidgetNextInv, PTL DEF WidgetSpec, EditsKeepTexts

=============================================================================
