------------------------- MODULE PooledProofProofs -------------------------
(***************************************************************************)
(* Every operation of pooledproof.rs keeps a proof well formed, for every  *)
(* set of expressions and every bound.                                     *)
(***************************************************************************)
EXTENDS PooledProof, ListOpsProofs

WellFormed(p) ==
  /\ ProofType(p)
  /\ ListedOnce(p)
  /\ NoDanglingRefs(p)
  /\ NestingEnds(p)

Owners(p) == Subs(p) \cup {Root}

(* The kinds of references are disjoint.                                   *)
LEMMA KindsDisjoint ==
  /\ PremRefs \cap JustRefs = {} /\ PremRefs \cap SubRefs = {}
  /\ JustRefs \cap SubRefs = {}
  /\ Root \notin PremRefs /\ Root \notin JustRefs /\ Root \notin SubRefs
  <1>1. \A x \in PremRefs : x[1] = "prem"
    BY DEF PremRefs
  <1>2. \A x \in JustRefs : x[1] = "just"
    BY DEF JustRefs
  <1>3. \A x \in SubRefs : x[1] = "sub"
    BY DEF SubRefs
  <1>4. Root[1] = "root"
    BY DEF Root
  <1> QED BY <1>1, <1>2, <1>3, <1>4

(* A key one above all the keys in use is not in use.                      *)
LEMMA NextKeyFresh ==
  ASSUME NEW bound \in Nat, NEW kind, NEW D \in SUBSET ({kind} \X Nat), HasNextKey(D, bound)
  PROVE  <<kind, NextKey(D, bound)>> \in ({kind} \X Nat) \ D
  <1> DEFINE n == NextKey(D, bound)
  <1>1. n \in 0 .. bound - 1 /\ IsNextKey(D, n)
    BY DEF HasNextKey, NextKey
  <1> HIDE DEF n
  <1>2. \A x \in D : x[2] < n
    BY <1>1 DEF IsNextKey
  <1>3. n \in Nat /\ ~(n < n)
    BY <1>1
  <1>4. <<kind, n>>[2] = n
    OBVIOUS
  <1>5. <<kind, n>> \notin D
    BY <1>2, <1>3, <1>4
  <1> QED BY <1>3, <1>5 DEF n

(* A new premise, listed in the subproof it is recorded in.                *)
LEMMA WithPremiseWF ==
  ASSUME NEW p, WellFormed(p), NEW s \in Owners(p), NEW x \in PremRefs \ Prems(p),
         NEW e \in Exprs, NEW list \in Seq(Prems(p) \cup {x}), NoRepeats(list),
         Entries(list) = Entries(p.premise_list[s]) \cup {x}
  PROVE  WellFormed(WithPremise(p, s, x, e, list))
  <1> DEFINE q == WithPremise(p, s, x, e, list)
  <1>t. ProofType(p) /\ ListedOnce(p) /\ NoDanglingRefs(p) /\ NestingEnds(p)
    BY DEF WellFormed
  <1>1. /\ q = [prem_map |-> q.prem_map, just_map |-> q.just_map,
                premise_list |-> q.premise_list, line_list |-> q.line_list,
                containing_subproof |-> q.containing_subproof]
        /\ q.prem_map = Put(p.prem_map, x, e)
        /\ q.just_map = p.just_map
        /\ q.premise_list = [p.premise_list EXCEPT ![s] = list]
        /\ q.line_list = p.line_list
        /\ q.containing_subproof = set_parent(p.containing_subproof, x, s)
    BY DEF WithPremise
  <1> HIDE DEF q
  <1>2. /\ Prems(q) = Prems(p) \cup {x} /\ Justs(q) = Justs(p) /\ Subs(q) = Subs(p)
    BY <1>1 DEF Prems, Justs, Subs, Put
  <1>3. x \notin Live(p) /\ x \notin Justs(p) /\ x \notin Subs(p)
    BY <1>t, KindsDisjoint DEF ProofType, Live, Lines
  <1>4. /\ \A y : y # x => parent_of(q, y) = parent_of(p, y)
        /\ parent_of(q, x) = s
    BY <1>t, <1>1, <1>3 DEF parent_of, set_parent, Put, ProofType, Owners
  <1>5. ProofType(q)
    <2>1. q.prem_map \in [Prems(q) -> Exprs] /\ Prems(q) \subseteq PremRefs
      BY <1>t, <1>1, <1>2 DEF ProofType, Put, Prems
    <2>2. q.premise_list \in [Subs(q) \cup {Root} -> Seq(Prems(q))]
      <3>1. \A t \in Owners(p) : p.premise_list[t] \in Seq(Prems(p) \cup {x})
        BY <1>t DEF ProofType, Owners
      <3> QED BY <1>t, <1>1, <1>2, <3>1 DEF ProofType, Owners
    <2>3. /\ q.containing_subproof \in [DOMAIN q.containing_subproof -> Subs(q)]
          /\ DOMAIN q.containing_subproof \subseteq Live(q)
      BY <1>t, <1>1, <1>2 DEF ProofType, set_parent, Put, Owners, Live, Lines
    <2> QED BY <1>t, <1>1, <1>2, <2>1, <2>2, <2>3 DEF ProofType
  <1>6. ListedOnce(q)
    <2> SUFFICES ASSUME NEW t \in Owners(p)
                 PROVE  /\ NoRepeats(q.premise_list[t]) /\ NoRepeats(q.line_list[t])
                        /\ Entries(q.premise_list[t]) = {y \in Prems(q) : parent_of(q, y) = t}
                        /\ Entries(q.line_list[t])
                             = {y \in Justs(q) \cup Subs(q) : parent_of(q, y) = t}
      BY <1>2 DEF ListedOnce, Owners
    <2>1. /\ NoRepeats(p.premise_list[t]) /\ NoRepeats(p.line_list[t])
          /\ Entries(p.premise_list[t]) = {y \in Prems(p) : parent_of(p, y) = t}
          /\ Entries(p.line_list[t]) = {y \in Justs(p) \cup Subs(p) : parent_of(p, y) = t}
      BY <1>t DEF ListedOnce, Owners
    <2>2. {y \in Prems(q) : parent_of(q, y) = t}
            = {y \in Prems(p) : parent_of(p, y) = t} \cup (IF t = s THEN {x} ELSE {})
      BY <1>2, <1>3, <1>4
    <2>3. q.premise_list[t] = IF t = s THEN list ELSE p.premise_list[t]
      BY <1>t, <1>1 DEF ProofType, Owners
    <2>4. {y \in Justs(q) \cup Subs(q) : parent_of(q, y) = t}
            = {y \in Justs(p) \cup Subs(p) : parent_of(p, y) = t}
      BY <1>2, <1>3, <1>4
    <2> QED BY <1>1, <2>1, <2>2, <2>3, <2>4
  <1>7. NoDanglingRefs(q)
    BY <1>t, <1>1, <1>2 DEF NoDanglingRefs, Lines
  <1>8. NestingEnds(q)
    BY <1>t, <1>2, <1>3, <1>4 DEF NestingEnds
  <1> QED BY <1>5, <1>6, <1>7, <1>8 DEF WellFormed, q

(* A new step, likewise.                                                   *)
LEMMA WithStepWF ==
  ASSUME NEW p, WellFormed(p), NEW s \in Owners(p), NEW x \in JustRefs \ Justs(p),
         NEW just \in [expr : Exprs, deps : SUBSET Lines(p), sdeps : SUBSET Subs(p)],
         NEW list \in Seq(Justs(p) \cup Subs(p) \cup {x}), NoRepeats(list),
         Entries(list) = Entries(p.line_list[s]) \cup {x}
  PROVE  WellFormed(WithStep(p, s, x, just, list))
  <1> DEFINE q == WithStep(p, s, x, just, list)
  <1>t. ProofType(p) /\ ListedOnce(p) /\ NoDanglingRefs(p) /\ NestingEnds(p)
    BY DEF WellFormed
  <1>1. /\ q = [prem_map |-> q.prem_map, just_map |-> q.just_map,
                premise_list |-> q.premise_list, line_list |-> q.line_list,
                containing_subproof |-> q.containing_subproof]
        /\ q.prem_map = p.prem_map
        /\ q.just_map = Put(p.just_map, x, just)
        /\ q.premise_list = p.premise_list
        /\ q.line_list = [p.line_list EXCEPT ![s] = list]
        /\ q.containing_subproof = set_parent(p.containing_subproof, x, s)
    BY DEF WithStep
  <1> HIDE DEF q
  <1>2. Prems(q) = Prems(p) /\ Justs(q) = Justs(p) \cup {x} /\ Subs(q) = Subs(p)
    BY <1>t, <1>1 DEF Prems, Justs, Subs, Put, ProofType
  <1>3. x \notin Live(p) /\ x \notin Prems(p) /\ x \notin Subs(p)
    BY <1>t, KindsDisjoint DEF ProofType, Live, Lines
  <1>4. /\ \A y : y # x => parent_of(q, y) = parent_of(p, y)
        /\ parent_of(q, x) = s
    BY <1>t, <1>1, <1>3 DEF parent_of, set_parent, Put, ProofType, Owners
  <1>5. ProofType(q)
    <2>1. Lines(p) \subseteq PremRefs \cup JustRefs /\ Subs(p) \subseteq SubRefs
      BY <1>t DEF ProofType, Lines
    <2>2. /\ q.just_map \in [Justs(q) -> [expr : Exprs, deps : SUBSET (PremRefs \cup JustRefs),
                                          sdeps : SUBSET SubRefs]]
          /\ Justs(q) \subseteq JustRefs
      BY <1>t, <1>1, <1>2, <2>1 DEF ProofType, Put, Justs
    <2>3. q.line_list \in [Subs(q) \cup {Root} -> Seq(Justs(q) \cup Subs(q))]
      <3>1. \A t \in Owners(p) : p.line_list[t] \in Seq(Justs(p) \cup Subs(p) \cup {x})
        BY <1>t DEF ProofType, Owners
      <3>2. Justs(q) \cup Subs(q) = Justs(p) \cup Subs(p) \cup {x}
        BY <1>2
      <3> QED BY <1>t, <1>1, <1>2, <3>1, <3>2 DEF ProofType, Owners
    <2>4. /\ q.containing_subproof \in [DOMAIN q.containing_subproof -> Subs(q)]
          /\ DOMAIN q.containing_subproof \subseteq Live(q)
      BY <1>t, <1>1, <1>2 DEF ProofType, set_parent, Put, Owners, Live, Lines
    <2> QED BY <1>t, <1>1, <1>2, <2>2, <2>3, <2>4 DEF ProofType
  <1>6. ListedOnce(q)
    <2> SUFFICES ASSUME NEW t \in Owners(q)
                 PROVE  /\ NoRepeats(q.premise_list[t]) /\ NoRepeats(q.line_list[t])
                        /\ Entries(q.premise_list[t]) = {y \in Prems(q) : parent_of(q, y) = t}
                        /\ Entries(q.line_list[t])
                             = {y \in Justs(q) \cup Subs(q) : parent_of(q, y) = t}
      BY DEF ListedOnce, Owners
    <2>0. t \in Owners(p)
      BY <1>2 DEF Owners
    <2>1. /\ NoRepeats(p.premise_list[t]) /\ NoRepeats(p.line_list[t])
          /\ Entries(p.premise_list[t]) = {y \in Prems(p) : parent_of(p, y) = t}
          /\ Entries(p.line_list[t]) = {y \in Justs(p) \cup Subs(p) : parent_of(p, y) = t}
      BY <1>t, <2>0 DEF ListedOnce, Owners
    <2>2. {y \in Justs(q) \cup Subs(q) : parent_of(q, y) = t}
            = {y \in Justs(p) \cup Subs(p) : parent_of(p, y) = t}
                \cup (IF t = s THEN {x} ELSE {})
      BY <1>2, <1>3, <1>4
    <2>3. q.line_list[t] = IF t = s THEN list ELSE p.line_list[t]
      BY <1>t, <1>1, <2>0 DEF ProofType, Owners
    <2>4. {y \in Prems(q) : parent_of(q, y) = t} = {y \in Prems(p) : parent_of(p, y) = t}
      BY <1>2, <1>3, <1>4
    <2> QED BY <1>1, <2>1, <2>2, <2>3, <2>4
  <1>7. NoDanglingRefs(q)
    BY <1>t, <1>1, <1>2 DEF NoDanglingRefs, Lines, Put, Justs
  <1>8. NestingEnds(q)
    BY <1>t, <1>2, <1>3, <1>4 DEF NestingEnds
  <1> QED BY <1>5, <1>6, <1>7, <1>8 DEF WellFormed, q

(* A new, empty subproof, likewise; it is in no other subproof's way, so   *)
(* nesting still ends.                                                     *)
LEMMA WithSubproofWF ==
  ASSUME NEW p, WellFormed(p), NEW s \in Owners(p), NEW x \in SubRefs \ Subs(p),
         NEW list \in Seq(Justs(p) \cup Subs(p) \cup {x}), NoRepeats(list),
         Entries(list) = Entries(p.line_list[s]) \cup {x}
  PROVE  WellFormed(WithSubproof(p, s, x, list))
  <1> DEFINE q == WithSubproof(p, s, x, list)
  <1>t. ProofType(p) /\ ListedOnce(p) /\ NoDanglingRefs(p) /\ NestingEnds(p)
    BY DEF WellFormed
  <1>1. /\ q = [prem_map |-> q.prem_map, just_map |-> q.just_map,
                premise_list |-> q.premise_list, line_list |-> q.line_list,
                containing_subproof |-> q.containing_subproof]
        /\ q.prem_map = p.prem_map
        /\ q.just_map = p.just_map
        /\ q.premise_list = Put(p.premise_list, x, <<>>)
        /\ q.line_list = Put([p.line_list EXCEPT ![s] = list], x, <<>>)
        /\ q.containing_subproof = set_parent(p.containing_subproof, x, s)
    BY DEF WithSubproof
  <1> HIDE DEF q
  <1>2. /\ Prems(q) = Prems(p) /\ Justs(q) = Justs(p) /\ Subs(q) = Subs(p) \cup {x}
        /\ x # Root
    BY <1>t, <1>1, KindsDisjoint DEF Prems, Justs, Subs, Put, ProofType
  <1>3. x \notin Live(p) /\ x \notin Prems(p) /\ x \notin Justs(p) /\ x \notin Owners(p)
    BY <1>t, <1>2, KindsDisjoint DEF ProofType, Live, Lines, Owners
  <1>4. /\ \A y : y # x => parent_of(q, y) = parent_of(p, y)
        /\ parent_of(q, x) = s
    BY <1>t, <1>1, <1>3 DEF parent_of, set_parent, Put, ProofType, Owners
  <1>p. \A y : parent_of(p, y) \in Owners(p)
    BY <1>t DEF parent_of, ProofType, Owners
  <1>l. \A t \in Owners(q) : /\ q.premise_list[t] = IF t = x THEN <<>> ELSE p.premise_list[t]
                             /\ q.line_list[t] = IF t = x THEN <<>> ELSE
                                                 IF t = s THEN list ELSE p.line_list[t]
    BY <1>t, <1>1, <1>2, <1>3 DEF ProofType, Owners, Put
  <1>5. ProofType(q)
    <2>1. Subs(q) \cup {Root} = DOMAIN q.line_list /\ Subs(q) \subseteq SubRefs
      BY <1>t, <1>1, <1>2 DEF ProofType, Put
    <2>2. q.premise_list \in [Subs(q) \cup {Root} -> Seq(Prems(q))]
      <3>1. \A t \in Owners(q) : q.premise_list[t] \in Seq(Prems(q))
        <4> SUFFICES ASSUME NEW t \in Owners(q) PROVE q.premise_list[t] \in Seq(Prems(q))
          OBVIOUS
        <4>1. CASE t = x
          <5>1. q.premise_list[t] = <<>>
            BY <1>l, <4>1
          <5>2. <<>> \in Seq(Prems(q))
            OBVIOUS
          <5> QED BY <5>1, <5>2
        <4>2. CASE t # x
          <5>1. q.premise_list[t] = p.premise_list[t] /\ t \in Owners(p)
            BY <1>2, <1>l, <4>2 DEF Owners
          <5> QED BY <1>t, <1>2, <5>1 DEF ProofType, Owners
        <4> QED BY <4>1, <4>2
      <3>2. q.premise_list = [t \in Owners(q) |-> q.premise_list[t]]
        BY <1>t, <1>1, <1>2 DEF ProofType, Put, Owners
      <3> QED BY <3>1, <3>2 DEF Owners
    <2>3. q.line_list \in [Subs(q) \cup {Root} -> Seq(Justs(q) \cup Subs(q))]
      <3>1. Justs(q) \cup Subs(q) = Justs(p) \cup Subs(p) \cup {x}
        BY <1>2
      <3>2. \A t \in Owners(p) : p.line_list[t] \in Seq(Justs(p) \cup Subs(p) \cup {x})
        BY <1>t DEF ProofType, Owners
      <3>3. \A t \in Owners(q) : q.line_list[t] \in Seq(Justs(q) \cup Subs(q))
        <4> SUFFICES ASSUME NEW t \in Owners(q)
                     PROVE  q.line_list[t] \in Seq(Justs(q) \cup Subs(q))
          OBVIOUS
        <4>1. CASE t = x
          <5>1. q.line_list[t] = <<>>
            BY <1>l, <4>1
          <5>2. <<>> \in Seq(Justs(q) \cup Subs(q))
            OBVIOUS
          <5> QED BY <5>1, <5>2
        <4>2. CASE t # x
          <5>1. /\ q.line_list[t] = IF t = s THEN list ELSE p.line_list[t]
                /\ t \in Owners(p)
            BY <1>2, <1>l, <4>2 DEF Owners
          <5> QED BY <3>1, <3>2, <5>1
        <4> QED BY <4>1, <4>2
      <3>4. q.line_list = [t \in Owners(q) |-> q.line_list[t]]
        BY <1>t, <1>1, <1>2 DEF ProofType, Put, Owners
      <3> QED BY <3>3, <3>4 DEF Owners
    <2>4. /\ q.containing_subproof \in [DOMAIN q.containing_subproof -> Subs(q)]
          /\ DOMAIN q.containing_subproof \subseteq Live(q)
      BY <1>t, <1>1, <1>2 DEF ProofType, set_parent, Put, Owners, Live, Lines
    <2> QED BY <1>t, <1>1, <1>2, <2>1, <2>2, <2>3, <2>4 DEF ProofType
  <1>6. ListedOnce(q)
    <2> SUFFICES ASSUME NEW t \in Owners(q)
                 PROVE  /\ NoRepeats(q.premise_list[t]) /\ NoRepeats(q.line_list[t])
                        /\ Entries(q.premise_list[t]) = {y \in Prems(q) : parent_of(q, y) = t}
                        /\ Entries(q.line_list[t])
                             = {y \in Justs(q) \cup Subs(q) : parent_of(q, y) = t}
      BY DEF ListedOnce, Owners
    <2>1. CASE t = x
      <3>1. \A y : parent_of(q, y) = t => FALSE
        BY <1>3, <1>4, <1>p, <2>1
      <3>2. q.premise_list[t] = <<>> /\ q.line_list[t] = <<>>
        BY <1>l, <2>1
      <3> QED BY <3>1, <3>2 DEF Entries, NoRepeats
    <2>2. CASE t # x
      <3>0. t \in Owners(p)
        BY <1>2, <2>2 DEF Owners
      <3>1. /\ NoRepeats(p.premise_list[t]) /\ NoRepeats(p.line_list[t])
          /\ Entries(p.premise_list[t]) = {y \in Prems(p) : parent_of(p, y) = t}
          /\ Entries(p.line_list[t]) = {y \in Justs(p) \cup Subs(p) : parent_of(p, y) = t}
        BY <1>t, <3>0 DEF ListedOnce, Owners
      <3>2. {y \in Justs(q) \cup Subs(q) : parent_of(q, y) = t}
              = {y \in Justs(p) \cup Subs(p) : parent_of(p, y) = t}
                  \cup (IF t = s THEN {x} ELSE {})
        BY <1>2, <1>3, <1>4
      <3>3. {y \in Prems(q) : parent_of(q, y) = t} = {y \in Prems(p) : parent_of(p, y) = t}
        BY <1>2, <1>3, <1>4
      <3> QED BY <1>l, <2>2, <3>1, <3>2, <3>3
    <2> QED BY <2>1, <2>2
  <1>7. NoDanglingRefs(q)
    BY <1>t, <1>1, <1>2 DEF NoDanglingRefs, Lines
  <1>8. NestingEnds(q)
    <2> SUFFICES ASSUME NEW S \in SUBSET Subs(q), S # {}
                 PROVE  \E y \in S : parent_of(q, y) \notin S
      BY DEF NestingEnds
    <2>1. CASE S \ {x} = {}
      BY <1>3, <1>4, <2>1 DEF Owners
    <2>2. CASE S \ {x} # {}
      <3>1. PICK y \in S \ {x} : parent_of(p, y) \notin S \ {x}
        BY <1>t, <1>2, <2>2 DEF NestingEnds
      <3> QED BY <1>3, <1>4, <1>p, <3>1
    <2> QED BY <2>1, <2>2
  <1> QED BY <1>5, <1>6, <1>7, <1>8 DEF WellFormed, q

(* Rewriting a line moves nothing.                                         *)
LEMMA SetPremiseWF ==
  ASSUME NEW p, WellFormed(p), NEW r \in Prems(p), NEW e \in Exprs
  PROVE  WellFormed(with_mut_premise(p, r, e))
  <1> DEFINE q == with_mut_premise(p, r, e)
  <1>t. ProofType(p) /\ ListedOnce(p) /\ NoDanglingRefs(p) /\ NestingEnds(p)
    BY DEF WellFormed
  <1>1. /\ q = [prem_map |-> q.prem_map, just_map |-> q.just_map,
                premise_list |-> q.premise_list, line_list |-> q.line_list,
                containing_subproof |-> q.containing_subproof]
        /\ q.prem_map = [p.prem_map EXCEPT ![r] = e]
        /\ q.just_map = p.just_map
        /\ q.premise_list = p.premise_list
        /\ q.line_list = p.line_list
        /\ q.containing_subproof = p.containing_subproof
    <2>1. p = [prem_map |-> p.prem_map, just_map |-> p.just_map,
               premise_list |-> p.premise_list, line_list |-> p.line_list,
               containing_subproof |-> p.containing_subproof]
      BY <1>t DEF ProofType
    <2>2. q = [prem_map |-> [p.prem_map EXCEPT ![r] = e], just_map |-> p.just_map,
               premise_list |-> p.premise_list, line_list |-> p.line_list,
               containing_subproof |-> p.containing_subproof]
      BY <2>1 DEF with_mut_premise
    <2> QED BY <2>2
  <1> HIDE DEF q
  <1>2. /\ Prems(q) = Prems(p) /\ Justs(q) = Justs(p) /\ Subs(q) = Subs(p)
        /\ \A y : parent_of(q, y) = parent_of(p, y)
    BY <1>1 DEF Prems, Justs, Subs, parent_of
  <1>3. q.prem_map \in [Prems(q) -> Exprs]
    BY <1>t, <1>1, <1>2 DEF ProofType
  <1>4. ProofType(q)
    BY <1>t, <1>1, <1>2, <1>3 DEF ProofType, Live, Lines
  <1>5. ListedOnce(q) /\ NoDanglingRefs(q) /\ NestingEnds(q)
    BY <1>t, <1>1, <1>2 DEF ListedOnce, NoDanglingRefs, NestingEnds, Lines
  <1> QED BY <1>4, <1>5 DEF WellFormed, q

(* with_mut_step keeps a proof well formed.                                *)
LEMMA SetStepWF ==
  ASSUME NEW p, WellFormed(p), NEW r \in Justs(p),
         NEW just \in [expr : Exprs, deps : SUBSET Lines(p), sdeps : SUBSET Subs(p)]
  PROVE  WellFormed(with_mut_step(p, r, just))
  <1> DEFINE q == with_mut_step(p, r, just)
  <1>t. ProofType(p) /\ ListedOnce(p) /\ NoDanglingRefs(p) /\ NestingEnds(p)
    BY DEF WellFormed
  <1>1. /\ q = [prem_map |-> q.prem_map, just_map |-> q.just_map,
                premise_list |-> q.premise_list, line_list |-> q.line_list,
                containing_subproof |-> q.containing_subproof]
        /\ q.prem_map = p.prem_map
        /\ q.just_map = [p.just_map EXCEPT ![r] = just]
        /\ q.premise_list = p.premise_list
        /\ q.line_list = p.line_list
        /\ q.containing_subproof = p.containing_subproof
    <2>1. p = [prem_map |-> p.prem_map, just_map |-> p.just_map,
               premise_list |-> p.premise_list, line_list |-> p.line_list,
               containing_subproof |-> p.containing_subproof]
      BY <1>t DEF ProofType
    <2>2. q = [prem_map |-> p.prem_map, just_map |-> [p.just_map EXCEPT ![r] = just],
               premise_list |-> p.premise_list, line_list |-> p.line_list,
               containing_subproof |-> p.containing_subproof]
      BY <2>1 DEF with_mut_step
    <2> QED BY <2>2
  <1> HIDE DEF q
  <1>2. /\ Prems(q) = Prems(p) /\ Justs(q) = Justs(p) /\ Subs(q) = Subs(p)
        /\ \A y : parent_of(q, y) = parent_of(p, y)
    BY <1>1 DEF Prems, Justs, Subs, parent_of
  <1>3. q.just_map \in [Justs(q) -> [expr : Exprs, deps : SUBSET (PremRefs \cup JustRefs),
                                     sdeps : SUBSET SubRefs]]
    <2>1. Lines(p) \subseteq PremRefs \cup JustRefs /\ Subs(p) \subseteq SubRefs
      BY <1>t DEF ProofType, Lines
    <2> QED BY <1>t, <1>1, <1>2, <2>1 DEF ProofType
  <1>4. ProofType(q)
    BY <1>t, <1>1, <1>2, <1>3 DEF ProofType, Live, Lines
  <1>5. ListedOnce(q) /\ NestingEnds(q)
    BY <1>t, <1>1, <1>2 DEF ListedOnce, NestingEnds
  <1>6. NoDanglingRefs(q)
    BY <1>t, <1>1, <1>2 DEF NoDanglingRefs, Lines, ProofType
  <1> QED BY <1>4, <1>5, <1>6 DEF WellFormed, q

(* Removing a set G of references from the pools and from the lists, when  *)
(* G is closed: what is in a removed subproof is removed.                  *)
LEMMA RemovalWF ==
  ASSUME NEW p, WellFormed(p), NEW G \in SUBSET Live(p), NEW premises, NEW lines,
         \A y \in Live(p) : parent_of(p, y) \in G => y \in G,
         premises = [t \in Owners(p) \ G |-> premises[t]],
         lines = [t \in Owners(p) \ G |-> lines[t]],
         \A t \in Owners(p) \ G :
           /\ premises[t] \in Seq(Prems(p) \ G) /\ lines[t] \in Seq((Justs(p) \cup Subs(p)) \ G)
           /\ NoRepeats(premises[t]) /\ NoRepeats(lines[t])
           /\ Entries(premises[t]) = Entries(p.premise_list[t]) \ G
           /\ Entries(lines[t]) = Entries(p.line_list[t]) \ G
  PROVE  WellFormed(remove_line_helper(p, G, premises, lines))
  <1> DEFINE q == remove_line_helper(p, G, premises, lines)
  <1>t. ProofType(p) /\ ListedOnce(p) /\ NoDanglingRefs(p) /\ NestingEnds(p)
    BY DEF WellFormed
  <1>1. /\ q = [prem_map |-> q.prem_map, just_map |-> q.just_map,
                premise_list |-> q.premise_list, line_list |-> q.line_list,
                containing_subproof |-> q.containing_subproof]
        /\ q.prem_map = Drop(p.prem_map, G)
        /\ q.just_map = [j \in Justs(p) \ G |->
                           [expr |-> p.just_map[j].expr, deps |-> p.just_map[j].deps \ G,
                            sdeps |-> p.just_map[j].sdeps \ G]]
        /\ q.premise_list = premises
        /\ q.line_list = lines
        /\ q.containing_subproof = Drop(p.containing_subproof, G)
    BY DEF remove_line_helper
  <1> HIDE DEF q
  <1>r. Root \notin Live(p) /\ Root \notin G
    BY <1>t, KindsDisjoint DEF ProofType, Live, Lines
  <1>2. Prems(q) = Prems(p) \ G /\ Justs(q) = Justs(p) \ G /\ Subs(q) = Subs(p) \ G
    <2>1. DOMAIN q.line_list = Owners(p) \ G
      BY <1>1
    <2> QED BY <1>1, <1>r, <2>1 DEF Prems, Justs, Subs, Drop, Owners
  <1>3. /\ \A y : y \notin G => parent_of(q, y) = parent_of(p, y)
        /\ \A y \in Live(p) \ G : parent_of(q, y) \notin G
    BY <1>t, <1>1 DEF parent_of, Drop
  <1>5. ProofType(q)
    <2>1. q.prem_map \in [Prems(q) -> Exprs]
      BY <1>t, <1>1, <1>2 DEF ProofType, Drop, Prems
    <2>2. q.just_map \in [Justs(q) -> [expr : Exprs, deps : SUBSET (PremRefs \cup JustRefs),
                                       sdeps : SUBSET SubRefs]]
      BY <1>t, <1>1, <1>2 DEF ProofType
    <2>3. Owners(p) \ G = Subs(q) \cup {Root}
      BY <1>2, <1>r DEF Owners
    <2>4. /\ q.premise_list \in [Subs(q) \cup {Root} -> Seq(Prems(q))]
          /\ q.line_list \in [Subs(q) \cup {Root} -> Seq(Justs(q) \cup Subs(q))]
      <3>1. Justs(q) \cup Subs(q) = (Justs(p) \cup Subs(p)) \ G
        BY <1>2
      <3> QED BY <1>1, <1>2, <2>3, <3>1
    <2>5. /\ q.containing_subproof \in [DOMAIN q.containing_subproof -> Subs(q)]
          /\ DOMAIN q.containing_subproof \subseteq Live(q)
      <3>1. /\ DOMAIN q.containing_subproof = DOMAIN p.containing_subproof \ G
            /\ \A y \in DOMAIN q.containing_subproof :
                 q.containing_subproof[y] = p.containing_subproof[y]
        BY <1>1 DEF Drop
      <3>2. Live(q) = Live(p) \ G
        BY <1>2 DEF Live, Lines
      <3>3. \A y \in DOMAIN p.containing_subproof \ G :
              /\ y \in Live(p) /\ p.containing_subproof[y] \in Subs(p)
              /\ p.containing_subproof[y] \notin G
        BY <1>t DEF ProofType, parent_of
      <3>4. q.containing_subproof
              = [y \in DOMAIN q.containing_subproof |-> q.containing_subproof[y]]
        BY <1>1 DEF Drop
      <3>5. \A y \in DOMAIN q.containing_subproof : q.containing_subproof[y] \in Subs(q)
        BY <1>2, <3>1, <3>3
      <3>6. q.containing_subproof \in [DOMAIN q.containing_subproof -> Subs(q)]
        <4> DEFINE c == q.containing_subproof
                   C == DOMAIN c
        <4>1. c = [y \in C |-> c[y]] /\ \A y \in C : c[y] \in Subs(q)
          BY <3>4, <3>5
        <4> HIDE DEF c, C
        <4>2. c \in [C -> Subs(q)]
          BY <4>1
        <4> QED BY <4>2 DEF c, C
      <3> QED BY <3>1, <3>2, <3>3, <3>6
    <2>6. Root \in DOMAIN q.line_list
      BY <1>1, <1>r DEF Owners
    <2> QED BY <1>t, <1>1, <1>2, <2>1, <2>2, <2>4, <2>5, <2>6 DEF ProofType
  <1>6. ListedOnce(q)
    <2> SUFFICES ASSUME NEW t \in Owners(q)
                 PROVE  /\ NoRepeats(q.premise_list[t]) /\ NoRepeats(q.line_list[t])
                        /\ Entries(q.premise_list[t]) = {y \in Prems(q) : parent_of(q, y) = t}
                        /\ Entries(q.line_list[t])
                             = {y \in Justs(q) \cup Subs(q) : parent_of(q, y) = t}
      BY DEF ListedOnce, Owners
    <2>0. t \in Owners(p) \ G
      BY <1>2, <1>r DEF Owners
    <2>1. /\ Entries(p.premise_list[t]) = {y \in Prems(p) : parent_of(p, y) = t}
          /\ Entries(p.line_list[t]) = {y \in Justs(p) \cup Subs(p) : parent_of(p, y) = t}
      BY <1>t, <2>0 DEF ListedOnce, Owners
    <2>2. /\ {y \in Prems(q) : parent_of(q, y) = t}
               = {y \in Prems(p) : parent_of(p, y) = t} \ G
          /\ {y \in Justs(q) \cup Subs(q) : parent_of(q, y) = t}
               = {y \in Justs(p) \cup Subs(p) : parent_of(p, y) = t} \ G
      BY <1>2, <1>3
    <2> QED BY <1>1, <2>0, <2>1, <2>2
  <1>7. NoDanglingRefs(q)
    BY <1>t, <1>1, <1>2 DEF NoDanglingRefs, Lines
  <1>8. NestingEnds(q)
    BY <1>t, <1>2, <1>3 DEF NestingEnds
  <1> QED BY <1>5, <1>6, <1>7, <1>8 DEF WellFormed, q

(* A sequence is over the set of its entries.                              *)
LEMMA SeqOverEntries ==
  ASSUME NEW T, NEW s \in Seq(T), NEW U, Entries(s) \subseteq U
  PROVE  s \in Seq(U)
  BY DEF Entries

(* A list of keys without the references in G.                             *)
LEMMA CleanListOf ==
  ASSUME NEW T, NEW s \in Seq(T), NoRepeats(s), NEW G
  PROVE  /\ Without(s, G) \in Seq(T \ G)
         /\ NoRepeats(Without(s, G))
         /\ Entries(Without(s, G)) = Entries(s) \ G
  <1>1. /\ Without(s, G) \in Seq(T)
        /\ Entries(Without(s, G)) = Entries(s) \ G
        /\ NoRepeats(Without(s, G))
    BY WithoutProperties
  <1>2. Entries(s) \subseteq T
    BY DEF Entries
  <1>3. Entries(Without(s, G)) \subseteq T \ G
    BY <1>1, <1>2
  <1>4. Without(s, G) \in Seq(T \ G)
    BY <1>1, <1>3, SeqOverEntries
  <1> QED BY <1>1, <1>4

(* remove_line, called on the top-level proof or on the subproof that the  *)
(* line is in.                                                             *)
LEMMA RemoveLineWF ==
  ASSUME NEW p, WellFormed(p), NEW r \in Lines(p), NEW self \in {Root, parent_of(p, r)}
  PROVE  WellFormed(remove_line(p, self, r))
  <1> DEFINE Cleaned(lists) ==
               [s \in DOMAIN lists |->
                  IF s = Root /\ self # Root THEN lists[s] ELSE Without(lists[s], {r})]
             premises == Cleaned(p.premise_list)
             lines == Cleaned(p.line_list)
             G == {r}
  <1>t. ProofType(p) /\ ListedOnce(p)
    BY DEF WellFormed
  <1>1. r \in Live(p) /\ r \notin Owners(p)
    BY <1>t, KindsDisjoint DEF ProofType, Live, Lines, Owners
  <1>2. \A y \in Live(p) : parent_of(p, y) # r
    BY <1>t, <1>1 DEF parent_of, ProofType, Owners
  <1>3. DOMAIN p.premise_list = Owners(p) /\ DOMAIN p.line_list = Owners(p)
    BY <1>t DEF ProofType, Owners
  <1>4. /\ premises = [t \in Owners(p) \ G |-> premises[t]]
        /\ lines = [t \in Owners(p) \ G |-> lines[t]]
    BY <1>1, <1>3
  <1>5. ASSUME NEW t \in Owners(p)
        PROVE  /\ premises[t] \in Seq(Prems(p) \ G)
               /\ lines[t] \in Seq((Justs(p) \cup Subs(p)) \ G)
               /\ NoRepeats(premises[t]) /\ NoRepeats(lines[t])
               /\ Entries(premises[t]) = Entries(p.premise_list[t]) \ G
               /\ Entries(lines[t]) = Entries(p.line_list[t]) \ G
    <2>1. /\ p.premise_list[t] \in Seq(Prems(p)) /\ p.line_list[t] \in Seq(Justs(p) \cup Subs(p))
          /\ NoRepeats(p.premise_list[t]) /\ NoRepeats(p.line_list[t])
      BY <1>t DEF ProofType, ListedOnce, Owners
    <2>2. CASE t = Root /\ self # Root
      <3>1. premises[t] = p.premise_list[t] /\ lines[t] = p.line_list[t]
        BY <1>3, <2>2
      <3>2. parent_of(p, r) # t
        BY <2>2
      <3>3. r \notin Entries(p.premise_list[t]) /\ r \notin Entries(p.line_list[t])
        BY <1>t, <3>2 DEF ListedOnce, Owners
      <3>4. Entries(p.premise_list[t]) \subseteq Prems(p) \ G
        BY <2>1, <3>3 DEF Entries
      <3>5. Entries(p.line_list[t]) \subseteq (Justs(p) \cup Subs(p)) \ G
        BY <2>1, <3>3 DEF Entries
      <3>6. p.premise_list[t] \in Seq(Prems(p) \ G)
        BY <2>1, <3>4, SeqOverEntries
      <3>7. p.line_list[t] \in Seq((Justs(p) \cup Subs(p)) \ G)
        BY <2>1, <3>5, SeqOverEntries
      <3> QED BY <2>1, <3>1, <3>3, <3>6, <3>7
    <2>3. CASE ~(t = Root /\ self # Root)
      <3>1. /\ premises[t] = Without(p.premise_list[t], G)
            /\ lines[t] = Without(p.line_list[t], G)
        BY <1>3, <2>3
      <3> DEFINE T == Justs(p) \cup Subs(p)
                 old == p.premise_list[t]
                 oldLines == p.line_list[t]
      <3>2. /\ old \in Seq(Prems(p)) /\ oldLines \in Seq(T)
            /\ NoRepeats(old) /\ NoRepeats(oldLines)
        BY <2>1
      <3> HIDE DEF premises, lines, G, T, old, oldLines
      <3>3. /\ Without(old, G) \in Seq(Prems(p) \ G)
            /\ NoRepeats(Without(old, G)) /\ Entries(Without(old, G)) = Entries(old) \ G
        BY <3>2, CleanListOf
      <3>4. /\ Without(oldLines, G) \in Seq(T \ G)
            /\ NoRepeats(Without(oldLines, G))
            /\ Entries(Without(oldLines, G)) = Entries(oldLines) \ G
        BY <3>2, CleanListOf
      <3> QED BY <3>1, <3>3, <3>4 DEF T, old, oldLines
    <2> QED BY <2>2, <2>3
  <1>6. remove_line(p, self, r) = remove_line_helper(p, G, premises, lines)
    BY DEF remove_line
  <1>7. G \in SUBSET Live(p) /\ \A y \in Live(p) : parent_of(p, y) \in G => y \in G
    BY <1>1, <1>2
  <1> HIDE DEF premises, lines, G
  <1>8. WellFormed(remove_line_helper(p, G, premises, lines))
    BY <1>4, <1>5, <1>7, RemovalWF
  <1> QED BY <1>6, <1>8

(* What remove_subproof(s) reaches: s, and with a subproof the subproofs   *)
(* recorded in it; and it reaches no other subproof than s from outside.   *)
LEMMA NestedSubproofs ==
  ASSUME NEW p, WellFormed(p), NEW s \in Subs(p)
  PROVE  LET D == nested_subproofs(p, s)
         IN  /\ s \in D /\ D \subseteq Subs(p)
             /\ \A y \in Subs(p) : parent_of(p, y) \in D => y \in D
             /\ \A y \in D : y # s => parent_of(p, y) \in D
  <1> DEFINE down == [t \in Subs(p) |-> Entries(p.line_list[t]) \cap Subs(p)]
             D == Closure(down, {s})
             C == {y \in D : y = s \/ parent_of(p, y) \in D}
  <1>1. nested_subproofs(p, s) = D
    BY DEF nested_subproofs
  <1>2. \A t, y \in Subs(p) : y \in down[t] <=> parent_of(p, y) = t
    BY DEF WellFormed, ListedOnce
  <1>3. DOMAIN down = Subs(p) /\ \A t \in Subs(p) : down[t] \subseteq Subs(p)
    OBVIOUS
  <1> HIDE DEF down
  <1>4. D \subseteq Subs(p) /\ s \in D
    BY <1>3 DEF Closure
  <1>5. \A t \in D : down[t] \subseteq D
    <2> SUFFICES ASSUME NEW t \in D, NEW y \in down[t],
                        NEW B \in SUBSET Subs(p), {s} \subseteq B, IsClosed(down, B)
                 PROVE  y \in B
      BY <1>3, <1>4 DEF Closure
    <2>1. t \in B
      BY <1>3 DEF Closure
    <2> QED BY <2>1 DEF IsClosed
  <1>6. \A y \in Subs(p) : parent_of(p, y) \in D => y \in D
    BY <1>2, <1>4, <1>5
  <1>7. \A v \in D : \A B \in SUBSET Subs(p) : {s} \subseteq B /\ IsClosed(down, B) => v \in B
    BY <1>3 DEF Closure
  <1> HIDE DEF D
  <1>8. C \in SUBSET Subs(p) /\ {s} \subseteq C
    BY <1>4
  <1>9. IsClosed(down, C)
    <2> SUFFICES ASSUME NEW c \in C, NEW y \in down[c] PROVE y \in C
      BY DEF IsClosed
    <2>1. c \in D /\ c \in Subs(p) /\ y \in Subs(p)
      BY <1>3, <1>4
    <2> QED BY <1>2, <1>5, <2>1
  <1>10. \A v \in D : v \in C
    BY <1>7, <1>8, <1>9
  <1> QED BY <1>1, <1>4, <1>6, <1>10

(* What remove_subproof(s) removes: only s of it is listed at the top      *)
(* level, and with a subproof goes all that is in it.                      *)
LEMMA InsideSubproof ==
  ASSUME NEW p, WellFormed(p), NEW s \in Subs(p)
  PROVE  LET G == inside(p, s)
         IN  /\ G \in SUBSET Live(p) /\ s \in G /\ Root \notin G
             /\ \A y \in G : parent_of(p, y) = Root => y = s
             /\ \A y \in Live(p) : parent_of(p, y) \in G => y \in G
  <1> DEFINE D == nested_subproofs(p, s)
             G == inside(p, s)
  <1>t. ProofType(p) /\ ListedOnce(p)
    BY DEF WellFormed
  <1>1. /\ s \in D /\ D \subseteq Subs(p)
        /\ \A y \in Subs(p) : parent_of(p, y) \in D => y \in D
        /\ \A y \in D : y # s => parent_of(p, y) \in D
    BY NestedSubproofs
  <1>2. G = D \cup {y \in Live(p) : parent_of(p, y) \in D}
    <2>1. \A t \in D : Entries(p.premise_list[t]) \cup Entries(p.line_list[t])
                         = {y \in Live(p) : parent_of(p, y) = t}
      BY <1>t, <1>1 DEF ListedOnce, Live, Lines
    <2> HIDE DEF D
    <2>2. G = D \cup UNION {Entries(p.premise_list[t]) \cup Entries(p.line_list[t]) : t \in D}
      BY DEF inside, D
    <2>3. ASSUME NEW y \in G PROVE y \in D \cup {z \in Live(p) : parent_of(p, z) \in D}
      BY <2>1, <2>2
    <2>4. ASSUME NEW y \in Live(p), parent_of(p, y) \in D PROVE y \in G
      BY <2>1, <2>2, <2>4
    <2> QED BY <2>2, <2>3, <2>4
  <1>3. Root \notin Live(p) /\ Root \notin D /\ Root \notin G
    BY <1>t, <1>1, <1>2, KindsDisjoint DEF ProofType, Live, Lines
  <1>4. \A y \in Live(p) : parent_of(p, y) \in G => y \in G
    <2>1. \A y : parent_of(p, y) \in Owners(p)
      BY <1>t DEF parent_of, ProofType, Owners
    <2>2. \A y \in Subs(p) : y \in G => y \in D
      BY <1>1, <1>2
    <2> HIDE DEF D, G
    <2> QED BY <1>2, <1>3, <2>1, <2>2 DEF Owners
  <1>5. \A y \in G : parent_of(p, y) = Root => y = s
    BY <1>1, <1>2, <1>3
  <1>6. G \in SUBSET Live(p) /\ s \in G
    BY <1>1, <1>2 DEF Live
  <1> QED BY <1>3, <1>4, <1>5, <1>6

(* remove_subproof, called on the top-level proof.                         *)
LEMMA RemoveSubproofWF ==
  ASSUME NEW p, WellFormed(p), NEW s \in Subs(p)
  PROVE  WellFormed(remove_subproof(p, s))
  <1> DEFINE G == inside(p, s)
             premises == [t \in DOMAIN p.premise_list \ G |->
                            IF t = Root THEN p.premise_list[t]
                                        ELSE Without(p.premise_list[t], G)]
             lines == [t \in DOMAIN p.line_list \ G |->
                         Without(p.line_list[t], IF t = Root THEN {s} ELSE G)]
  <1>t. ProofType(p) /\ ListedOnce(p)
    BY DEF WellFormed
  <1>1. /\ G \in SUBSET Live(p) /\ s \in G /\ Root \notin G
        /\ \A y \in G : parent_of(p, y) = Root => y = s
        /\ \A y \in Live(p) : parent_of(p, y) \in G => y \in G
    BY InsideSubproof
  <1>5. DOMAIN p.premise_list = Owners(p) /\ DOMAIN p.line_list = Owners(p)
    BY <1>t DEF ProofType, Owners
  <1>6. /\ premises = [t \in Owners(p) \ G |-> premises[t]]
        /\ lines = [t \in Owners(p) \ G |-> lines[t]]
    BY <1>5
  <1>7. ASSUME NEW t \in Owners(p) \ G
        PROVE  /\ premises[t] \in Seq(Prems(p) \ G)
               /\ lines[t] \in Seq((Justs(p) \cup Subs(p)) \ G)
               /\ NoRepeats(premises[t]) /\ NoRepeats(lines[t])
               /\ Entries(premises[t]) = Entries(p.premise_list[t]) \ G
               /\ Entries(lines[t]) = Entries(p.line_list[t]) \ G
    <2> DEFINE old == p.premise_list[t]
               oldLines == p.line_list[t]
    <2>1. /\ old \in Seq(Prems(p)) /\ oldLines \in Seq(Justs(p) \cup Subs(p))
          /\ NoRepeats(old) /\ NoRepeats(oldLines)
      BY <1>t DEF ProofType, ListedOnce, Owners
    <2>2. CASE t = Root
      <3>1. premises[t] = old /\ lines[t] = Without(oldLines, {s})
        BY <1>1, <1>5, <2>2
      <3>2. /\ Entries(old) = {y \in Prems(p) : parent_of(p, y) = Root}
            /\ Entries(oldLines) = {y \in Justs(p) \cup Subs(p) : parent_of(p, y) = Root}
        BY <1>t, <2>2 DEF ListedOnce, Owners
      <3>4. s \notin Prems(p)
        BY <1>t, KindsDisjoint DEF ProofType
      <3> HIDE DEF premises, lines, G
      <3>5. Entries(old) = Entries(old) \ G /\ Entries(oldLines) \ {s} = Entries(oldLines) \ G
        BY <1>1, <3>2, <3>4
      <3> HIDE DEF old, oldLines
      <3>6. Entries(old) \subseteq Prems(p) \ G
        BY <2>1, <3>5 DEF Entries
      <3>7. old \in Seq(Prems(p) \ G)
        BY <2>1, <3>6, SeqOverEntries
      <3>8. /\ Without(oldLines, {s}) \in Seq((Justs(p) \cup Subs(p)) \ G)
            /\ NoRepeats(Without(oldLines, {s}))
            /\ Entries(Without(oldLines, {s})) = Entries(oldLines) \ G
        <4> DEFINE T == Justs(p) \cup Subs(p)
                   H == {s}
        <4> HIDE DEF T, H
        <4>1. oldLines \in Seq(T)
          BY <2>1 DEF T
        <4>2. /\ Without(oldLines, H) \in Seq(T) /\ NoRepeats(Without(oldLines, H))
              /\ Entries(Without(oldLines, H)) = Entries(oldLines) \ H
          BY <2>1, <4>1, WithoutProperties
        <4>3. Entries(oldLines) \subseteq T
          BY <4>1 DEF Entries
        <4>4. Entries(Without(oldLines, H)) = Entries(oldLines) \ G
          BY <3>5, <4>2 DEF H
        <4>5. Entries(Without(oldLines, H)) \subseteq T \ G
          BY <4>3, <4>4
        <4>6. Without(oldLines, H) \in Seq(T \ G)
          BY <4>2, <4>5, SeqOverEntries
        <4> QED BY <4>2, <4>4, <4>6 DEF T, H
      <3> QED BY <2>1, <3>1, <3>5, <3>7, <3>8 DEF old, oldLines
    <2>3. CASE t # Root
      <3>1. premises[t] = Without(old, G) /\ lines[t] = Without(oldLines, G)
        BY <1>5, <2>3
      <3> DEFINE T == Justs(p) \cup Subs(p)
      <3>2. old \in Seq(Prems(p)) /\ oldLines \in Seq(T)
        BY <2>1
      <3> HIDE DEF premises, lines, G, T, old, oldLines
      <3>3. /\ Without(old, G) \in Seq(Prems(p) \ G)
            /\ NoRepeats(Without(old, G)) /\ Entries(Without(old, G)) = Entries(old) \ G
        BY <2>1, <3>2, CleanListOf
      <3>4. /\ Without(oldLines, G) \in Seq(T \ G)
            /\ NoRepeats(Without(oldLines, G))
            /\ Entries(Without(oldLines, G)) = Entries(oldLines) \ G
        BY <2>1, <3>2, CleanListOf
      <3> QED BY <3>1, <3>3, <3>4 DEF T, old, oldLines
    <2> QED BY <2>2, <2>3
  <1>8. remove_subproof(p, s) = remove_line_helper(p, G, premises, lines)
    BY DEF remove_subproof
  <1> HIDE DEF premises, lines, G
  <1>9. WellFormed(remove_line_helper(p, G, premises, lines))
    BY <1>1, <1>6, <1>7, RemovalWF
  <1> QED BY <1>8, <1>9

-----------------------------------------------------------------------------
(* The operations that add, on a proof with a key left to hand out.        *)

(* The keys that are handed out are not in use.                            *)
LEMMA FreshKeys ==
  ASSUME NEW p, WellFormed(p)
  PROVE  /\ HasNextKey(Prems(p), MaxPrems) => next_premkey(p) \in PremRefs \ Prems(p)
         /\ HasNextKey(Justs(p), MaxSteps) => next_justkey(p) \in JustRefs \ Justs(p)
         /\ HasNextKey(Subs(p), MaxSubs) => next_subkey(p) \in SubRefs \ Subs(p)
  <1>1. /\ Prems(p) \in SUBSET ({"prem"} \X Nat) /\ Justs(p) \in SUBSET ({"just"} \X Nat)
        /\ Subs(p) \in SUBSET ({"sub"} \X Nat)
    BY DEF WellFormed, ProofType, PremRefs, JustRefs, SubRefs
  <1>2. MaxPrems \in Nat /\ MaxSteps \in Nat /\ MaxSubs \in Nat
    BY MaxLinesAssumption, MaxSubsAssumption
  <1>3. HasNextKey(Prems(p), MaxPrems) => next_premkey(p) \in PremRefs \ Prems(p)
    BY <1>1, <1>2, NextKeyFresh DEF next_premkey, PremRefs
  <1>4. HasNextKey(Justs(p), MaxSteps) => next_justkey(p) \in JustRefs \ Justs(p)
    BY <1>1, <1>2, NextKeyFresh DEF next_justkey, JustRefs
  <1>5. HasNextKey(Subs(p), MaxSubs) => next_subkey(p) \in SubRefs \ Subs(p)
    BY <1>1, <1>2, NextKeyFresh DEF next_subkey, SubRefs
  <1> QED BY <1>3, <1>4, <1>5

(* list is s, over T, with x added to its entries; a list gets so when x   *)
(* is pushed or inserted.                                                  *)
Grown(list, s, T, x) ==
  /\ list \in Seq(T \cup {x}) /\ NoRepeats(list)
  /\ Entries(list) = Entries(s) \cup {x}

(* A list grows by one entry.                                              *)
LEMMA GrownList ==
  ASSUME NEW T, NEW s \in Seq(T), NoRepeats(s), NEW x, x \notin T
  PROVE  /\ Grown(Append(s, x), s, T, x)
         /\ \A r : \A after \in BOOLEAN : Grown(InsertRelative(s, x, r, after), s, T, x)
  <1> DEFINE U == T \cup {x}
  <1>1. s \in Seq(U) /\ x \in U /\ x \notin Entries(s)
    BY DEF Entries
  <1> HIDE DEF U
  <1>2. /\ Append(s, x) \in Seq(U) /\ NoRepeats(Append(s, x))
        /\ Entries(Append(s, x)) = Entries(s) \cup {x}
    BY <1>1, AppendEntries
  <1>3. ASSUME NEW r, NEW after \in BOOLEAN
        PROVE  /\ InsertRelative(s, x, r, after) \in Seq(U)
               /\ NoRepeats(InsertRelative(s, x, r, after))
               /\ Entries(InsertRelative(s, x, r, after)) = Entries(s) \cup {x}
    BY <1>1, InsertRelativeProperties
  <1> QED BY <1>2, <1>3 DEF U, Grown

(* The ways of adding a premise keep a proof well formed.                  *)
LEMMA AddPremiseWF ==
  ASSUME NEW p, WellFormed(p), HasNextKey(Prems(p), MaxPrems), NEW e \in Exprs
  PROVE  /\ \A s \in Owners(p) : WellFormed(add_premise(p, s, e))
         /\ \A r : \A after \in BOOLEAN : WellFormed(add_premise_relative(p, e, r, after))
  <1> DEFINE x == next_premkey(p)
  <1>1. x \in PremRefs \ Prems(p)
    BY FreshKeys
  <1>2. \A r : parent_of(p, r) \in Owners(p)
    BY DEF WellFormed, ProofType, parent_of, Owners
  <1> HIDE DEF x
  <1>3. ASSUME NEW s \in Owners(p)
        PROVE  /\ WellFormed(WithPremise(p, s, x, e, Append(p.premise_list[s], x)))
               /\ \A r : \A after \in BOOLEAN :
                    WellFormed(WithPremise(p, s, x, e,
                                 InsertRelative(p.premise_list[s], x, r, after)))
    <2> DEFINE l == p.premise_list[s]
               T == Prems(p)
    <2>1. l \in Seq(T) /\ NoRepeats(l) /\ x \notin T
      BY <1>1 DEF WellFormed, ProofType, ListedOnce, Owners
    <2>2. /\ Grown(Append(l, x), l, T, x)
          /\ \A r : \A after \in BOOLEAN : Grown(InsertRelative(l, x, r, after), l, T, x)
      <3> HIDE DEF l, T
      <3> QED BY <2>1, GrownList
    <2>3. WellFormed(WithPremise(p, s, x, e, Append(l, x)))
      BY <1>1, <2>2, WithPremiseWF DEF Grown
    <2>4. ASSUME NEW r, NEW after \in BOOLEAN
          PROVE  WellFormed(WithPremise(p, s, x, e, InsertRelative(l, x, r, after)))
      BY <1>1, <2>2, WithPremiseWF DEF Grown
    <2> QED BY <2>3, <2>4
  <1> QED BY <1>2, <1>3 DEF add_premise, add_premise_relative, x

(* The ways of adding a subproof keep a proof well formed.                 *)
LEMMA AddSubproofWF ==
  ASSUME NEW p, WellFormed(p), HasNextKey(Subs(p), MaxSubs)
  PROVE  /\ \A s \in Owners(p) : WellFormed(add_subproof(p, s))
         /\ \A r : \A after \in BOOLEAN : WellFormed(add_subproof_relative(p, r, after))
  <1> DEFINE x == next_subkey(p)
             T == Justs(p) \cup Subs(p)
  <1>1. x \in SubRefs \ Subs(p) /\ x \notin T
    BY FreshKeys, KindsDisjoint DEF WellFormed, ProofType
  <1>2. \A r : parent_of(p, r) \in Owners(p)
    BY DEF WellFormed, ProofType, parent_of, Owners
  <1> HIDE DEF x
  <1>3. ASSUME NEW s \in Owners(p)
        PROVE  /\ WellFormed(WithSubproof(p, s, x, Append(p.line_list[s], x)))
               /\ \A r : \A after \in BOOLEAN :
                    WellFormed(WithSubproof(p, s, x, InsertRelative(p.line_list[s], x, r, after)))
    <2> DEFINE l == p.line_list[s]
    <2>1. l \in Seq(T) /\ NoRepeats(l)
      BY DEF WellFormed, ProofType, ListedOnce, Owners
    <2>2. /\ Grown(Append(l, x), l, T, x)
          /\ \A r : \A after \in BOOLEAN : Grown(InsertRelative(l, x, r, after), l, T, x)
      <3> HIDE DEF l, T
      <3> QED BY <1>1, <2>1, GrownList
    <2>3. WellFormed(WithSubproof(p, s, x, Append(l, x)))
      BY <1>1, <2>2, WithSubproofWF DEF Grown
    <2>4. ASSUME NEW r, NEW after \in BOOLEAN
          PROVE  WellFormed(WithSubproof(p, s, x, InsertRelative(l, x, r, after)))
      BY <1>1, <2>2, WithSubproofWF DEF Grown
    <2> QED BY <2>3, <2>4
  <1> QED BY <1>2, <1>3 DEF add_subproof, add_subproof_relative, x

(* The ways of adding a step keep a proof well formed.                     *)
LEMMA AddStepWF ==
  ASSUME NEW p, WellFormed(p), HasNextKey(Justs(p), MaxSteps),
         NEW just \in [expr : Exprs, deps : SUBSET Lines(p), sdeps : SUBSET Subs(p)]
  PROVE  /\ \A s \in Owners(p) : WellFormed(add_step(p, s, just))
         /\ \A r : \A after \in BOOLEAN : WellFormed(add_step_relative(p, just, r, after))
         /\ \A s \in Owners(p) : WellFormed(prepend_step(p, s, just))
  <1> DEFINE x == next_justkey(p)
             T == Justs(p) \cup Subs(p)
             Steps == [expr : Exprs, deps : SUBSET Lines(p), sdeps : SUBSET Subs(p)]
  <1>1. x \in JustRefs \ Justs(p) /\ x \notin T
    BY FreshKeys, KindsDisjoint DEF WellFormed, ProofType
  <1>2. \A r : parent_of(p, r) \in Owners(p)
    BY DEF WellFormed, ProofType, parent_of, Owners
  <1> HIDE DEF x
  <1>3. ASSUME NEW s \in Owners(p), NEW j \in Steps
        PROVE  /\ WellFormed(WithStep(p, s, x, j, Append(p.line_list[s], x)))
               /\ \A r : \A after \in BOOLEAN :
                    WellFormed(WithStep(p, s, x, j, InsertRelative(p.line_list[s], x, r, after)))
    <2> DEFINE l == p.line_list[s]
    <2>1. l \in Seq(T) /\ NoRepeats(l)
      BY DEF WellFormed, ProofType, ListedOnce, Owners
    <2>2. /\ Grown(Append(l, x), l, T, x)
          /\ \A r : \A after \in BOOLEAN : Grown(InsertRelative(l, x, r, after), l, T, x)
      <3> HIDE DEF l, T
      <3> QED BY <1>1, <2>1, GrownList
    <2>3. WellFormed(WithStep(p, s, x, j, Append(l, x)))
      BY <1>1, <2>2, WithStepWF DEF Grown
    <2>4. ASSUME NEW r, NEW after \in BOOLEAN
          PROVE  WellFormed(WithStep(p, s, x, j, InsertRelative(l, x, r, after)))
      BY <1>1, <2>2, WithStepWF DEF Grown
    <2> QED BY <2>3, <2>4
  <1>4. \A A : [just EXCEPT !.sdeps = @ \ A] \in Steps
    OBVIOUS
  <1>5. \A s \in Owners(p) : WellFormed(add_step(p, s, just))
    <2> HIDE DEF Steps
    <2> QED BY <1>3, <1>4 DEF add_step, x
  <1>6. \A r : \A after \in BOOLEAN : WellFormed(add_step_relative(p, just, r, after))
    BY <1>2, <1>3 DEF add_step_relative, x
  <1>7. \A s \in Owners(p) : WellFormed(prepend_step(p, s, just))
    BY <1>5, <1>6 DEF prepend_step
  <1> QED BY <1>5, <1>6, <1>7

-----------------------------------------------------------------------------

(* A new proof is well formed.                                             *)
LEMMA NewWF == WellFormed(new) /\ Prems(new) = {} /\ Justs(new) = {} /\ Subs(new) = {}
  <1> DEFINE p == new
  <1>1. /\ p.prem_map = <<>> /\ p.just_map = <<>> /\ p.containing_subproof = <<>>
        /\ p.premise_list = [s \in {Root} |-> <<>>] /\ p.line_list = [s \in {Root} |-> <<>>]
        /\ p = [prem_map |-> p.prem_map, just_map |-> p.just_map,
                premise_list |-> p.premise_list, line_list |-> p.line_list,
                containing_subproof |-> p.containing_subproof]
    BY DEF new
  <1> HIDE DEF p
  <1>2. /\ Prems(p) = {} /\ Justs(p) = {} /\ Subs(p) = {}
        /\ DOMAIN p.containing_subproof = {} /\ DOMAIN p.line_list = {Root}
    BY <1>1 DEF Prems, Justs, Subs
  <1>3. ProofType(p)
    BY <1>1, <1>2 DEF ProofType
  <1>4. ListedOnce(p)
    BY <1>1, <1>2 DEF ListedOnce, NoRepeats, Entries
  <1>5. NoDanglingRefs(p) /\ NestingEnds(p)
    BY <1>2 DEF NoDanglingRefs, NestingEnds
  <1> QED BY <1>2, <1>3, <1>4, <1>5 DEF WellFormed, p

(* The initial state.                                                      *)
LEMMA InitWF == Init => WellFormed(proof)
  BY NewWF DEF Init

(* Every operation keeps the proof well formed.                            *)
LEMMA NextWF == WellFormed(proof) /\ [Next]_proof => WellFormed(proof)'
  <1> SUFFICES ASSUME WellFormed(proof), [Next]_proof PROVE WellFormed(proof)'
    OBVIOUS
  <1>j. \A just \in Justifications(proof) :
          just \in [expr : Exprs, deps : SUBSET Lines(proof), sdeps : SUBSET Subs(proof)]
    BY DEF Justifications
  <1>1. ASSUME NEW s \in Owners(proof), NEW e \in Exprs, AddPremise(s, e)
        PROVE  WellFormed(proof)'
    BY <1>1, AddPremiseWF DEF AddPremise, RoomForPremise
  <1>2. ASSUME NEW s \in Owners(proof), AddSubproof(s)
        PROVE  WellFormed(proof)'
    BY <1>2, AddSubproofWF DEF AddSubproof, RoomForSubproof
  <1>3. ASSUME NEW s \in Owners(proof), NEW just \in Justifications(proof),
               AddStep(s, just) \/ PrependStep(s, just)
        PROVE  WellFormed(proof)'
    BY <1>j, <1>3, AddStepWF DEF AddStep, PrependStep, RoomForStep
  <1>4. ASSUME NEW r \in Prems(proof), NEW e \in Exprs, NEW after \in BOOLEAN,
               AddPremiseRelative(e, r, after)
        PROVE  WellFormed(proof)'
    BY <1>4, AddPremiseWF DEF AddPremiseRelative, RoomForPremise
  <1>5. ASSUME NEW r \in Justs(proof) \cup Subs(proof), NEW after \in BOOLEAN,
               AddSubproofRelative(r, after)
        PROVE  WellFormed(proof)'
    BY <1>5, AddSubproofWF DEF AddSubproofRelative, RoomForSubproof
  <1>6. ASSUME NEW r \in Justs(proof) \cup Subs(proof), NEW after \in BOOLEAN,
               NEW just \in Justifications(proof), AddStepRelative(just, r, after)
        PROVE  WellFormed(proof)'
    BY <1>j, <1>6, AddStepWF DEF AddStepRelative, RoomForStep
  <1>7. ASSUME NEW r \in Prems(proof), NEW e \in Exprs, SetPremise(r, e)
        PROVE  WellFormed(proof)'
    BY <1>7, SetPremiseWF DEF SetPremise
  <1>8. ASSUME NEW r \in Justs(proof), NEW just \in Justifications(proof), SetStep(r, just)
        PROVE  WellFormed(proof)'
    BY <1>j, <1>8, SetStepWF DEF SetStep
  <1>9. ASSUME NEW r \in Lines(proof), NEW self \in Owners(proof), RemoveLine(r, self)
        PROVE  WellFormed(proof)'
    BY <1>9, RemoveLineWF DEF RemoveLine
  <1>10. ASSUME NEW s \in Subs(proof), RemoveSubproof(s)
         PROVE  WellFormed(proof)'
    BY <1>10, RemoveSubproofWF DEF RemoveSubproof
  <1>11. CASE UNCHANGED proof
    BY <1>11
  <1> QED
    BY <1>1, <1>2, <1>3, <1>4, <1>5, <1>6, <1>7, <1>8, <1>9, <1>10, <1>11 DEF Next, Owners

(* Whatever the trait is asked to do, in whatever order, every list holds  *)
(* live references only and every parent is a live subproof.               *)
THEOREM PooledTypeCorrect == Spec => []TypeOK
  <1>1. WellFormed(proof) => TypeOK
    BY DEF WellFormed, TypeOK
  <1> QED BY <1>1, InitWF, NextWF, PTL DEF Spec

(* The lists and the record of parents agree, and subproofs are nested.    *)
THEOREM PooledStructure == Spec => []Structure
  <1>1. WellFormed(proof) => Structure
    BY DEF WellFormed, Structure
  <1> QED BY <1>1, InitWF, NextWF, PTL DEF Spec

(* No removal leaves a reference to what it removed.                       *)
THEOREM PooledReferences == Spec => []References
  <1>1. WellFormed(proof) => References
    BY DEF WellFormed, References
  <1> QED BY <1>1, InitWF, NextWF, PTL DEF Spec

-----------------------------------------------------------------------------
(* From p to q, what stays keeps its list and its place in it.             *)

KeepsPlaces(p, q) ==
  \A s \in Owners(p) \cap Owners(q) :
    LET gone == Live(p) \ Live(q)
        added == Live(q) \ Live(p)
    IN  /\ Without(p.premise_list[s], gone) = Without(q.premise_list[s], added)
        /\ Without(p.line_list[s], gone) = Without(q.line_list[s], added)

(* The lists of a well-formed proof, as sequences of live references.      *)
LEMMA ListsAreLive ==
  ASSUME NEW p, WellFormed(p), NEW s \in Owners(p)
  PROVE  /\ p.premise_list[s] \in Seq(Live(p)) /\ p.line_list[s] \in Seq(Live(p))
         /\ NoRepeats(p.premise_list[s]) /\ NoRepeats(p.line_list[s])
         /\ Entries(p.premise_list[s]) \subseteq Live(p)
         /\ Entries(p.line_list[s]) \subseteq Live(p)
  <1>1. /\ p.premise_list[s] \in Seq(Prems(p)) /\ p.line_list[s] \in Seq(Justs(p) \cup Subs(p))
        /\ NoRepeats(p.premise_list[s]) /\ NoRepeats(p.line_list[s])
        /\ Entries(p.premise_list[s]) \subseteq Prems(p)
        /\ Entries(p.line_list[s]) \subseteq Justs(p) \cup Subs(p)
    BY DEF WellFormed, ProofType, ListedOnce, Owners
  <1>2. /\ Entries(p.premise_list[s]) \subseteq Live(p)
        /\ Entries(p.line_list[s]) \subseteq Live(p)
    BY <1>1 DEF Live, Lines
  <1> QED BY <1>1, <1>2, SeqOverEntries

(* An operation that adds x changes a list to one that is the old list     *)
(* when x is taken out.                                                    *)
LEMMA AdditionKeeps ==
  ASSUME NEW p, WellFormed(p), NEW q, NEW x, x \notin Live(p), Live(q) = Live(p) \cup {x},
         \A s \in Owners(p) :
           /\ \/ q.premise_list[s] = p.premise_list[s]
              \/ Without(q.premise_list[s], {x}) = p.premise_list[s]
           /\ \/ q.line_list[s] = p.line_list[s]
              \/ Without(q.line_list[s], {x}) = p.line_list[s]
  PROVE  KeepsPlaces(p, q)
  <1> DEFINE X == {x}
             None == {}
  <1>1. Live(p) \ Live(q) = None /\ Live(q) \ Live(p) = X
    OBVIOUS
  <1> SUFFICES ASSUME NEW s \in Owners(p)
               PROVE  /\ Without(p.premise_list[s], None) = Without(q.premise_list[s], X)
                      /\ Without(p.line_list[s], None) = Without(q.line_list[s], X)
    BY <1>1 DEF KeepsPlaces
  <1>2. /\ p.premise_list[s] \in Seq(Live(p)) /\ p.line_list[s] \in Seq(Live(p))
        /\ Entries(p.premise_list[s]) \cap None = {} /\ Entries(p.line_list[s]) \cap None = {}
        /\ Entries(p.premise_list[s]) \cap X = {} /\ Entries(p.line_list[s]) \cap X = {}
    BY ListsAreLive
  <1>3. /\ q.premise_list[s] = p.premise_list[s] \/ Without(q.premise_list[s], X) = p.premise_list[s]
        /\ q.line_list[s] = p.line_list[s] \/ Without(q.line_list[s], X) = p.line_list[s]
    OBVIOUS
  <1> HIDE DEF X, None
  <1>4. /\ Without(p.premise_list[s], None) = p.premise_list[s]
        /\ Without(p.line_list[s], None) = p.line_list[s]
        /\ Without(p.premise_list[s], X) = p.premise_list[s]
        /\ Without(p.line_list[s], X) = p.line_list[s]
    BY <1>2, WithoutNone
  <1> QED BY <1>3, <1>4

(* An operation that removes G filters each list by a set that agrees with *)
(* G on the list.                                                          *)
LEMMA RemovalKeeps ==
  ASSUME NEW p, WellFormed(p), NEW q, NEW G \in SUBSET Live(p), Live(q) = Live(p) \ G,
         \A s \in Owners(p) \cap Owners(q) :
           /\ \E H : /\ q.premise_list[s] = Without(p.premise_list[s], H)
                     /\ Entries(p.premise_list[s]) \cap H = Entries(p.premise_list[s]) \cap G
           /\ \E H : /\ q.line_list[s] = Without(p.line_list[s], H)
                     /\ Entries(p.line_list[s]) \cap H = Entries(p.line_list[s]) \cap G
  PROVE  KeepsPlaces(p, q)
  <1> DEFINE None == {}
  <1>1. Live(p) \ Live(q) = G /\ Live(q) \ Live(p) = None
    OBVIOUS
  <1> SUFFICES ASSUME NEW s \in Owners(p) \cap Owners(q)
               PROVE  /\ Without(p.premise_list[s], G) = Without(q.premise_list[s], None)
                      /\ Without(p.line_list[s], G) = Without(q.line_list[s], None)
    BY <1>1 DEF KeepsPlaces
  <1>2. p.premise_list[s] \in Seq(Live(p)) /\ p.line_list[s] \in Seq(Live(p))
    BY ListsAreLive
  <1>3. /\ q.premise_list[s] = Without(p.premise_list[s], G)
        /\ q.line_list[s] = Without(p.line_list[s], G)
    BY WithoutSame
  <1>4. q.premise_list[s] \in Seq(Live(p)) /\ q.line_list[s] \in Seq(Live(p))
    BY <1>2, <1>3, WithoutProperties
  <1>5. Entries(q.premise_list[s]) \cap None = {} /\ Entries(q.line_list[s]) \cap None = {}
    OBVIOUS
  <1> HIDE DEF None
  <1>6. /\ Without(q.premise_list[s], None) = q.premise_list[s]
        /\ Without(q.line_list[s], None) = q.line_list[s]
    BY <1>4, <1>5, WithoutNone
  <1> QED BY <1>3, <1>6

(* The three ways of adding.                                               *)
LEMMA WithKeeps ==
  ASSUME NEW p, WellFormed(p), NEW s \in Owners(p), NEW x, x \notin Live(p), NEW list
  PROVE  /\ \A e : Without(list, {x}) = p.premise_list[s]
                     => KeepsPlaces(p, WithPremise(p, s, x, e, list))
         /\ \A just : Without(list, {x}) = p.line_list[s]
                     => KeepsPlaces(p, WithStep(p, s, x, just, list))
         /\ x # Root /\ Without(list, {x}) = p.line_list[s]
                     => KeepsPlaces(p, WithSubproof(p, s, x, list))
  <1>t. /\ DOMAIN p.premise_list = Owners(p) /\ DOMAIN p.line_list = Owners(p)
        /\ Root \notin Subs(p)
    BY DEF WellFormed, ProofType, Owners, Subs
  <1>1. ASSUME NEW e, Without(list, {x}) = p.premise_list[s]
        PROVE  KeepsPlaces(p, WithPremise(p, s, x, e, list))
    <2> DEFINE q == WithPremise(p, s, x, e, list)
    <2>1. /\ q.prem_map = Put(p.prem_map, x, e) /\ q.just_map = p.just_map
          /\ q.premise_list = [p.premise_list EXCEPT ![s] = list]
          /\ q.line_list = p.line_list
      BY DEF WithPremise
    <2> HIDE DEF q
    <2>2. Live(q) = Live(p) \cup {x}
      BY <2>1 DEF Live, Lines, Prems, Justs, Subs, Put
    <2>3. \A t \in Owners(p) : q.premise_list[t] = IF t = s THEN list ELSE p.premise_list[t]
      BY <1>t, <2>1
    <2>4. KeepsPlaces(p, q)
      BY <1>1, <2>1, <2>2, <2>3, AdditionKeeps
    <2> QED BY <2>4 DEF q
  <1>2. ASSUME NEW just, Without(list, {x}) = p.line_list[s]
        PROVE  KeepsPlaces(p, WithStep(p, s, x, just, list))
    <2> DEFINE q == WithStep(p, s, x, just, list)
    <2>1. /\ q.prem_map = p.prem_map /\ q.just_map = Put(p.just_map, x, just)
          /\ q.premise_list = p.premise_list
          /\ q.line_list = [p.line_list EXCEPT ![s] = list]
      BY DEF WithStep
    <2> HIDE DEF q
    <2>2. Live(q) = Live(p) \cup {x}
      BY <2>1 DEF Live, Lines, Prems, Justs, Subs, Put
    <2>3. \A t \in Owners(p) : q.line_list[t] = IF t = s THEN list ELSE p.line_list[t]
      BY <1>t, <2>1
    <2>4. KeepsPlaces(p, q)
      BY <1>2, <2>1, <2>2, <2>3, AdditionKeeps
    <2> QED BY <2>4 DEF q
  <1>3. ASSUME x # Root, Without(list, {x}) = p.line_list[s]
        PROVE  KeepsPlaces(p, WithSubproof(p, s, x, list))
    <2> DEFINE q == WithSubproof(p, s, x, list)
    <2>1. /\ q.prem_map = p.prem_map /\ q.just_map = p.just_map
          /\ q.premise_list = Put(p.premise_list, x, <<>>)
          /\ q.line_list = Put([p.line_list EXCEPT ![s] = list], x, <<>>)
      BY DEF WithSubproof
    <2> HIDE DEF q
    <2>2. Live(q) = Live(p) \cup {x}
      BY <1>3, <2>1 DEF Live, Lines, Prems, Justs, Subs, Put
    <2>3. x \notin Owners(p)
      BY <1>3 DEF Owners, Live
    <2>4. \A t \in Owners(p) :
            /\ q.premise_list[t] = p.premise_list[t]
            /\ q.line_list[t] = IF t = s THEN list ELSE p.line_list[t]
      BY <1>t, <2>1, <2>3 DEF Put
    <2>5. KeepsPlaces(p, q)
      BY <1>3, <2>2, <2>4, AdditionKeeps
    <2> QED BY <2>5 DEF q
  <1> QED BY <1>1, <1>2, <1>3

(* Pushing at the end of a list, and inserting next to an entry of it.     *)
LEMMA AddingKeeps ==
  ASSUME NEW p, WellFormed(p)
  PROVE  /\ HasNextKey(Prems(p), MaxPrems) => \A e :
              /\ \A s \in Owners(p) : KeepsPlaces(p, add_premise(p, s, e))
              /\ \A r : \A after \in BOOLEAN : KeepsPlaces(p, add_premise_relative(p, e, r, after))
         /\ HasNextKey(Subs(p), MaxSubs) =>
              /\ \A s \in Owners(p) : KeepsPlaces(p, add_subproof(p, s))
              /\ \A r : \A after \in BOOLEAN : KeepsPlaces(p, add_subproof_relative(p, r, after))
         /\ HasNextKey(Justs(p), MaxSteps) => \A just :
              /\ \A s \in Owners(p) : KeepsPlaces(p, add_step(p, s, just))
              /\ \A r : \A after \in BOOLEAN : KeepsPlaces(p, add_step_relative(p, just, r, after))
              /\ \A s \in Owners(p) : KeepsPlaces(p, prepend_step(p, s, just))
  <1>1. \A r : parent_of(p, r) \in Owners(p)
    BY DEF WellFormed, ProofType, parent_of, Owners
  <1>2. /\ HasNextKey(Prems(p), MaxPrems) => next_premkey(p) \notin Live(p)
        /\ HasNextKey(Justs(p), MaxSteps) => next_justkey(p) \notin Live(p)
        /\ HasNextKey(Subs(p), MaxSubs) => next_subkey(p) \notin Live(p) /\ next_subkey(p) # Root
    BY FreshKeys, KindsDisjoint, ZenonT(40) DEF WellFormed, ProofType, Live, Lines
  <1>3. ASSUME NEW s \in Owners(p), NEW x, x \notin Live(p)
        PROVE  /\ Without(Append(p.premise_list[s], x), {x}) = p.premise_list[s]
               /\ Without(Append(p.line_list[s], x), {x}) = p.line_list[s]
               /\ \A r : \A after \in BOOLEAN :
                    /\ Without(InsertRelative(p.premise_list[s], x, r, after), {x})
                         = p.premise_list[s]
                    /\ Without(InsertRelative(p.line_list[s], x, r, after), {x})
                         = p.line_list[s]
    <2>1. /\ p.premise_list[s] \in Seq(Live(p)) /\ p.line_list[s] \in Seq(Live(p))
          /\ NoRepeats(p.premise_list[s]) /\ NoRepeats(p.line_list[s])
          /\ x \notin Entries(p.premise_list[s]) /\ x \notin Entries(p.line_list[s])
      BY <1>3, ListsAreLive
    <2> QED BY <2>1, WithoutNew
  <1>4. HasNextKey(Prems(p), MaxPrems) => \A e :
          /\ \A s \in Owners(p) : KeepsPlaces(p, add_premise(p, s, e))
          /\ \A r : \A after \in BOOLEAN : KeepsPlaces(p, add_premise_relative(p, e, r, after))
    BY <1>1, <1>2, <1>3, WithKeeps DEF add_premise, add_premise_relative
  <1>5. HasNextKey(Subs(p), MaxSubs) =>
          /\ \A s \in Owners(p) : KeepsPlaces(p, add_subproof(p, s))
          /\ \A r : \A after \in BOOLEAN : KeepsPlaces(p, add_subproof_relative(p, r, after))
    BY <1>1, <1>2, <1>3, WithKeeps DEF add_subproof, add_subproof_relative
  <1>6. HasNextKey(Justs(p), MaxSteps) => \A just :
          /\ \A s \in Owners(p) : KeepsPlaces(p, add_step(p, s, just))
          /\ \A r : \A after \in BOOLEAN : KeepsPlaces(p, add_step_relative(p, just, r, after))
    BY <1>1, <1>2, <1>3, WithKeeps DEF add_step, add_step_relative
  <1>7. HasNextKey(Justs(p), MaxSteps) => \A just :
          \A s \in Owners(p) : KeepsPlaces(p, prepend_step(p, s, just))
    BY <1>6 DEF prepend_step
  <1> QED BY <1>4, <1>5, <1>6, <1>7

(* Rewriting a line.                                                       *)
LEMMA RewritingKeeps ==
  ASSUME NEW p, WellFormed(p)
  PROVE  /\ \A r \in Prems(p) : \A e : KeepsPlaces(p, with_mut_premise(p, r, e))
         /\ \A r \in Justs(p) : \A just : KeepsPlaces(p, with_mut_step(p, r, just))
  <1>1. p = [prem_map |-> p.prem_map, just_map |-> p.just_map,
             premise_list |-> p.premise_list, line_list |-> p.line_list,
             containing_subproof |-> p.containing_subproof]
    BY DEF WellFormed, ProofType
  <1>2. ASSUME NEW q, q.premise_list = p.premise_list, q.line_list = p.line_list,
               Live(q) = Live(p)
        PROVE  KeepsPlaces(p, q)
    BY <1>2 DEF KeepsPlaces
  <1>3. ASSUME NEW r, NEW e PROVE KeepsPlaces(p, with_mut_premise(p, r, e))
    <2> DEFINE q == with_mut_premise(p, r, e)
    <2>1. q = [prem_map |-> [p.prem_map EXCEPT ![r] = e], just_map |-> p.just_map,
               premise_list |-> p.premise_list, line_list |-> p.line_list,
               containing_subproof |-> p.containing_subproof]
      BY <1>1 DEF with_mut_premise
    <2> HIDE DEF q
    <2>2. Live(q) = Live(p) /\ q.premise_list = p.premise_list /\ q.line_list = p.line_list
      BY <2>1 DEF Live, Lines, Prems, Justs, Subs
    <2>3. KeepsPlaces(p, q)
      BY <1>2, <2>2
    <2> QED BY <2>3 DEF q
  <1>4. ASSUME NEW r, NEW just PROVE KeepsPlaces(p, with_mut_step(p, r, just))
    <2> DEFINE q == with_mut_step(p, r, just)
    <2>1. q = [prem_map |-> p.prem_map, just_map |-> [p.just_map EXCEPT ![r] = just],
               premise_list |-> p.premise_list, line_list |-> p.line_list,
               containing_subproof |-> p.containing_subproof]
      BY <1>1 DEF with_mut_step
    <2> HIDE DEF q
    <2>2. Live(q) = Live(p) /\ q.premise_list = p.premise_list /\ q.line_list = p.line_list
      BY <2>1 DEF Live, Lines, Prems, Justs, Subs
    <2>3. KeepsPlaces(p, q)
      BY <1>2, <2>2
    <2> QED BY <2>3 DEF q
  <1> QED BY <1>3, <1>4

(* Removing a line, called on the top-level proof or on the subproof that  *)
(* the line is in; and removing a subproof.                                *)
LEMMA RemovingKeeps ==
  ASSUME NEW p, WellFormed(p)
  PROVE  /\ \A r \in Lines(p) : \A self :
              self \in {Root, parent_of(p, r)} => KeepsPlaces(p, remove_line(p, self, r))
         /\ \A s \in Subs(p) : KeepsPlaces(p, remove_subproof(p, s))
  <1>t. ProofType(p) /\ ListedOnce(p)
    BY DEF WellFormed
  <1>d. DOMAIN p.premise_list = Owners(p) /\ DOMAIN p.line_list = Owners(p)
    BY <1>t DEF ProofType, Owners
  <1>r. Root \notin Live(p) /\ \A x \in Lines(p) : x \notin Subs(p)
    BY <1>t, KindsDisjoint DEF ProofType, Live, Lines
  <1>e. \A s \in Owners(p) :
          /\ Entries(p.premise_list[s]) = {x \in Prems(p) : parent_of(p, x) = s}
          /\ Entries(p.line_list[s]) = {x \in Justs(p) \cup Subs(p) : parent_of(p, x) = s}
    BY <1>t DEF ListedOnce, Owners
  <1>s. \A s \in Owners(p) :
          /\ p.premise_list[s] = Without(p.premise_list[s], {})
          /\ p.line_list[s] = Without(p.line_list[s], {})
    <2> SUFFICES ASSUME NEW s \in Owners(p), NEW l \in Seq(Live(p)) PROVE Without(l, {}) = l
      BY ListsAreLive
    <2> DEFINE N == {}
    <2>1. Entries(l) \cap N = {}
      OBVIOUS
    <2> HIDE DEF N
    <2>2. Without(l, N) = l
      BY <2>1, WithoutNone
    <2> QED BY <2>2 DEF N
  <1>1. ASSUME NEW r \in Lines(p), NEW self \in {Root, parent_of(p, r)}
        PROVE  KeepsPlaces(p, remove_line(p, self, r))
    <2> DEFINE q == remove_line(p, self, r)
               Cleaned(lists, s) ==
                 IF s = Root /\ self # Root THEN lists[s] ELSE Without(lists[s], {r})
    <2>1. /\ q.prem_map = Drop(p.prem_map, {r}) /\ DOMAIN q.just_map = Justs(p) \ {r}
          /\ q.premise_list = [s \in DOMAIN p.premise_list |-> Cleaned(p.premise_list, s)]
          /\ q.line_list = [s \in DOMAIN p.line_list |-> Cleaned(p.line_list, s)]
      BY DEF remove_line, remove_line_helper
    <2> HIDE DEF q
    <2>2. Live(q) = Live(p) \ {r} /\ {r} \in SUBSET Live(p)
      <3>1. Prems(q) = Prems(p) \ {r} /\ Justs(q) = Justs(p) \ {r} /\ Subs(q) = Subs(p)
        BY <2>1 DEF Prems, Justs, Subs, Drop
      <3> QED BY <1>r, <3>1 DEF Live, Lines
    <2>3. ASSUME NEW s \in Owners(p)
          PROVE  /\ \E H : /\ q.premise_list[s] = Without(p.premise_list[s], H)
                           /\ Entries(p.premise_list[s]) \cap H = Entries(p.premise_list[s]) \cap {r}
                 /\ \E H : /\ q.line_list[s] = Without(p.line_list[s], H)
                           /\ Entries(p.line_list[s]) \cap H = Entries(p.line_list[s]) \cap {r}
      <3>1. CASE s = Root /\ self # Root
        <4>1. /\ q.premise_list[s] = Without(p.premise_list[s], {})
              /\ q.line_list[s] = Without(p.line_list[s], {})
          BY <1>d, <1>s, <2>1, <3>1
        <4>2. r \notin Entries(p.premise_list[s]) /\ r \notin Entries(p.line_list[s])
          BY <1>e, <3>1
        <4>3. /\ Entries(p.premise_list[s]) \cap {} = Entries(p.premise_list[s]) \cap {r}
              /\ Entries(p.line_list[s]) \cap {} = Entries(p.line_list[s]) \cap {r}
          BY <4>2
        <4> QED BY <4>1, <4>3
      <3>2. CASE ~(s = Root /\ self # Root)
        <4>1. /\ q.premise_list[s] = Without(p.premise_list[s], {r})
              /\ q.line_list[s] = Without(p.line_list[s], {r})
          BY <1>d, <2>1, <3>2
        <4> QED BY <4>1
      <3> QED BY <3>1, <3>2
    <2>4. KeepsPlaces(p, q)
      <3> DEFINE G == {r}
      <3>1. /\ G \in SUBSET Live(p) /\ Live(q) = Live(p) \ G
            /\ \A s \in Owners(p) \cap Owners(q) :
                 /\ \E H : /\ q.premise_list[s] = Without(p.premise_list[s], H)
                           /\ Entries(p.premise_list[s]) \cap H = Entries(p.premise_list[s]) \cap G
                 /\ \E H : /\ q.line_list[s] = Without(p.line_list[s], H)
                           /\ Entries(p.line_list[s]) \cap H = Entries(p.line_list[s]) \cap G
        BY <2>2, <2>3
      <3> HIDE DEF G
      <3> QED BY <3>1, RemovalKeeps, ZenonT(40)
    <2> QED BY <2>4 DEF q
  <1>2. ASSUME NEW s \in Subs(p) PROVE KeepsPlaces(p, remove_subproof(p, s))
    <2> DEFINE q == remove_subproof(p, s)
               G == inside(p, s)
    <2>1. /\ q.prem_map = Drop(p.prem_map, G) /\ DOMAIN q.just_map = Justs(p) \ G
          /\ q.premise_list = [t \in DOMAIN p.premise_list \ G |->
               IF t = Root THEN p.premise_list[t] ELSE Without(p.premise_list[t], G)]
          /\ q.line_list = [t \in DOMAIN p.line_list \ G |->
               Without(p.line_list[t], IF t = Root THEN {s} ELSE G)]
      BY DEF remove_subproof, remove_line_helper
    <2>2. /\ G \in SUBSET Live(p) /\ s \in G /\ Root \notin G
          /\ \A y \in G : parent_of(p, y) = Root => y = s
      BY InsideSubproof
    <2> HIDE DEF q, G
    <2>3. Live(q) = Live(p) \ G /\ Owners(q) = Owners(p) \ G
      <3>1. Prems(q) = Prems(p) \ G /\ Justs(q) = Justs(p) \ G
        BY <2>1 DEF Prems, Justs, Drop
      <3>2. DOMAIN q.line_list = Owners(p) \ G
        BY <1>d, <2>1
      <3>3. Subs(q) = Subs(p) \ G
        BY <1>r, <3>2 DEF Subs, Owners, Live
      <3> QED BY <2>2, <3>1, <3>3 DEF Live, Lines, Owners
    <2>4. ASSUME NEW t \in Owners(p) \cap Owners(q)
          PROVE  /\ \E H : /\ q.premise_list[t] = Without(p.premise_list[t], H)
                           /\ Entries(p.premise_list[t]) \cap H = Entries(p.premise_list[t]) \cap G
                 /\ \E H : /\ q.line_list[t] = Without(p.line_list[t], H)
                           /\ Entries(p.line_list[t]) \cap H = Entries(p.line_list[t]) \cap G
      <3>0. t \in Owners(p) \ G
        BY <2>3
      <3>1. CASE t = Root
        <4>1. /\ q.premise_list[t] = Without(p.premise_list[t], {})
              /\ q.line_list[t] = Without(p.line_list[t], {s})
          BY <1>d, <1>s, <2>1, <3>0, <3>1
        <4>2. s \notin Prems(p)
          BY <1>r DEF Lines
        <4>3. Entries(p.premise_list[t]) \cap {} = Entries(p.premise_list[t]) \cap G
          BY <1>e, <2>2, <3>0, <3>1, <4>2
        <4>4. Entries(p.line_list[t]) \cap {s} = Entries(p.line_list[t]) \cap G
          BY <1>e, <2>2, <3>0, <3>1
        <4> QED BY <4>1, <4>3, <4>4
      <3>2. CASE t # Root
        <4>1. /\ q.premise_list[t] = Without(p.premise_list[t], G)
              /\ q.line_list[t] = Without(p.line_list[t], G)
          BY <1>d, <2>1, <3>0, <3>2
        <4> QED BY <4>1
      <3> QED BY <3>1, <3>2
    <2>5. KeepsPlaces(p, q)
      BY <2>2, <2>3, <2>4, RemovalKeeps
    <2> QED BY <2>5 DEF q
  <1> QED BY <1>1, <1>2

(* An edit only adds or removes: what is there before and after it keeps   *)
(* its list and its place among the others of that list.                   *)
THEOREM PooledEditsKeepOrder == Spec => EditsKeepOrder
  <1>1. ASSUME WellFormed(proof), [Next]_proof PROVE [KeepsOrder]_proof
    <2> SUFFICES ASSUME Next PROVE KeepsPlaces(proof, proof')
      BY <1>1 DEF KeepsOrder, KeepsPlaces, Owners, Live, Lines, Prems, Justs, Subs
    <2>1. ASSUME NEW s \in Owners(proof), NEW e \in Exprs, AddPremise(s, e)
          PROVE  KeepsPlaces(proof, proof')
      BY <1>1, <2>1, AddingKeeps DEF AddPremise, RoomForPremise
    <2>2. ASSUME NEW s \in Owners(proof), AddSubproof(s)
          PROVE  KeepsPlaces(proof, proof')
      BY <1>1, <2>2, AddingKeeps DEF AddSubproof, RoomForSubproof
    <2>3. ASSUME NEW s \in Owners(proof), NEW just \in Justifications(proof),
                 AddStep(s, just) \/ PrependStep(s, just)
          PROVE  KeepsPlaces(proof, proof')
      BY <1>1, <2>3, AddingKeeps DEF AddStep, PrependStep, RoomForStep
    <2>4. ASSUME NEW r \in Prems(proof), NEW e \in Exprs, NEW after \in BOOLEAN,
                 AddPremiseRelative(e, r, after)
          PROVE  KeepsPlaces(proof, proof')
      BY <1>1, <2>4, AddingKeeps DEF AddPremiseRelative, RoomForPremise
    <2>5. ASSUME NEW r \in Justs(proof) \cup Subs(proof), NEW after \in BOOLEAN,
                 AddSubproofRelative(r, after)
          PROVE  KeepsPlaces(proof, proof')
      BY <1>1, <2>5, AddingKeeps DEF AddSubproofRelative, RoomForSubproof
    <2>6. ASSUME NEW r \in Justs(proof) \cup Subs(proof), NEW after \in BOOLEAN,
                 NEW just \in Justifications(proof), AddStepRelative(just, r, after)
          PROVE  KeepsPlaces(proof, proof')
      BY <1>1, <2>6, AddingKeeps DEF AddStepRelative, RoomForStep
    <2>7. ASSUME NEW r \in Prems(proof), NEW e \in Exprs, SetPremise(r, e)
          PROVE  KeepsPlaces(proof, proof')
      BY <1>1, <2>7, RewritingKeeps DEF SetPremise
    <2>8. ASSUME NEW r \in Justs(proof), NEW just \in Justifications(proof), SetStep(r, just)
          PROVE  KeepsPlaces(proof, proof')
      BY <1>1, <2>8, RewritingKeeps DEF SetStep
    <2>9. ASSUME NEW r \in Lines(proof), NEW self \in Owners(proof), RemoveLine(r, self)
          PROVE  KeepsPlaces(proof, proof')
      BY <1>1, <2>9, RemovingKeeps DEF RemoveLine
    <2>10. ASSUME NEW s \in Subs(proof), RemoveSubproof(s)
           PROVE  KeepsPlaces(proof, proof')
      BY <1>1, <2>10, RemovingKeeps DEF RemoveSubproof
    <2> QED
      BY <2>1, <2>2, <2>3, <2>4, <2>5, <2>6, <2>7, <2>8, <2>9, <2>10 DEF Next, Owners
  <1> QED BY <1>1, InitWF, NextWF, PTL DEF Spec, EditsKeepOrder
=============================================================================
