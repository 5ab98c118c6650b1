----------------------- MODULE PooledReasoningProofs -----------------------
(***************************************************************************)
(* Steps whose references are in scope do not rest on each other in a      *)
(* circle.  The argument finds, in any set of such steps, the one that is  *)
(* read first: from the top level it goes down, at each level, into the    *)
(* first entry that is or holds a step of the set.                         *)
(***************************************************************************)
EXTENDS LineOrder, PooledProofProofs

(* A set of naturals has a least element.                                  *)
LEMMA LeastNat ==
  ASSUME NEW T \in SUBSET Nat, T # {}
  PROVE  \E n \in T : \A m \in T : n <= m
  <1> DEFINE R == OpToRel(<, Nat)
  <1>1. IsWellFoundedOn(R, Nat)
    BY NatLessThanWellFounded
  <1>2. \A m, n \in Nat : m < n => <<m, n>> \in R
    BY DEF OpToRel
  <1> HIDE DEF R
  <1>3. PICK n \in T : \A m \in T : ~(<<m, n>> \in R)
    BY <1>1, WFMin
  <1>4. \A m \in T : ~(m < n)
    BY <1>2, <1>3
  <1>5. \A m \in T : n <= m
    BY <1>4
  <1> QED BY <1>5

(* The subproofs around an entry of t are t and those around t.            *)
LEMMA AroundEntry ==
  ASSUME NEW p, WellFormed(p), NEW x, NEW t, parent_of(p, x) = t
  PROVE  transitive_parents(p, x) \subseteq ({t} \cup transitive_parents(p, t)) \ {Root}
  <1> DEFINE up == [s \in Subs(p) |-> {parent_of(p, s)} \ {Root}]
             B == {parent_of(p, t)} \ {Root}
             A == Closure(up, B)
             C == ({t} \ {Root}) \cup A
  <1>1. transitive_parents(p, t) = A /\ transitive_parents(p, x) = Closure(up, {t} \ {Root})
    BY DEF transitive_parents
  <1>2. \A y : parent_of(p, y) \in Subs(p) \cup {Root}
    BY DEF WellFormed, ProofType, parent_of
  <1>3. /\ DOMAIN up = Subs(p) /\ Root \notin Subs(p)
        /\ \A s \in Subs(p) : up[s] = {parent_of(p, s)} \ {Root}
    BY DEF Subs
  <1> HIDE DEF up
  <1>4. A \subseteq Subs(p) /\ B \subseteq A
    BY <1>2, <1>3 DEF Closure
  <1>5. \A s \in A : up[s] \subseteq A
    <2> SUFFICES ASSUME NEW s \in A, NEW y \in up[s],
                        NEW D \in SUBSET Subs(p), B \subseteq D, IsClosed(up, D)
                 PROVE  y \in D
      BY <1>2, <1>3, <1>4 DEF Closure
    <2>1. s \in D
      BY <1>3 DEF Closure
    <2> QED BY <2>1 DEF IsClosed
  <1>6. C \in SUBSET Subs(p) /\ {t} \ {Root} \subseteq C
    BY <1>2, <1>4
  <1>7. IsClosed(up, C)
    <2> SUFFICES ASSUME NEW s \in C PROVE up[s] \subseteq C
      BY DEF IsClosed
    <2>1. CASE s \in A
      BY <1>5, <2>1
    <2>2. CASE s = t /\ s # Root
      <3>1. up[s] = B
        BY <1>3, <1>6, <2>2
      <3> QED BY <1>4, <3>1
    <2> QED BY <2>1, <2>2
  <1> HIDE DEF C, A, B
  <1>8. Closure(up, {t} \ {Root}) \subseteq C
    BY <1>3, <1>6, <1>7 DEF Closure
  <1> QED BY <1>1, <1>3, <1>4, <1>8 DEF C

(* What is in a subproof t is t, and what is in the subproofs listed in t; *)
(* a subproof is in no subproof of its own.                                *)
LEMMA NestedInEntries ==
  ASSUME NEW p, WellFormed(p), NEW t \in Subs(p)
  PROVE  /\ \A y \in nested_subproofs(p, t) :
              y = t \/ \E c \in Subs(p) : parent_of(p, c) = t /\ y \in nested_subproofs(p, c)
         /\ \A c \in Subs(p) : parent_of(p, c) = t =>
              nested_subproofs(p, c) \subseteq nested_subproofs(p, t) \ {t}
  <1> DEFINE N(c) == nested_subproofs(p, c)
             down == [s \in Subs(p) |-> Entries(p.line_list[s]) \cap Subs(p)]
             C == {y \in Subs(p) : y = t \/ \E c \in Subs(p) : parent_of(p, c) = t /\ y \in N(c)}
  <1>1. \A s, y \in Subs(p) : y \in down[s] <=> parent_of(p, y) = s
    BY DEF WellFormed, ListedOnce
  <1>2. DOMAIN down = Subs(p) /\ \A s \in Subs(p) : down[s] \subseteq Subs(p)
    OBVIOUS
  <1>3. \A c \in Subs(p) :
          /\ c \in N(c) /\ N(c) \subseteq Subs(p)
          /\ \A y \in Subs(p) : parent_of(p, y) \in N(c) => y \in N(c)
          /\ \A y \in N(c) : y # c => parent_of(p, y) \in N(c)
    BY NestedSubproofs
  <1>4. \A c : N(c) = Closure(down, {c})
    BY DEF nested_subproofs
  <1> HIDE DEF N, down
  <1>5. \A c : \A B \in SUBSET Subs(p) : c \in B /\ IsClosed(down, B) => N(c) \subseteq B
    BY <1>2, <1>4 DEF Closure
  <1>6. N(t) \subseteq C
    <2>1. C \in SUBSET Subs(p) /\ t \in C
      OBVIOUS
    <2>2. IsClosed(down, C)
      <3> SUFFICES ASSUME NEW s \in C, NEW y \in down[s] PROVE y \in C
        BY DEF IsClosed
      <3>1. s \in Subs(p) /\ y \in Subs(p) /\ parent_of(p, y) = s
        BY <1>1, <1>2
      <3>2. CASE s = t
        BY <1>3, <3>1, <3>2
      <3>3. CASE s # t
        <4>1. PICK c \in Subs(p) : parent_of(p, c) = t /\ s \in N(c)
          BY <3>3
        <4> QED BY <1>3, <3>1, <4>1
      <3> QED BY <3>2, <3>3
    <2> QED BY <1>5, <2>1, <2>2
  <1>7. ASSUME NEW c \in Subs(p), parent_of(p, c) = t
        PROVE  N(c) \subseteq N(t) \ {t}
    <2>1. c \in N(t)
      BY <1>3, <1>7
    <2>2. IsClosed(down, N(t))
      BY <1>1, <1>2, <1>3 DEF IsClosed
    <2>3. N(c) \subseteq N(t)
      BY <1>3, <1>5, <2>1, <2>2
    <2>4. t \notin N(c)
      <3> SUFFICES ASSUME t \in N(c) PROVE FALSE
        OBVIOUS
      <3>1. N(c) \in SUBSET Subs(p) /\ N(c) # {} /\ \A y \in N(c) : parent_of(p, y) \in N(c)
        BY <1>3, <1>7
      <3> QED BY <3>1 DEF WellFormed, NestingEnds
    <2> QED BY <2>3, <2>4
  <1> QED BY <1>6, <1>7 DEF N

(* What comes before the entry at position i of a list of lines, and is    *)
(* not a premise, is at an earlier position.                               *)
LEMMA EarlierInList ==
  ASSUME NEW p, WellFormed(p), NEW t \in Owners(p), NEW i \in DOMAIN p.line_list[t],
         parent_of(p, p.line_list[t][i]) = t, NEW y \in Earlier(p, p.line_list[t][i])
  PROVE  \/ y \in Prems(p)
         \/ \E k \in DOMAIN p.line_list[t] : k < i /\ y = p.line_list[t][k]
  <1> DEFINE a == p.premise_list[t]
             b == p.line_list[t]
             all == a \o b
  <1>1. a \in Seq(Prems(p)) /\ b \in Seq(Justs(p) \cup Subs(p))
    BY DEF WellFormed, ProofType, Owners
  <1>2. PICK n \in DOMAIN all : y = all[n] /\ \A j \in 1 .. n : all[j] # b[i]
    BY DEF Earlier
  <1> HIDE DEF a, b
  <1>3. /\ Len(a) \in Nat /\ Len(b) \in Nat /\ DOMAIN all = 1 .. Len(a) + Len(b)
        /\ \A j \in 1 .. Len(a) : all[j] = a[j]
        /\ \A j \in 1 .. Len(b) : all[Len(a) + j] = b[j]
        /\ DOMAIN b = 1 .. Len(b)
    <2> DEFINE T == Prems(p) \cup Justs(p) \cup Subs(p)
    <2>1. a \in Seq(T) /\ b \in Seq(T)
      BY <1>1
    <2> HIDE DEF T
    <2> QED BY <2>1
  <1> HIDE DEF all
  <1>4. CASE n <= Len(a)
    BY <1>1, <1>2, <1>3, <1>4
  <1>5. CASE n > Len(a)
    <2>1. i \in 1 .. Len(b)
      BY <1>3 DEF b
    <2>2. n - Len(a) \in 1 .. Len(b) /\ Len(a) + (n - Len(a)) = n
      BY <1>2, <1>3, <1>5
    <2>3. y = b[n - Len(a)]
      BY <1>2, <1>3, <2>2
    <2>4. ~(Len(a) + i <= n)
      BY <1>2, <1>3, <2>1
    <2>5. n - Len(a) < i
      BY <1>2, <1>3, <2>1, <2>4
    <2> QED BY <1>3, <2>2, <2>3, <2>5 DEF b
  <1> QED BY <1>2, <1>3, <1>4, <1>5

(* The subproofs of a well-formed proof are finitely many in every state   *)
(* the trait reaches, since each call adds at most one.                    *)
FewSubproofs(p) == IsFiniteSet(Subs(p))

(* In a well-formed proof, a set of steps whose references verify_line     *)
(* finds in scope has a step that rests on no other of them.               *)
LEMMA ReasoningIsOrdered ==
  ASSUME NEW p, WellFormed(p), FewSubproofs(p)
  PROVE  NoCircularReasoning(p)
  <1> SUFFICES ASSUME NEW S \in SUBSET {j \in Justs(p) : RefsInScope(p, j)}, S # {}
               PROVE  \E j \in S : RestsOn(p, j) \cap S = {}
    BY DEF NoCircularReasoning
  <1> DEFINE N(t) == nested_subproofs(p, t)
             Holding == {t \in Subs(p) : contained_justifications(p, t) \cap S # {}}
             Marked == S \cup Holding
             Around(t) == ({t} \cup transitive_parents(p, t)) \ {Root}
             Unmarked(t) == \A x \in Around(t) : Earlier(p, x) \cap Marked = {}
             First == {t \in Owners(p) : (t = Root \/ t \in Holding) /\ Unmarked(t)}
             l(t) == p.line_list[t]
  <1>k. /\ S \subseteq Justs(p) /\ \A j \in S : RefsInScope(p, j)
        /\ Holding \subseteq Subs(p) /\ Prems(p) \cap Marked = {} /\ Root \notin Subs(p)
        /\ Justs(p) \cap Subs(p) = {}
    BY KindsDisjoint DEF WellFormed, ProofType, Subs
  <1>p. \A y : parent_of(p, y) \in Owners(p)
    BY DEF WellFormed, ProofType, parent_of, Owners
  <1>e. \A t \in Owners(p) : \A y :
          y \in Entries(l(t)) <=> y \in Justs(p) \cup Subs(p) /\ parent_of(p, y) = t
    BY DEF WellFormed, ListedOnce, Owners
  <1>l. \A t \in Owners(p) : l(t) \in Seq(Justs(p) \cup Subs(p))
    BY DEF WellFormed, ProofType, Owners
  <1>h. \A t \in Subs(p) : t \in Holding <=> \E j \in S, u \in N(t) : parent_of(p, j) = u
    <2>1. \A t \in Subs(p) : N(t) \subseteq Subs(p)
      BY NestedSubproofs
    <2>2. \A t \in Subs(p), j \in S :
            j \in contained_justifications(p, t) <=> \E u \in N(t) : parent_of(p, j) = u
      BY <1>e, <1>k, <2>1 DEF contained_justifications, Owners
    <2> QED BY <2>2
  <1>n. \A t \in Subs(p) :
          /\ t \in N(t) /\ N(t) \subseteq Subs(p)
          /\ \A y \in N(t) : y = t \/ \E c \in Subs(p) : parent_of(p, c) = t /\ y \in N(c)
          /\ \A c \in Subs(p) : parent_of(p, c) = t => N(c) \subseteq N(t) \ {t}
    BY NestedSubproofs, NestedInEntries
  (* A level that holds a step of S has a marked entry.                    *)
  <1>1. \A t \in Owners(p) : t = Root \/ t \in Holding => \E y \in Entries(l(t)) : y \in Marked
    <2> HIDE DEF l, N
    <2>1. ASSUME NEW t \in Holding PROVE \E y \in Entries(l(t)) : y \in Marked
      <3>1. PICK j \in S, u \in N(t) : parent_of(p, j) = u
        BY <1>h, <1>k
      <3>2. CASE u = t
        BY <1>e, <1>k, <3>1, <3>2 DEF Owners
      <3>3. CASE u # t
        <4>1. PICK c \in Subs(p) : parent_of(p, c) = t /\ u \in N(c)
          BY <1>k, <1>n, <3>3
        <4>2. c \in Holding
          BY <1>h, <3>1, <4>1
        <4> QED BY <1>e, <1>k, <4>1, <4>2 DEF Owners
      <3> QED BY <3>2, <3>3
    <2>2. \E y \in Entries(l(Root)) : y \in Marked
      <3>1. PICK j \in S : TRUE
        OBVIOUS
      <3>2. CASE parent_of(p, j) = Root
        BY <1>e, <1>k, <3>2 DEF Owners
      <3>3. CASE parent_of(p, j) # Root
        <4> DEFINE A == {t \in Subs(p) : parent_of(p, j) \in N(t)}
        <4>1. parent_of(p, j) \in A
          BY <1>n, <1>p, <3>3 DEF Owners
        <4>2. PICK t \in A : parent_of(p, t) \notin A
          BY <4>1 DEF WellFormed, NestingEnds
        <4>3. parent_of(p, t) = Root
          BY <1>n, <1>p, <4>2 DEF Owners
        <4>4. t \in Holding
          BY <1>h, <4>2
        <4> QED BY <1>e, <1>k, <4>3, <4>4 DEF Owners
      <3> QED BY <3>2, <3>3
    <2> QED BY <2>1, <2>2
  (* Go down to a level in First with no further level of First in it.     *)
  <1>2. \E t \in First : \A c \in First : c # Root => parent_of(p, c) # t
    <2> HIDE DEF N, Holding, Unmarked
    <2>1. Root \in First
      <3>1. Around(Root) = {}
        <4>1. parent_of(p, Root) = Root
          BY KindsDisjoint DEF WellFormed, ProofType, parent_of, Live, Lines
        <4>2. transitive_parents(p, Root) = {}
          <5> DEFINE up == [s \in Subs(p) |-> {parent_of(p, s)} \ {Root}]
          <5>1. transitive_parents(p, Root) = Closure(up, {})
            BY <4>1 DEF transitive_parents
          <5>2. {} \in SUBSET DOMAIN up /\ IsClosed(up, {})
            BY DEF IsClosed
          <5> QED BY <5>1, <5>2 DEF Closure
        <4> QED BY <4>2
      <3> QED BY <3>1 DEF Owners, Unmarked
    <2>2. CASE \A c \in First : c = Root
      BY <2>1, <2>2
    <2>3. CASE \E c \in First : c # Root
      <3> DEFINE size(t) == Cardinality(N(t))
                 M == {size(t) : t \in First \ {Root}}
      <3>1. First \ {Root} \subseteq Subs(p)
        BY DEF Owners
      <3>2. \A t \in Subs(p) : IsFiniteSet(N(t)) /\ size(t) \in Nat
        BY <1>n, FS_Subset, FS_CardinalityType DEF FewSubproofs
      <3>3. M \in SUBSET Nat /\ M # {}
        BY <2>3, <3>1, <3>2
      <3>4. PICK t \in First \ {Root} : \A c \in First \ {Root} : size(t) <= size(c)
        <4> HIDE DEF First, size
        <4>1. PICK n \in M : \A m \in M : n <= m
          <5> HIDE DEF M
          <5> QED BY <3>3, LeastNat
        <4>2. PICK t \in First \ {Root} : n = size(t)
          OBVIOUS
        <4>3. \A c \in First \ {Root} : size(c) \in M
          OBVIOUS
        <4> QED BY <4>1, <4>2, <4>3
      <3>5. ASSUME NEW c \in First \ {Root}, parent_of(p, c) = t PROVE FALSE
        <4>1. N(c) \in SUBSET N(t) /\ t \in N(t) /\ t \notin N(c) /\ t \in Subs(p) /\ c \in Subs(p)
          BY <1>n, <3>1, <3>5
        <4>2. size(c) <= size(t) /\ size(c) # size(t)
          BY <3>2, <4>1, FS_Subset
        <4>3. size(t) <= size(c)
          BY <3>4
        <4> HIDE DEF size
        <4> QED BY <3>2, <4>1, <4>2, <4>3
      <3> QED BY <3>4, <3>5
    <2> QED BY <2>2, <2>3
  <1>3. PICK t \in First : \A c \in First : c # Root => parent_of(p, c) # t
    BY <1>2
  <1>4. t \in Owners(p) /\ (t = Root \/ t \in Holding) /\ Unmarked(t)
    OBVIOUS
  <1>5. PICK i \in DOMAIN l(t) : l(t)[i] \in Marked /\ \A k \in DOMAIN l(t) : k < i => l(t)[k] \notin Marked
    <2> DEFINE I == {k \in DOMAIN l(t) : l(t)[k] \in Marked}
    <2> HIDE DEF Marked, First, Unmarked, Holding
    <2>1. I # {}
      BY <1>1, <1>4 DEF Entries
    <2>2. DOMAIN l(t) \subseteq Nat
      BY <1>4, <1>l
    <2>3. I \in SUBSET Nat
      BY <2>2
    <2> HIDE DEF l
    <2>4. PICK i \in I : \A m \in I : i <= m
      <3> HIDE DEF I
      <3> QED BY <2>1, <2>3, LeastNat
    <2>5. \A k \in DOMAIN l(t) : k < i => l(t)[k] \notin Marked
      BY <2>2, <2>4
    <2> QED BY <2>4, <2>5
  <1> DEFINE x == l(t)[i]
  <1>6. x \in Justs(p) \cup Subs(p) /\ parent_of(p, x) = t
    BY <1>4, <1>e DEF Entries
  (* Nothing marked comes before x, at any level.                          *)
  <1>7. Unmarked(x)
    <2> SUFFICES ASSUME NEW z \in Around(x) PROVE Earlier(p, z) \cap Marked = {}
      OBVIOUS
    <2>1. CASE z = x
      <3> SUFFICES ASSUME NEW y \in Earlier(p, x), y \in Marked PROVE FALSE
        BY <2>1
      <3>1. \/ y \in Prems(p)
            \/ \E k \in DOMAIN l(t) : k < i /\ y = l(t)[k]
        BY <1>4, <1>6, EarlierInList
      <3> HIDE DEF Marked
      <3> QED BY <1>5, <1>k, <3>1
    <2>2. CASE z # x
      <3>1. z \in ({t} \cup transitive_parents(p, t)) \ {Root}
        BY <1>6, <2>2, AroundEntry
      <3> QED BY <1>4, <3>1
    <2> QED BY <2>1, <2>2
  <1>8. x \in S
    <2> SUFFICES ASSUME x \in Holding PROVE FALSE
      BY <1>5
    <2>1. x \in First /\ x # Root
      BY <1>7, <1>k DEF Owners
    <2> QED BY <1>3, <1>6, <2>1
  <1>9. RestsOn(p, x) \cap S = {}
    <2> SUFFICES ASSUME NEW y \in S, y \in RestsOn(p, x) PROVE FALSE
      OBVIOUS
    <2>1. \A z \in p.just_map[x].deps \cup p.just_map[x].sdeps :
            \E w \in {x} \cup transitive_parents(p, x) : z \in Earlier(p, w)
      BY <1>8, <1>k DEF RefsInScope, can_reference_dep, possible_deps_for_line
    <2>2. Root \notin {x} \cup transitive_parents(p, x)
      <3>1. x # Root
        BY <1>6, KindsDisjoint DEF WellFormed, ProofType
      <3> QED BY <1>6, <3>1, AroundEntry
    <2>3. \A z \in p.just_map[x].deps \cup p.just_map[x].sdeps : z \notin Marked
      <3> HIDE DEF Marked, x
      <3> QED BY <1>7, <2>1, <2>2
    <2>4. CASE y \in p.just_map[x].deps
      BY <2>3, <2>4
    <2>5. CASE y \notin p.just_map[x].deps
      <3>1. PICK s \in p.just_map[x].sdeps : y \in contained_justifications(p, s)
        BY <2>5 DEF RestsOn
      <3>2. s \in Subs(p)
        BY <1>8, <1>k DEF WellFormed, NoDanglingRefs
      <3>3. s \in Holding
        BY <3>1, <3>2
      <3> QED BY <2>3, <3>3
    <2> QED BY <2>4, <2>5
  <1> QED BY <1>8, <1>9

(* No operation adds more than one subproof.                               *)
LEMMA AtMostOneMore ==
  ASSUME NEW p, WellFormed(p)
  PROVE  LET More == Subs(p) \cup {next_subkey(p)}
         IN  /\ \A s \in Owners(p), e \in Exprs : Subs(add_premise(p, s, e)) \subseteq More
             /\ \A s \in Owners(p) : Subs(add_subproof(p, s)) \subseteq More
             /\ \A s \in Owners(p) : \A just : Subs(add_step(p, s, just)) \subseteq More
             /\ \A s \in Owners(p) : \A just : Subs(prepend_step(p, s, just)) \subseteq More
             /\ \A e, r, after : Subs(add_premise_relative(p, e, r, after)) \subseteq More
             /\ \A r, after : Subs(add_subproof_relative(p, r, after)) \subseteq More
             /\ \A just, r, after : Subs(add_step_relative(p, just, r, after)) \subseteq More
             /\ \A r, e : Subs(with_mut_premise(p, r, e)) \subseteq More
             /\ \A r, just : Subs(with_mut_step(p, r, just)) \subseteq More
             /\ \A self, r : Subs(remove_line(p, self, r)) \subseteq More
             /\ \A s : Subs(remove_subproof(p, s)) \subseteq More
  <1> DEFINE x == next_subkey(p)
             More == Subs(p) \cup {x}
  <1> HIDE DEF x
  <1>1. /\ \A s, y, e, list : WithPremise(p, s, y, e, list).line_list = p.line_list
        /\ \A s, y, just, list :
             DOMAIN WithStep(p, s, y, just, list).line_list = DOMAIN p.line_list
        /\ \A s, list : DOMAIN WithSubproof(p, s, x, list).line_list = DOMAIN p.line_list \cup {x}
    BY DEF WithPremise, WithStep, WithSubproof, Put
  <1>2. /\ \A s, e : Subs(add_premise(p, s, e)) \subseteq More
        /\ \A e, r, after : Subs(add_premise_relative(p, e, r, after)) \subseteq More
    BY <1>1 DEF add_premise, add_premise_relative, Subs
  <1>3. /\ \A s : Subs(add_subproof(p, s)) \subseteq More
        /\ \A r, after : Subs(add_subproof_relative(p, r, after)) \subseteq More
    BY <1>1 DEF add_subproof, add_subproof_relative, Subs, x
  <1>4. /\ \A s, just : Subs(add_step(p, s, just)) \subseteq More
        /\ \A just, r, after : Subs(add_step_relative(p, just, r, after)) \subseteq More
    BY <1>1 DEF add_step, add_step_relative, Subs
  <1>5. \A s, just : Subs(prepend_step(p, s, just)) \subseteq More
    BY <1>4 DEF prepend_step
  <1>6. /\ \A r, e : with_mut_premise(p, r, e).line_list = p.line_list
        /\ \A r, just : with_mut_step(p, r, just).line_list = p.line_list
    <2>1. p = [prem_map |-> p.prem_map, just_map |-> p.just_map,
               premise_list |-> p.premise_list, line_list |-> p.line_list,
               containing_subproof |-> p.containing_subproof]
      BY DEF WellFormed, ProofType
    <2>2. /\ \A r, e : with_mut_premise(p, r, e)
                         = [prem_map |-> [p.prem_map EXCEPT ![r] = e], just_map |-> p.just_map,
                            premise_list |-> p.premise_list, line_list |-> p.line_list,
                            containing_subproof |-> p.containing_subproof]
          /\ \A r, just : with_mut_step(p, r, just)
                         = [prem_map |-> p.prem_map, just_map |-> [p.just_map EXCEPT ![r] = just],
                            premise_list |-> p.premise_list, line_list |-> p.line_list,
                            containing_subproof |-> p.containing_subproof]
      BY <2>1 DEF with_mut_premise, with_mut_step
    <2> QED BY <2>2
  <1>7. \A self, r : DOMAIN remove_line(p, self, r).line_list = DOMAIN p.line_list
    BY DEF remove_line, remove_line_helper
  <1>8. \A s : DOMAIN remove_subproof(p, s).line_list \subseteq DOMAIN p.line_list
    BY DEF remove_subproof, remove_line_helper
  <1> QED BY <1>2, <1>3, <1>4, <1>5, <1>6, <1>7, <1>8 DEF Subs, x

(* An edit adds at most one subproof, so there are finitely many.          *)
LEMMA NextFew == WellFormed(proof) /\ FewSubproofs(proof) /\ [Next]_proof => FewSubproofs(proof)'
  <1> SUFFICES ASSUME WellFormed(proof), FewSubproofs(proof), [Next]_proof
               PROVE  FewSubproofs(proof)'
    OBVIOUS
  <1> DEFINE More == Subs(proof) \cup {next_subkey(proof)}
  <1>1. IsFiniteSet(More)
    BY FS_AddElement DEF FewSubproofs
  <1>2. Subs(proof)' \in SUBSET More
    BY AtMostOneMore
       DEF Next, Owners, AddPremise, AddSubproof, AddStep, PrependStep, AddPremiseRelative,
           AddSubproofRelative, AddStepRelative, SetPremise, SetStep, RemoveLine, RemoveSubproof
  <1> HIDE DEF More
  <1>3. IsFiniteSet(Subs(proof)')
    BY <1>1, <1>2, FS_Subset
  <1> QED BY <1>3 DEF FewSubproofs

(* However a proof was edited, the steps that verify_line finds in scope   *)
(* can be put in an order in which each rests on earlier ones only.        *)
THEOREM PooledReasoning == Spec => []Reasoning
  <1> DEFINE Inv == WellFormed(proof) /\ FewSubproofs(proof)
  <1>1. Init => Inv
    <2> SUFFICES ASSUME Init PROVE FewSubproofs(proof)
      BY InitWF
    <2>1. Subs(proof) = {}
      BY DEF Init, new, Subs
    <2> QED BY <2>1, FS_EmptySet DEF FewSubproofs
  <1>2. Inv /\ [Next]_proof => Inv'
    BY NextWF, NextFew
  <1>3. Inv => Reasoning
    BY ReasoningIsOrdered DEF Reasoning
  <1> QED BY <1>1, <1>2, <1>3, PTL DEF Spec

-----------------------------------------------------------------------------
(* The order in which lines are read.                                      *)

(* What is around x: nothing at the top level, otherwise the parent of x   *)
(* and what is around that; and no smaller set will do.                    *)
LEMMA AroundIs ==
  ASSUME NEW p, WellFormed(p), NEW x
  PROVE  /\ transitive_parents(p, x) \subseteq Subs(p)
         /\ parent_of(p, x) = Root => transitive_parents(p, x) = {}
         /\ parent_of(p, x) # Root =>
              transitive_parents(p, x) = {parent_of(p, x)} \cup transitive_parents(p, parent_of(p, x))
         /\ \A C \in SUBSET Subs(p) :
              /\ parent_of(p, x) # Root => parent_of(p, x) \in C
              /\ \A s \in C : parent_of(p, s) # Root => parent_of(p, s) \in C
              => transitive_parents(p, x) \subseteq C
  <1> DEFINE up == [s \in Subs(p) |-> {parent_of(p, s)} \ {Root}]
             t == parent_of(p, x)
             A == Closure(up, {t} \ {Root})
             B == Closure(up, {parent_of(p, t)} \ {Root})
  <1>1. transitive_parents(p, x) = A /\ transitive_parents(p, t) = B
    BY DEF transitive_parents
  <1>2. /\ DOMAIN up = Subs(p) /\ Root \notin Subs(p)
        /\ \A s \in Subs(p) : up[s] = {parent_of(p, s)} \ {Root}
        /\ \A y : parent_of(p, y) \in Subs(p) \cup {Root}
    BY DEF WellFormed, ProofType, parent_of, Subs
  <1> HIDE DEF up, t
  <1>3. A \subseteq Subs(p)
    BY <1>2 DEF Closure
  <1>4. ASSUME NEW C \in SUBSET Subs(p), t # Root => t \in C,
               \A s \in C : parent_of(p, s) # Root => parent_of(p, s) \in C
        PROVE  A \subseteq C
    <2>1. IsClosed(up, C) /\ {t} \ {Root} \subseteq C
      BY <1>2, <1>4 DEF IsClosed
    <2> QED BY <1>2, <2>1 DEF Closure
  <1>5. t = Root => A = {}
    <2>1. t = Root => A \subseteq {}
      BY <1>4
    <2> QED BY <2>1
  <1>6. ASSUME t # Root PROVE A = {t} \cup B
    <2>1. A \subseteq {t} \cup B
      <3>1. A \subseteq ({t} \cup B) \ {Root}
        BY <1>1, AroundEntry DEF t
      <3> QED BY <3>1
    <2>2. t \in A
      BY <1>2, <1>6 DEF Closure, t
    <2>3. B \subseteq A
      <3> SUFFICES ASSUME NEW y \in B, NEW C \in SUBSET Subs(p),
                          {t} \ {Root} \subseteq C, IsClosed(up, C)
                   PROVE  y \in C
        BY <1>2 DEF Closure
      <3>1. t \in C
        BY <1>6
      <3>2. {parent_of(p, t)} \ {Root} \subseteq C
        BY <1>2, <3>1 DEF IsClosed
      <3> QED BY <1>2, <3>2 DEF Closure
    <2> QED BY <2>1, <2>2, <2>3
  <1> QED BY <1>1, <1>3, <1>4, <1>5, <1>6 DEF t

(* What is around something around x is around x.                          *)
LEMMA AroundTrans ==
  ASSUME NEW p, WellFormed(p), NEW x, NEW y \in transitive_parents(p, x)
  PROVE  transitive_parents(p, y) \subseteq transitive_parents(p, x)
  <1> DEFINE A == transitive_parents(p, x)
             C == {s \in A : transitive_parents(p, s) \subseteq A}
  <1>1. C \in SUBSET Subs(p)
    BY AroundIs
  <1>2. parent_of(p, x) # Root => parent_of(p, x) \in C
    BY AroundIs
  <1>3. ASSUME NEW s \in C, parent_of(p, s) # Root PROVE parent_of(p, s) \in C
    <2>1. transitive_parents(p, s)
            = {parent_of(p, s)} \cup transitive_parents(p, parent_of(p, s))
      BY <1>3, AroundIs
    <2> QED BY <2>1
  <1>4. A \subseteq C
    <2> HIDE DEF C
    <2> QED BY <1>1, <1>2, <1>3, AroundIs
  <1> QED BY <1>4

(* A subproof is not around itself: subproofs are nested.                  *)
LEMMA NotAroundItself ==
  ASSUME NEW p, WellFormed(p), NEW x
  PROVE  x \notin transitive_parents(p, x)
  <1> SUFFICES ASSUME x \in transitive_parents(p, x) PROVE FALSE
    OBVIOUS
  <1> DEFINE S == {y \in Subs(p) : x \in transitive_parents(p, y)}
  <1>1. x \in S
    BY AroundIs
  <1>2. ASSUME NEW y \in S PROVE parent_of(p, y) \in S
    <2>1. parent_of(p, y) # Root
      BY AroundIs
    <2>2. parent_of(p, y) \in Subs(p)
      BY <2>1 DEF WellFormed, ProofType, parent_of
    <2>3. x = parent_of(p, y) \/ x \in transitive_parents(p, parent_of(p, y))
      BY <2>1, AroundIs
    <2> QED BY <2>2, <2>3
  <1>3. S \in SUBSET Subs(p) /\ S # {}
    BY <1>1
  <1> HIDE DEF S
  <1> QED BY <1>2, <1>3 DEF WellFormed, NestingEnds

(* Of two that are x or around x, one is around the other.                 *)
LEMMA AroundChain ==
  ASSUME NEW p, WellFormed(p), NEW x,
         NEW b \in {x} \cup transitive_parents(p, x), NEW c \in {x} \cup transitive_parents(p, x)
  PROVE  b = c \/ b \in transitive_parents(p, c) \/ c \in transitive_parents(p, b)
  <1> DEFINE A == transitive_parents(p, x)
             Linked(y, z) == y = z \/ y \in transitive_parents(p, z) \/ z \in transitive_parents(p, y)
             C == {s \in A : \A z \in A : Linked(s, z)}
  <1>1. C \in SUBSET Subs(p)
    BY AroundIs
  <1>2. parent_of(p, x) # Root => parent_of(p, x) \in C
    BY AroundIs
  <1>3. ASSUME NEW s \in C, parent_of(p, s) # Root PROVE parent_of(p, s) \in C
    <2> DEFINE u == parent_of(p, s)
    <2>1. transitive_parents(p, s) = {u} \cup transitive_parents(p, u)
      BY <1>3, AroundIs
    <2>2. u \in A
      BY <2>1, AroundTrans
    <2>3. ASSUME NEW z \in A PROVE Linked(u, z)
      <3>1. CASE s = z
        BY <2>1, <3>1
      <3>2. CASE z \in transitive_parents(p, s)
        BY <2>1, <3>2
      <3>3. CASE s \in transitive_parents(p, z)
        BY <2>1, <3>3, AroundTrans
      <3> QED BY <3>1, <3>2, <3>3
    <2> QED BY <2>2, <2>3
  <1>4. A \subseteq C
    <2> HIDE DEF C
    <2> QED BY <1>1, <1>2, <1>3, AroundIs
  <1> QED BY <1>4

(* Reading order is a strict order.                                        *)
LEMMA BeforeIsStrict ==
  ASSUME NEW p, WellFormed(p)
  PROVE  /\ \A x : ~Before(p, x, x)
         /\ \A x, y, z : Before(p, x, y) /\ Before(p, y, z) => Before(p, x, z)
  <1> DEFINE Up(x) == {x} \cup transitive_parents(p, x)
  <1>1. \A a, b : parent_of(p, a) = parent_of(p, b) =>
          transitive_parents(p, a) = transitive_parents(p, b)
    BY DEF transitive_parents
  <1>2. \A x : \A a \in Up(x) : transitive_parents(p, a) \subseteq Up(x)
    BY AroundTrans
  <1>3. ASSUME NEW x, Before(p, x, x) PROVE FALSE
    <2>1. PICK a \in Up(x), b \in Up(x) : parent_of(p, a) = parent_of(p, b) /\ a # b
      BY <1>3 DEF Before
    <2>2. a \in transitive_parents(p, b) \/ b \in transitive_parents(p, a)
      BY <2>1, AroundChain
    <2> QED BY <1>1, <2>1, <2>2, NotAroundItself
  <1>4. ASSUME NEW x, NEW y, NEW z, Before(p, x, y), Before(p, y, z) PROVE Before(p, x, z)
    <2>1. PICK a \in Up(x), b \in Up(y) :
            parent_of(p, a) = parent_of(p, b) /\ a # b /\ a \in Earlier(p, b)
      BY <1>4 DEF Before
    <2>2. PICK c \in Up(y), d \in Up(z) :
            parent_of(p, c) = parent_of(p, d) /\ c # d /\ c \in Earlier(p, d)
      BY <1>4 DEF Before
    <2>3. b = c \/ b \in transitive_parents(p, c) \/ c \in transitive_parents(p, b)
      BY <2>1, <2>2, AroundChain
    <2>4. CASE b \in transitive_parents(p, c)
      <3>1. b \in Up(z)
        BY <1>1, <1>2, <2>2, <2>4
      <3> QED BY <2>1, <3>1 DEF Before
    <2>5. CASE c \in transitive_parents(p, b)
      <3>1. c \in Up(x)
        BY <1>1, <1>2, <2>1, <2>5
      <3> QED BY <2>2, <3>1 DEF Before
    <2>6. CASE b = c
      <3> DEFINE t == parent_of(p, d)
                 all == p.premise_list[t] \o p.line_list[t]
      <3>0. parent_of(p, b) = t /\ parent_of(p, a) = t
        BY <2>1, <2>2, <2>6
      <3>d. all \in Seq(Live(p))
        <4>1. t \in Owners(p)
          BY DEF WellFormed, ProofType, parent_of, Owners
        <4>2. p.premise_list[t] \in Seq(Live(p)) /\ p.line_list[t] \in Seq(Live(p))
          BY <4>1, ListsAreLive
        <4> QED BY <4>2
      <3> HIDE DEF t
      <3> HIDE DEF all
      <3>1. PICK i \in DOMAIN all : a = all[i] /\ \A j \in 1 .. i : all[j] # b
        BY <2>1, <3>0 DEF Earlier, all
      <3>2. PICK k \in DOMAIN all : b = all[k] /\ \A j \in 1 .. k : all[j] # d
        BY <2>2, <2>6 DEF Earlier, t, all
      <3>n. i \in Nat \ {0} /\ k \in Nat \ {0}
        BY <3>d
      <3>3. i < k
        <4>1. ~(k \in 1 .. i)
          BY <3>1, <3>2
        <4> QED BY <3>n, <4>1
      <3>4. \A j \in 1 .. i : all[j] # d
        BY <3>2, <3>3, <3>n
      <3>5. a \in Earlier(p, d)
        BY <3>1, <3>4 DEF Earlier, t, all
      <3>6. a # d
        BY <3>1, <3>4, <3>n
      <3> QED BY <2>1, <2>2, <3>0, <3>5, <3>6 DEF Before, t
    <2> QED BY <2>3, <2>4, <2>5, <2>6
  <1> QED BY <1>3, <1>4

(* What is earlier in the list of x is in the list of x, and is not x.     *)
LEMMA EarlierIsListed ==
  ASSUME NEW p, WellFormed(p), NEW x, NEW d \in Earlier(p, x)
  PROVE  d \in Live(p) /\ parent_of(p, d) = parent_of(p, x) /\ d # x
  <1> DEFINE t == parent_of(p, x)
             a == p.premise_list[t]
             b == p.line_list[t]
             all == a \o b
  <1>0. t \in Owners(p)
    BY DEF WellFormed, ProofType, parent_of, Owners
  <1>1. PICK i \in DOMAIN all : d = all[i] /\ \A j \in 1 .. i : all[j] # x
    BY DEF Earlier
  <1>2. a \in Seq(Live(p)) /\ b \in Seq(Live(p))
    BY <1>0, ListsAreLive
  <1>3. \A y \in Entries(a) \cup Entries(b) : y \in Live(p) /\ parent_of(p, y) = t
    BY <1>0 DEF WellFormed, ListedOnce, Owners, Live, Lines
  <1> HIDE DEF a, b
  <1>4. /\ DOMAIN all = 1 .. Len(a) + Len(b) /\ Len(a) \in Nat /\ Len(b) \in Nat
        /\ \A j \in 1 .. Len(a) : all[j] = a[j]
        /\ \A j \in 1 .. Len(b) : all[Len(a) + j] = b[j]
    BY <1>2
  <1> HIDE DEF all
  <1>5. d \in Entries(a) \cup Entries(b)
    <2>1. CASE i <= Len(a)
      BY <1>1, <1>2, <1>4, <2>1 DEF Entries
    <2>2. CASE i > Len(a)
      <3>1. i - Len(a) \in 1 .. Len(b) /\ Len(a) + (i - Len(a)) = i
        BY <1>1, <1>4, <2>2
      <3>2. d = b[i - Len(a)]
        BY <1>1, <1>4, <3>1
      <3> QED BY <1>2, <3>1, <3>2 DEF Entries
    <2> QED BY <1>1, <1>4, <2>1, <2>2
  <1>6. d # x
    <2>1. i \in 1 .. i
      BY <1>1, <1>4
    <2> QED BY <1>1, <2>1
  <1> QED BY <1>3, <1>5, <1>6

(* A subproof is around every subproof nested in it.                       *)
LEMMA NestedAround ==
  ASSUME NEW p, WellFormed(p), NEW s \in Subs(p), NEW t \in nested_subproofs(p, s)
  PROVE  s \in {t} \cup transitive_parents(p, t)
  <1> DEFINE down == [u \in Subs(p) |-> Entries(p.line_list[u]) \cap Subs(p)]
             C == {u \in Subs(p) : s \in {u} \cup transitive_parents(p, u)}
  <1>1. \A u, y \in Subs(p) : y \in down[u] <=> parent_of(p, y) = u
    BY DEF WellFormed, ListedOnce
  <1>2. DOMAIN down = Subs(p) /\ \A u \in Subs(p) : down[u] \subseteq Subs(p)
    OBVIOUS
  <1>3. nested_subproofs(p, s) = Closure(down, {s})
    BY DEF nested_subproofs
  <1>4. C \in SUBSET Subs(p) /\ {s} \subseteq C /\ Root \notin Subs(p)
    BY DEF Subs
  <1> HIDE DEF down
  <1>5. IsClosed(down, C)
    <2> SUFFICES ASSUME NEW u \in C, NEW y \in down[u] PROVE y \in C
      BY DEF IsClosed
    <2>1. u \in Subs(p) /\ y \in Subs(p) /\ parent_of(p, y) = u
      BY <1>1, <1>2
    <2>2. transitive_parents(p, y) = {u} \cup transitive_parents(p, u)
      BY <1>4, <2>1, AroundIs
    <2> QED BY <2>1, <2>2
  <1> HIDE DEF C
  <1>6. t \in C
    BY <1>2, <1>3, <1>4, <1>5 DEF Closure
  <1> QED BY <1>6 DEF C

(* A step whose references are in scope rests on what is read before it.   *)
LEMMA RestsOnEarlier ==
  ASSUME NEW p, WellFormed(p), NEW j \in Justs(p), RefsInScope(p, j), NEW x \in RestsOn(p, j)
  PROVE  x \in Lines(p) /\ Before(p, x, j)
  <1>1. ASSUME NEW d \in p.just_map[j].deps \cup p.just_map[j].sdeps
        PROVE  \E w \in {j} \cup transitive_parents(p, j) :
                 d \in Earlier(p, w) /\ parent_of(p, d) = parent_of(p, w) /\ d # w
    <2>1. PICK w \in {j} \cup transitive_parents(p, j) : d \in Earlier(p, w)
      BY DEF RefsInScope, can_reference_dep, possible_deps_for_line
    <2> QED BY <2>1, EarlierIsListed
  <1>2. p.just_map[j].deps \subseteq Lines(p) /\ p.just_map[j].sdeps \subseteq Subs(p)
    BY DEF WellFormed, NoDanglingRefs
  <1>3. CASE x \in p.just_map[j].deps
    BY <1>1, <1>2, <1>3 DEF Before
  <1>4. CASE x \notin p.just_map[j].deps
    <2>1. PICK s \in p.just_map[j].sdeps : x \in contained_justifications(p, s)
      BY <1>4 DEF RestsOn
    <2>2. s \in Subs(p) /\ nested_subproofs(p, s) \subseteq Subs(p)
      BY <1>2, NestedSubproofs
    <2>3. PICK t \in nested_subproofs(p, s) : x \in Justs(p) /\ x \in Entries(p.line_list[t])
      BY <2>1 DEF contained_justifications
    <2>4. parent_of(p, x) = t /\ t # Root
      BY <2>2, <2>3 DEF WellFormed, ListedOnce, Subs
    <2>5. s \in {t} \cup transitive_parents(p, t)
      BY <2>2, <2>3, NestedAround
    <2>6. s \in transitive_parents(p, x)
      BY <2>4, <2>5, AroundIs
    <2> QED BY <1>1, <2>1, <2>3, <2>6 DEF Before, Lines
  <1> QED BY <1>3, <1>4

(* A line read before another has a lower number.                          *)
LEMMA NumbersFollowOrder ==
  ASSUME NEW p, WellFormed(p), IsFiniteSet(Lines(p)), NEW x \in Lines(p), NEW y \in Lines(p),
         Before(p, x, y)
  PROVE  LinesBefore(p, x) < LinesBefore(p, y) /\ LinesBefore(p, x) \in Nat
                                               /\ LinesBefore(p, y) \in Nat
  <1> DEFINE X == {z \in Lines(p) : Before(p, z, x)}
             Y == {z \in Lines(p) : Before(p, z, y)}
  <1>1. X \in SUBSET Y /\ x \in Y /\ x \notin X /\ Y \in SUBSET Lines(p)
    BY BeforeIsStrict
  <1>2. LinesBefore(p, x) = Cardinality(X) /\ LinesBefore(p, y) = Cardinality(Y)
    BY DEF LinesBefore
  <1> HIDE DEF X, Y
  <1>3. IsFiniteSet(Y) /\ IsFiniteSet(X)
    BY <1>1, FS_Subset
  <1>4. Cardinality(X) \in Nat /\ Cardinality(Y) \in Nat
    BY <1>3, FS_CardinalityType
  <1>5. Cardinality(X) <= Cardinality(Y) /\ Cardinality(X) # Cardinality(Y)
    BY <1>1, <1>3, FS_Subset
  <1> QED BY <1>2, <1>4, <1>5

-----------------------------------------------------------------------------
(* The walk of transitive_dependencies.                                    *)

(* All of x is read before the end of y: x is before y, or inside it.      *)
ReadFirst(p, x, y) == Before(p, x, y) \/ y \in transitive_parents(p, x)

(* This is a strict order.                                                 *)
LEMMA ReadFirstIsStrict ==
  ASSUME NEW p, WellFormed(p)
  PROVE  /\ \A x : ~ReadFirst(p, x, x)
         /\ \A x, y, z : ReadFirst(p, x, y) /\ ReadFirst(p, y, z) => ReadFirst(p, x, z)
  <1>1. \A x : ~ReadFirst(p, x, x)
    BY BeforeIsStrict, NotAroundItself DEF ReadFirst
  <1>2. ASSUME NEW x, NEW y, NEW z, ReadFirst(p, x, y), ReadFirst(p, y, z)
        PROVE  ReadFirst(p, x, z)
    <2>1. CASE Before(p, x, y) /\ Before(p, y, z)
      BY <2>1, BeforeIsStrict DEF ReadFirst
    <2>2. CASE y \in transitive_parents(p, x) /\ z \in transitive_parents(p, y)
      BY <2>2, AroundTrans DEF ReadFirst
    <2>3. CASE y \in transitive_parents(p, x) /\ Before(p, y, z)
      <3>1. {y} \cup transitive_parents(p, y) \subseteq {x} \cup transitive_parents(p, x)
        BY <2>3, AroundTrans
      <3> QED BY <2>3, <3>1 DEF Before, ReadFirst
    <2>4. CASE Before(p, x, y) /\ z \in transitive_parents(p, y)
      <3>1. PICK a \in {x} \cup transitive_parents(p, x), b \in {y} \cup transitive_parents(p, y) :
              parent_of(p, a) = parent_of(p, b) /\ a # b /\ a \in Earlier(p, b)
        BY <2>4 DEF Before
      <3>2. b = z \/ b \in transitive_parents(p, z) \/ z \in transitive_parents(p, b)
        BY <2>4, <3>1, AroundChain
      <3>3. CASE b = z \/ b \in transitive_parents(p, z)
        BY <3>1, <3>3 DEF Before, ReadFirst
      <3>4. CASE z \in transitive_parents(p, b)
        <4>1. z \in transitive_parents(p, a)
          BY <3>1, <3>4 DEF transitive_parents
        <4>2. z \in transitive_parents(p, x)
          BY <3>1, <4>1, AroundTrans
        <4> QED BY <4>2 DEF ReadFirst
      <3> QED BY <3>2, <3>3, <3>4
    <2> QED BY <1>2, <2>1, <2>2, <2>3, <2>4 DEF ReadFirst
  <1> QED BY <1>1, <1>2

(* Of finitely many, one is read first.                                    *)
LEMMA OneIsReadFirst ==
  ASSUME NEW p, WellFormed(p), NEW S, IsFiniteSet(S), S # {}
  PROVE  \E x \in S : \A y \in S : ~ReadFirst(p, y, x)
  <1> DEFINE Under(x) == {y \in S : ReadFirst(p, y, x)}
             C == {Cardinality(Under(x)) : x \in S}
  <1>1. ASSUME NEW x \in S PROVE IsFiniteSet(Under(x)) /\ Cardinality(Under(x)) \in Nat
    <2>1. Under(x) \in SUBSET S
      OBVIOUS
    <2> HIDE DEF Under
    <2> QED BY <2>1, FS_Subset, FS_CardinalityType
  <1>2. C \in SUBSET Nat /\ C # {}
    BY <1>1
  <1>3. PICK x \in S : \A y \in S : Cardinality(Under(x)) <= Cardinality(Under(y))
    <2>1. PICK k \in C : \A m \in C : k <= m
      BY <1>2, LeastNat
    <2> QED BY <2>1
  <1>4. ASSUME NEW y \in S, ReadFirst(p, y, x) PROVE FALSE
    <2>1. Under(y) \in SUBSET Under(x) /\ y \in Under(x) /\ y \notin Under(y)
      BY <1>4, ReadFirstIsStrict
    <2>2. /\ IsFiniteSet(Under(x)) /\ Cardinality(Under(x)) \in Nat
          /\ Cardinality(Under(y)) \in Nat /\ Cardinality(Under(x)) <= Cardinality(Under(y))
      BY <1>1, <1>3
    <2> HIDE DEF Under
    <2>3. Cardinality(Under(y)) <= Cardinality(Under(x)) /\ Cardinality(Under(y)) # Cardinality(Under(x))
      BY <2>1, <2>2, FS_Subset
    <2> QED BY <2>2, <2>3
  <1> QED BY <1>3, <1>4

(* The walk goes on from a step in scope, and from a subproof, only to     *)
(* what is read before it ends.                                            *)
LEMMA WalkGoesBack ==
  ASSUME NEW p, WellFormed(p), NEW x \in Justs(p) \cup Subs(p),
         x \in Justs(p) => RefsInScope(p, x), NEW y \in walked(p, x)
  PROVE  ReadFirst(p, y, x)
  <1>k. Justs(p) \cap Subs(p) = {}
    BY KindsDisjoint DEF WellFormed, ProofType
  <1>1. CASE x \in Justs(p)
    <2>1. y \in p.just_map[x].deps \cup p.just_map[x].sdeps
      BY <1>1 DEF walked
    <2>2. PICK w \in {x} \cup transitive_parents(p, x) : y \in Earlier(p, w)
      BY <1>1, <2>1 DEF RefsInScope, can_reference_dep, possible_deps_for_line
    <2>3. parent_of(p, y) = parent_of(p, w) /\ y # w
      BY <2>2, EarlierIsListed
    <2> QED BY <2>2, <2>3 DEF Before, ReadFirst
  <1>2. CASE x \in Subs(p)
    <2>1. y \in Entries(p.line_list[x])
      BY <1>k, <1>2 DEF walked
    <2>2. parent_of(p, y) = x /\ x # Root
      BY <1>2, <2>1 DEF WellFormed, ListedOnce, Subs
    <2>3. x \in transitive_parents(p, y)
      BY <2>2, AroundIs
    <2> QED BY <2>3 DEF ReadFirst
  <1> QED BY <1>1, <1>2

(* When every reference is in scope, the walk ends.                        *)
LEMMA WalkEndsInScope ==
  ASSUME NEW p, WellFormed(p), FewSubproofs(p), IsFiniteSet(Lines(p)),
         \A j \in Justs(p) : RefsInScope(p, j)
  PROVE  WalkEnds(p)
  <1> SUFFICES ASSUME NEW S \in SUBSET (Justs(p) \cup Subs(p)), S # {}
               PROVE  \E x \in S : walked(p, x) \cap S = {}
    BY DEF WalkEnds
  <1>1. IsFiniteSet(S)
    <2>1. IsFiniteSet(Lines(p) \cup Subs(p))
      BY FS_Union DEF FewSubproofs
    <2>2. S \in SUBSET (Lines(p) \cup Subs(p))
      BY DEF Lines
    <2> QED BY <2>1, <2>2, FS_Subset
  <1>2. PICK x \in S : \A y \in S : ~ReadFirst(p, y, x)
    BY <1>1, OneIsReadFirst
  <1>3. \A y \in walked(p, x) : ReadFirst(p, y, x)
    BY WalkGoesBack
  <1> QED BY <1>2, <1>3

-----------------------------------------------------------------------------
(* Scope.                                                                  *)

(* From p to q, what stays keeps its parent.                               *)
KeepsParents(p, q) == \A x \in Live(p) \cap Live(q) : parent_of(q, x) = parent_of(p, x)

(* What d is earlier than, by list.                                        *)
LEMMA EarlierIs ==
  ASSUME NEW p, WellFormed(p), NEW x \in Live(p), NEW d \in Live(p),
         parent_of(p, d) = parent_of(p, x)
  PROVE  LET t == parent_of(p, x)
         IN  d \in Earlier(p, x) <=>
               \/ d \in Prems(p) /\ x \notin Prems(p)
               \/ d \in Prems(p) /\ x \in Prems(p) /\ Ahead(p.premise_list[t], d, x)
               \/ d \notin Prems(p) /\ x \notin Prems(p) /\ Ahead(p.line_list[t], d, x)
  <1> DEFINE t == parent_of(p, x)
             a == p.premise_list[t]
             b == p.line_list[t]
             all == a \o b
             m == Len(a)
             n == Len(b)
  <1>0. t \in Owners(p)
    BY DEF WellFormed, ProofType, parent_of, Owners
  <1>1. a \in Seq(Live(p)) /\ b \in Seq(Live(p))
    BY <1>0, ListsAreLive
  <1>2. /\ Entries(a) = {y \in Prems(p) : parent_of(p, y) = t}
        /\ Entries(b) = {y \in Justs(p) \cup Subs(p) : parent_of(p, y) = t}
    BY <1>0 DEF WellFormed, ListedOnce, Owners
  <1>3. \A y \in Live(p) : y \in Justs(p) \cup Subs(p) <=> y \notin Prems(p)
    BY KindsDisjoint DEF WellFormed, ProofType, Live, Lines
  <1>4. d \in Earlier(p, x) <=> Ahead(all, d, x)
    BY DEF Earlier, Ahead
  <1>5. /\ d \in Prems(p) => d \in Entries(a) /\ d \notin Entries(b)
        /\ d \notin Prems(p) => d \notin Entries(a) /\ d \in Entries(b)
        /\ x \in Prems(p) => x \in Entries(a) /\ x \notin Entries(b)
        /\ x \notin Prems(p) => x \notin Entries(a) /\ x \in Entries(b)
    BY <1>2, <1>3
  <1> HIDE DEF t, a, b
  <1>6. /\ DOMAIN all = 1 .. m + n /\ m \in Nat /\ n \in Nat
        /\ \A j \in 1 .. m : all[j] = a[j]
        /\ \A j \in 1 .. n : all[m + j] = b[j]
        /\ DOMAIN a = 1 .. m /\ DOMAIN b = 1 .. n
    BY <1>1
  <1> HIDE DEF all, m, n
  <1>7. \A j \in 1 .. m : a[j] \in Entries(a)
    BY <1>6 DEF Entries
  <1>8. \A j \in 1 .. n : b[j] \in Entries(b)
    BY <1>6 DEF Entries
  <1>9. \A j \in 1 .. m + n : j \in 1 .. m \/ (j - m \in 1 .. n /\ m + (j - m) = j)
    BY <1>6
  <1>10. CASE d \in Prems(p) /\ x \notin Prems(p)
    <2>1. PICK i \in 1 .. m : a[i] = d
      BY <1>5, <1>6, <1>10 DEF Entries
    <2>2. i \in DOMAIN all /\ all[i] = d
      BY <1>6, <2>1
    <2>3. \A j \in 1 .. i : j \in 1 .. m
      BY <1>6, <2>1
    <2>4. \A j \in 1 .. i : all[j] # x
      BY <1>5, <1>6, <1>7, <1>10, <2>3
    <2> QED BY <1>4, <1>10, <2>2, <2>4 DEF Ahead
  <1>11. CASE d \in Prems(p) /\ x \in Prems(p)
    <2>1. ASSUME NEW i \in DOMAIN all, all[i] = d, \A j \in 1 .. i : all[j] # x
          PROVE  Ahead(a, d, x)
      <3>1. i \in 1 .. m
        <4> SUFFICES ASSUME i \notin 1 .. m PROVE FALSE
          OBVIOUS
        <4>1. i - m \in 1 .. n /\ all[i] = b[i - m]
          BY <1>6, <1>9
        <4> QED BY <1>5, <1>8, <1>11, <2>1, <4>1
      <3>2. \A j \in 1 .. i : j \in 1 .. m
        BY <1>6, <3>1
      <3> QED BY <1>6, <2>1, <3>1, <3>2 DEF Ahead
    <2>2. ASSUME NEW i \in 1 .. m, a[i] = d, \A j \in 1 .. i : a[j] # x
          PROVE  Ahead(all, d, x)
      <3>1. i \in DOMAIN all /\ \A j \in 1 .. i : j \in 1 .. m
        BY <1>6
      <3> QED BY <1>6, <2>2, <3>1 DEF Ahead
    <2>3. Ahead(all, d, x) <=> Ahead(a, d, x)
      BY <1>6, <2>1, <2>2 DEF Ahead
    <2> QED BY <1>4, <1>11, <2>3 DEF a, t
  <1>12. CASE d \notin Prems(p) /\ x \in Prems(p)
    <2> SUFFICES ASSUME NEW i \in DOMAIN all, all[i] = d, \A j \in 1 .. i : all[j] # x
                 PROVE  FALSE
      BY <1>4, <1>12 DEF Ahead
    <2>1. PICK k \in 1 .. m : a[k] = x
      BY <1>5, <1>6, <1>12 DEF Entries
    <2>2. ~(k \in 1 .. i)
      BY <1>6, <2>1
    <2>3. i \in 1 .. m
      BY <1>6, <2>1, <2>2
    <2> QED BY <1>5, <1>6, <1>7, <1>12, <2>3
  <1>13. CASE d \notin Prems(p) /\ x \notin Prems(p)
    <2>1. ASSUME NEW i \in DOMAIN all, all[i] = d, \A j \in 1 .. i : all[j] # x
          PROVE  Ahead(b, d, x)
      <3>1. i \notin 1 .. m
        BY <1>5, <1>6, <1>7, <1>13, <2>1
      <3>2. i - m \in 1 .. n /\ m + (i - m) = i
        BY <1>6, <1>9, <3>1
      <3>3. \A j \in 1 .. (i - m) : m + j \in 1 .. i /\ j \in 1 .. n
        BY <1>6, <3>2
      <3>4. b[i - m] = d
        BY <1>6, <2>1, <3>2
      <3>5. \A j \in 1 .. (i - m) : b[j] # x
        BY <1>6, <2>1, <3>3
      <3> QED BY <1>6, <3>2, <3>4, <3>5 DEF Ahead
    <2>2. ASSUME NEW i \in 1 .. n, b[i] = d, \A j \in 1 .. i : b[j] # x
          PROVE  Ahead(all, d, x)
      <3>1. m + i \in DOMAIN all /\ all[m + i] = d
        BY <1>6, <2>2
      <3>2. ASSUME NEW j \in 1 .. (m + i) PROVE all[j] # x
        <4>1. CASE j \in 1 .. m
          BY <1>5, <1>6, <1>7, <1>13, <4>1
        <4>2. CASE j \notin 1 .. m
          <5>1. j - m \in 1 .. i /\ j - m \in 1 .. n /\ m + (j - m) = j
            BY <1>6, <4>2
          <5> QED BY <1>6, <2>2, <5>1
        <4> QED BY <4>1, <4>2
      <3> QED BY <3>1, <3>2 DEF Ahead
    <2>3. Ahead(all, d, x) <=> Ahead(b, d, x)
      BY <1>6, <2>1, <2>2 DEF Ahead
    <2> QED BY <1>4, <1>13, <2>3 DEF b, t
  <1> QED BY <1>10, <1>11, <1>12, <1>13 DEF t, a, b

(* An edit that keeps places and parents takes no reference out of scope,  *)
(* if both ends of it stay.                                                *)
LEMMA ScopeStays ==
  ASSUME NEW p, WellFormed(p), NEW q, WellFormed(q), KeepsPlaces(p, q), KeepsParents(p, q),
         NEW j \in Live(p) \cap Live(q), NEW d \in Live(p) \cap Live(q),
         can_reference_dep(p, j, d)
  PROVE  can_reference_dep(q, j, d)
  <1> DEFINE gone == Live(p) \ Live(q)
             added == Live(q) \ Live(p)
  <1>k. \A y \in Live(p) \cap Live(q) : y \in Prems(p) <=> y \in Prems(q)
    BY KindsDisjoint DEF WellFormed, ProofType, Live, Lines
  <1>o. \A y : parent_of(p, y) \in Owners(p) /\ parent_of(q, y) \in Owners(q)
    BY DEF WellFormed, ProofType, parent_of, Owners
  <1>1. PICK x \in {j} \cup transitive_parents(p, j) : d \in Earlier(p, x)
    BY DEF can_reference_dep, possible_deps_for_line
  <1>2. transitive_parents(p, j) \subseteq transitive_parents(q, j)
    <2> DEFINE A == transitive_parents(q, j)
               C == A \cap Subs(p)
    <2>1. A \subseteq Subs(q) /\ C \in SUBSET Subs(p)
      BY AroundIs
    <2>2. parent_of(p, j) # Root => parent_of(p, j) \in C
      <3>1. parent_of(q, j) = parent_of(p, j)
        BY DEF KeepsParents
      <3> QED BY <1>o, <3>1, AroundIs DEF Owners
    <2>3. ASSUME NEW s \in C, parent_of(p, s) # Root PROVE parent_of(p, s) \in C
      <3>1. parent_of(q, s) = parent_of(p, s)
        BY <2>1 DEF KeepsParents, Live
      <3>2. parent_of(q, s) \in transitive_parents(q, s)
        BY <2>3, <3>1, AroundIs
      <3>3. parent_of(q, s) \in A
        BY <3>2, AroundTrans
      <3> QED BY <1>o, <2>3, <3>1, <3>3 DEF Owners
    <2> HIDE DEF C
    <2>4. transitive_parents(p, j) \subseteq C
      BY <2>1, <2>2, <2>3, AroundIs
    <2> QED BY <2>4 DEF C
  <1>3. x \in Live(p) \cap Live(q)
    BY <1>1, <1>2, AroundIs DEF Live
  <1> DEFINE t == parent_of(p, x)
  <1>4. parent_of(p, d) = t /\ parent_of(q, d) = t /\ parent_of(q, x) = t
    BY <1>1, <1>3, EarlierIsListed DEF KeepsParents
  <1>5. t \in Owners(p) \cap Owners(q)
    BY <1>4, <1>o
  <1>6. /\ Without(p.premise_list[t], gone) = Without(q.premise_list[t], added)
        /\ Without(p.line_list[t], gone) = Without(q.line_list[t], added)
    BY <1>5 DEF KeepsPlaces
  <1>7. d \notin gone /\ x \notin gone /\ d \notin added /\ x \notin added
    BY <1>3
  <1>8. /\ p.premise_list[t] \in Seq(Live(p)) /\ p.line_list[t] \in Seq(Live(p))
        /\ q.premise_list[t] \in Seq(Live(q)) /\ q.line_list[t] \in Seq(Live(q))
    BY <1>5, ListsAreLive
  <1> HIDE DEF gone, added, t
  <1>9. /\ Ahead(p.premise_list[t], d, x) <=> Ahead(q.premise_list[t], d, x)
        /\ Ahead(p.line_list[t], d, x) <=> Ahead(q.line_list[t], d, x)
    <2>1. /\ Ahead(Without(p.premise_list[t], gone), d, x) <=> Ahead(p.premise_list[t], d, x)
          /\ Ahead(Without(p.line_list[t], gone), d, x) <=> Ahead(p.line_list[t], d, x)
      BY <1>7, <1>8, WithoutAhead
    <2>2. /\ Ahead(Without(q.premise_list[t], added), d, x) <=> Ahead(q.premise_list[t], d, x)
          /\ Ahead(Without(q.line_list[t], added), d, x) <=> Ahead(q.line_list[t], d, x)
      BY <1>7, <1>8, WithoutAhead
    <2> QED BY <1>6, <2>1, <2>2
  <1>10. \/ d \in Prems(p) /\ x \notin Prems(p)
         \/ d \in Prems(p) /\ x \in Prems(p) /\ Ahead(p.premise_list[t], d, x)
         \/ d \notin Prems(p) /\ x \notin Prems(p) /\ Ahead(p.line_list[t], d, x)
    BY <1>1, <1>3, <1>4, EarlierIs DEF t
  <1>11. \/ d \in Prems(q) /\ x \notin Prems(q)
         \/ d \in Prems(q) /\ x \in Prems(q) /\ Ahead(q.premise_list[t], d, x)
         \/ d \notin Prems(q) /\ x \notin Prems(q) /\ Ahead(q.line_list[t], d, x)
    BY <1>3, <1>9, <1>10, <1>k
  <1>12. d \in Earlier(q, x)
    BY <1>3, <1>4, <1>11, EarlierIs
  <1> QED BY <1>1, <1>2, <1>12 DEF can_reference_dep, possible_deps_for_line
=============================================================================
