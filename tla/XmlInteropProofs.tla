-------------------------- MODULE XmlInteropProofs --------------------------
(***************************************************************************)
(* Opening a saved proof gives the same proof, up to its keys and to which *)
(* of the rules of one name a step has, for every proof the editor makes.  *)
(***************************************************************************)
EXTENDS XmlInterop, ProofWidgetProofs

-----------------------------------------------------------------------------
(* Numbers.  A line has a number of its own, and a subproof has the number *)
(* of its assumption.                                                      *)

(* Of two entries of one list, one is the earlier.                         *)
LEMMA OneIsAhead ==
  ASSUME NEW T, NEW s \in Seq(T), NoRepeats(s), NEW a \in Entries(s), NEW b \in Entries(s), a # b
  PROVE  Ahead(s, a, b) \/ Ahead(s, b, a)
  <1>1. PICK i \in DOMAIN s : s[i] = a
    BY DEF Entries
  <1>2. PICK k \in DOMAIN s : s[k] = b
    BY DEF Entries
  <1>3. DOMAIN s = 1 .. Len(s) /\ Len(s) \in Nat
    OBVIOUS
  <1>4. CASE i < k
    <2>1. \A j \in 1 .. i : j \in DOMAIN s /\ j # k
      BY <1>3, <1>4
    <2> QED BY <1>1, <1>2, <2>1 DEF Ahead, NoRepeats
  <1>5. CASE k < i
    <2>1. \A j \in 1 .. k : j \in DOMAIN s /\ j # i
      BY <1>3, <1>5
    <2> QED BY <1>1, <1>2, <2>1 DEF Ahead, NoRepeats
  <1> QED BY <1>1, <1>2, <1>3, <1>4, <1>5

(* Of two things with one parent, one is earlier than the other.           *)
LEMMA SiblingsComparable ==
  ASSUME NEW p, WellFormed(p), NEW a \in Live(p), NEW b \in Live(p), a # b,
         parent_of(p, a) = parent_of(p, b)
  PROVE  a \in Earlier(p, b) \/ b \in Earlier(p, a)
  <1> DEFINE t == parent_of(p, a)
  <1>1. t \in Owners(p) /\ parent_of(p, b) = t
    BY Shape
  <1>2. /\ p.premise_list[t] \in Seq(Live(p)) /\ p.line_list[t] \in Seq(Live(p))
        /\ NoRepeats(p.premise_list[t]) /\ NoRepeats(p.line_list[t])
    BY <1>1, ListsAreLive
  <1>3. \A x \in {a, b} : IF x \in Prems(p) THEN x \in Entries(p.premise_list[t])
                                            ELSE x \in Entries(p.line_list[t])
    BY <1>1 DEF WellFormed, ListedOnce, Live, Lines, Owners
  <1>4. /\ a \in Prems(p) /\ b \in Prems(p) =>
             Ahead(p.premise_list[t], a, b) \/ Ahead(p.premise_list[t], b, a)
        /\ a \notin Prems(p) /\ b \notin Prems(p) =>
             Ahead(p.line_list[t], a, b) \/ Ahead(p.line_list[t], b, a)
    BY <1>2, <1>3, OneIsAhead
  <1> HIDE DEF t
  <1>5. /\ a \in Earlier(p, b) <=>
              \/ a \in Prems(p) /\ b \notin Prems(p)
              \/ a \in Prems(p) /\ b \in Prems(p) /\ Ahead(p.premise_list[t], a, b)
              \/ a \notin Prems(p) /\ b \notin Prems(p) /\ Ahead(p.line_list[t], a, b)
        /\ b \in Earlier(p, a) <=>
              \/ b \in Prems(p) /\ a \notin Prems(p)
              \/ b \in Prems(p) /\ a \in Prems(p) /\ Ahead(p.premise_list[t], b, a)
              \/ b \notin Prems(p) /\ a \notin Prems(p) /\ Ahead(p.line_list[t], b, a)
    BY <1>1, EarlierIs DEF t
  <1> QED BY <1>4, <1>5

(* What is around x includes, below each of its members and below the top  *)
(* level, something that is directly there.                                *)
LEMMA DirectlyBelow ==
  ASSUME NEW p, WellFormed(p), NEW y, NEW P \in transitive_parents(p, y) \cup {Root}
  PROVE  \E b \in {y} \cup transitive_parents(p, y) : parent_of(p, b) = P
  <1> DEFINE B == transitive_parents(p, y)
  <1>1. /\ B \subseteq Subs(p) /\ Root \notin Subs(p)
        /\ parent_of(p, y) # Root => parent_of(p, y) \in B
        /\ \A s \in B : parent_of(p, s) # Root => parent_of(p, s) \in B
    <2>1. B \subseteq Subs(p) /\ (parent_of(p, y) # Root => parent_of(p, y) \in B)
      BY AroundIs
    <2>2. ASSUME NEW s \in B, parent_of(p, s) # Root PROVE parent_of(p, s) \in B
      <3>1. parent_of(p, s) \in transitive_parents(p, s)
        BY <2>2, AroundIs
      <3> QED BY <3>1, AroundTrans
    <2> QED BY <2>1, <2>2, Shape
  <1>2. CASE P # Root
    <2> SUFFICES ASSUME \A b \in {y} \cup B : parent_of(p, b) # P PROVE FALSE
      OBVIOUS
    <2> DEFINE C == B \ {P}
    <2>1. /\ C \in SUBSET Subs(p)
          /\ parent_of(p, y) # Root => parent_of(p, y) \in C
          /\ \A s \in C : parent_of(p, s) # Root => parent_of(p, s) \in C
      BY <1>1
    <2> HIDE DEF C
    <2>2. B \subseteq C
      BY <2>1, AroundIs
    <2> QED BY <1>2, <2>2 DEF C
  <1>3. CASE P = Root
    <2>1. CASE B = {}
      BY <1>1, <1>3, <2>1
    <2>2. CASE B # {}
      <3>1. PICK s \in B : parent_of(p, s) \notin B
        BY <1>1, <2>2 DEF WellFormed, NestingEnds
      <3> QED BY <1>1, <1>3, <3>1
    <2> QED BY <2>1, <2>2
  <1> QED BY <1>2, <1>3

(* The reading order orders all lines.                                     *)
LEMMA LinesComparable ==
  ASSUME NEW p, WellFormed(p), NEW x \in Lines(p), NEW y \in Lines(p), x # y
  PROVE  Before(p, x, y) \/ Before(p, y, x)
  <1> DEFINE A == {x} \cup transitive_parents(p, x)
             B == {y} \cup transitive_parents(p, y)
  <1>1. /\ transitive_parents(p, x) \subseteq Subs(p) /\ transitive_parents(p, y) \subseteq Subs(p)
        /\ x \notin Subs(p) /\ y \notin Subs(p) /\ Root \notin Subs(p)
    BY AroundIs, Shape DEF Owners
  <1>2. PICK a \in A \ B : parent_of(p, a) \in transitive_parents(p, y) \cup {Root}
    <2>1. \A a \in A : parent_of(p, a) # Root => parent_of(p, a) \in transitive_parents(p, x)
      <3>1. parent_of(p, x) # Root => parent_of(p, x) \in transitive_parents(p, x)
        BY AroundIs
      <3>2. ASSUME NEW s \in transitive_parents(p, x), parent_of(p, s) # Root
            PROVE  parent_of(p, s) \in transitive_parents(p, x)
        <4>1. parent_of(p, s) \in transitive_parents(p, s)
          BY <3>2, AroundIs
        <4> QED BY <4>1, AroundTrans
      <3> QED BY <3>1, <3>2
    <2> DEFINE D == transitive_parents(p, x) \ B
    <2>2. CASE D = {}
      BY <1>1, <2>1, <2>2
    <2>3. CASE D # {}
      <3>1. PICK s \in D : parent_of(p, s) \notin D
        BY <1>1, <2>3 DEF WellFormed, NestingEnds
      <3>2. s \in A /\ (parent_of(p, s) # Root => parent_of(p, s) \in transitive_parents(p, x))
        BY <2>1, <3>1
      <3>3. parent_of(p, s) # Root => parent_of(p, s) \in B /\ parent_of(p, s) # y
        BY <1>1, <3>1, <3>2
      <3> QED BY <3>1, <3>2, <3>3
    <2> QED BY <2>2, <2>3
  <1>3. PICK b \in B : parent_of(p, b) = parent_of(p, a)
    BY <1>2, DirectlyBelow
  <1>4. a \in Live(p) /\ b \in Live(p) /\ a # b
    BY <1>1, <1>2, <1>3 DEF Live
  <1>5. a \in Earlier(p, b) \/ b \in Earlier(p, a)
    BY <1>3, <1>4, SiblingsComparable
  <1> QED BY <1>2, <1>3, <1>4, <1>5 DEF Before

(* No two lines have one number.                                           *)
LEMMA LineNumbersDiffer ==
  ASSUME NEW p, WellFormed(p), IsFiniteSet(Lines(p)), NEW x \in Lines(p), NEW y \in Lines(p),
         LinesBefore(p, x) = LinesBefore(p, y)
  PROVE  x = y
  <1> SUFFICES ASSUME x # y PROVE FALSE
    OBVIOUS
  <1>1. CASE Before(p, x, y)
    BY <1>1, NumbersFollowOrder
  <1>2. CASE Before(p, y, x)
    BY <1>2, NumbersFollowOrder
  <1> QED BY <1>1, <1>2, LinesComparable

(* A subproof takes the number of its assumption.                          *)
LEMMA AssumptionNumber ==
  ASSUME NEW p, WellFormed(p), Assumes(p), NEW r \in Subs(p), NEW a \in Entries(p.premise_list[r])
  PROVE  LinesBefore(p, a) = LinesBefore(p, r)
  <1>1. a \in Prems(p) /\ parent_of(p, a) = r /\ r # Root /\ a \in Live(p) /\ r \in Owners(p)
    BY Shape DEF WellFormed, ListedOnce, Owners, Live, Lines
  <1>2. transitive_parents(p, a) = {r} \cup transitive_parents(p, r)
    BY <1>1, AroundIs
  <1>3. Earlier(p, a) = {}
    <2> SUFFICES ASSUME NEW e \in Earlier(p, a) PROVE FALSE
      OBVIOUS
    <2>1. e \in Live(p) /\ parent_of(p, e) = r
      BY <1>1, EarlierIsListed
    <2>2. Ahead(p.premise_list[r], e, a)
      BY <1>1, <2>1, EarlierIs
    <2>3. p.premise_list[r] \in Seq(Live(p)) /\ Len(p.premise_list[r]) = 1
      BY <1>1, ListsAreLive DEF Assumes
    <2>4. p.premise_list[r][1] = a
      BY <2>3 DEF Entries
    <2> QED BY <2>2, <2>3, <2>4 DEF Ahead
  <1>4. \A y : Before(p, y, a) <=> Before(p, y, r)
    BY <1>2, <1>3 DEF Before
  <1> QED BY <1>4 DEF LinesBefore

(* So the number of a subproof is that of no line but its assumption, and  *)
(* of no other subproof.                                                   *)
LEMMA NumbersTell ==
  ASSUME NEW p, WellFormed(p), Assumes(p), IsFiniteSet(Lines(p)), NEW r \in Subs(p)
  PROVE  /\ \A x \in Lines(p) :
              LinesBefore(p, x) = LinesBefore(p, r) => x \in Entries(p.premise_list[r])
         /\ \A t \in Subs(p) : LinesBefore(p, t) = LinesBefore(p, r) => t = r
  <1>1. \A t \in Subs(p) : \E a \in Entries(p.premise_list[t]) :
          a \in Lines(p) /\ parent_of(p, a) = t /\ LinesBefore(p, a) = LinesBefore(p, t)
    <2> SUFFICES ASSUME NEW t \in Subs(p)
                 PROVE  \E a \in Entries(p.premise_list[t]) :
                          a \in Lines(p) /\ parent_of(p, a) = t /\ LinesBefore(p, a) = LinesBefore(p, t)
      OBVIOUS
    <2>1. p.premise_list[t] \in Seq(Live(p)) /\ Len(p.premise_list[t]) = 1
      BY ListsAreLive DEF Assumes, Owners
    <2>2. p.premise_list[t][1] \in Entries(p.premise_list[t])
      BY <2>1 DEF Entries
    <2>3. \A a \in Entries(p.premise_list[t]) : a \in Lines(p) /\ parent_of(p, a) = t
      BY DEF WellFormed, ListedOnce, Lines
    <2> QED BY <2>2, <2>3, AssumptionNumber
  <1>2. PICK a \in Entries(p.premise_list[r]) :
          a \in Lines(p) /\ parent_of(p, a) = r /\ LinesBefore(p, a) = LinesBefore(p, r)
    BY <1>1
  <1>3. ASSUME NEW t \in Subs(p), LinesBefore(p, t) = LinesBefore(p, r) PROVE t = r
    <2>1. PICK b \in Entries(p.premise_list[t]) :
            b \in Lines(p) /\ parent_of(p, b) = t /\ LinesBefore(p, b) = LinesBefore(p, t)
      BY <1>1
    <2>2. a = b
      BY <1>2, <1>3, <2>1, LineNumbersDiffer
    <2> QED BY <1>2, <2>1, <2>2
  <1> QED BY <1>2, <1>3, LineNumbersDiffer

-----------------------------------------------------------------------------
(* Writing.  The elements of a file tell of the lines and subproofs of a   *)
(* proof, in an order xs.                                                  *)

(* How many entries before place i are kept.                               *)
KeptBefore(s, S, i) == Cardinality({k \in 1 .. i - 1 : s[k] \notin S})

(* The place of an entry that is kept is counted from the entries kept     *)
(* before it.                                                              *)
LEMMA WithoutAt ==
  ASSUME NEW T, NEW s \in Seq(T), NEW S, NEW i \in DOMAIN s, s[i] \notin S
  PROVE  LET c == KeptBefore(s, S, i)
         IN  /\ c + 1 \in 1 .. Len(Without(s, S)) /\ Without(s, S)[c + 1] = s[i]
             /\ c \in Nat
  <1> DEFINE Kept == KeptAt(s, S)
             E == {k \in 1 .. i - 1 : s[k] \notin S}
             F == {m \in Kept : m <= i}
  <1>1. DOMAIN s = 1 .. Len(s) /\ Len(s) \in Nat /\ i \in 1 .. Len(s)
    OBVIOUS
  <1>2. Kept \in SUBSET (1 .. Len(s)) /\ i \in Kept
    BY <1>1 DEF KeptAt
  <1>3. F = E \cup {i} /\ i \notin E /\ E \subseteq 1 .. Len(s)
    BY <1>1 DEF KeptAt
  <1>4. IsFiniteSet(E)
    BY <1>1, <1>3, UptoCount, FS_Subset
  <1>5. Cardinality(F) = Cardinality(E) + 1 /\ Cardinality(E) \in Nat
    BY <1>3, <1>4, FS_AddElement, FS_CardinalityType
  <1> HIDE DEF Kept, E, F
  <1>6. /\ Cardinality(Kept) \in Nat
        /\ \A k \in Kept : RankIn(Kept, k) \in 1 .. Cardinality(Kept)
        /\ \A j, k \in Kept : RankIn(Kept, j) = RankIn(Kept, k) => j = k
    BY <1>1, <1>2, RankBijective DEF RankIn
  <1>7. RankIn(Kept, i) = Cardinality(E) + 1
    BY <1>5 DEF RankIn, F
  <1>8. Without(s, S) = Enumerated(s, Kept)
    BY WithoutEnumerates DEF Kept
  <1>9. Cardinality(E) + 1 \in 1 .. Cardinality(Kept)
    BY <1>2, <1>6, <1>7
  <1>10. (CHOOSE k \in Kept : RankIn(Kept, k) = Cardinality(E) + 1) = i
    BY <1>2, <1>6, <1>7
  <1>11. Enumerated(s, Kept)[Cardinality(E) + 1] = s[i]
    BY <1>9, <1>10 DEF Enumerated
  <1>12. Len(Without(s, S)) = Cardinality(Kept)
    <2>1. DOMAIN Without(s, S) = 1 .. Cardinality(Kept)
      BY <1>8 DEF Enumerated
    <2>2. Without(s, S) \in Seq(T)
      BY WithoutProperties
    <2> QED BY <1>6, <2>1, <2>2
  <1> QED BY <1>5, <1>8, <1>9, <1>11, <1>12 DEF E, KeptBefore

(* What must be read before x, so that x finds its subproof, its place and *)
(* what it refers to.                                                      *)
Needs(p, x) ==
  ({parent_of(p, x)} \ {Root}) \cup Earlier(p, x)
    \cup (IF x \in Justs(p) THEN p.just_map[x].deps \cup p.just_map[x].sdeps ELSE {})

(* The assumptions of the subproofs that step x refers to: each has the    *)
(* number of its subproof, which would then be taken for the assumption.   *)
Spoils(p, x) ==
  IF x \in Justs(p) THEN UNION {Entries(p.premise_list[r]) : r \in p.just_map[x].sdeps} ELSE {}

(* After R, reading xs in its order has behind it, at place i:             *)
Behind(R, xs, i) == R \cup {xs[k] : k \in 1 .. i - 1}

(* xs can be read after R, in its order.                                   *)
Ordered(p, R, xs) ==
  /\ xs \in Seq(Live(p)) /\ NoRepeats(xs) /\ Entries(xs) \cap R = {}
  /\ \A i \in DOMAIN xs : /\ Needs(p, xs[i]) \subseteq Behind(R, xs, i)
                          /\ Spoils(p, xs[i]) \cap Behind(R, xs, i) = {}

(* What is read of what step expression e is written as.                   *)
Reopened(e) ==
  [says |-> e.says, rule |-> from_serialized_name(to_serialized_name(e.rule))]

(* By the name a rule is saved by, a rule of that name is found.           *)
LEMMA RuleRead ==
  ASSUME NEW r \in Rules
  PROVE  LET name == to_serialized_name(r)
             read == from_serialized_name(name)
         IN  read \in Rules /\ to_serialized_name(read) = name
  <1> DEFINE name == to_serialized_name(r)
             S == WithName(name)
  <1>1. /\ DOMAIN declared_rules \in SUBSET Nat
        /\ \A i \in DOMAIN declared_rules : declared_rules[i].id \in Rules
    <2> DEFINE T == [id : Rules, name : Names]
    <2>1. declared_rules \in Seq(T) /\ \A e \in T : e.id \in Rules
      BY RulesAssumption
    <2> HIDE DEF T
    <2>2. /\ DOMAIN declared_rules = 1 .. Len(declared_rules)
          /\ \A i \in DOMAIN declared_rules : declared_rules[i] \in T
      BY <2>1
    <2> QED BY <2>1, <2>2
  <1>2. PICK i \in DOMAIN declared_rules : declared_rules[i].id = r
    BY RulesAssumption
  <1>3. i \in S
    <2>1. \A m \in DOMAIN declared_rules : declared_rules[m].id = r => m = i
      BY <1>2, RulesAssumption
    <2>2. (CHOOSE m \in DOMAIN declared_rules : declared_rules[m].id = r) = i
      BY <1>2, <2>1
    <2> QED BY <2>2 DEF to_serialized_name, WithName
  <1>4. S \in SUBSET Nat /\ S \subseteq DOMAIN declared_rules
    BY <1>1 DEF WithName
  <1> HIDE DEF S
  <1>5. \E n \in S : \A m \in S : n <= m
    BY <1>3, <1>4, LeastNat
  <1> DEFINE k == CHOOSE n \in S : \A m \in S : n <= m
  <1>6. k \in S
    BY <1>5
  <1>7. from_serialized_name(name) = declared_rules[k].id
    BY <1>3 DEF from_serialized_name, S
  <1> HIDE DEF k
  <1>8. k \in DOMAIN declared_rules /\ declared_rules[k].name = name
    BY <1>4, <1>6 DEF S, WithName
  <1> HIDE DEF name
  <1>9. to_serialized_name(declared_rules[k].id) = declared_rules[k].name
    <2>1. \A m \in DOMAIN declared_rules : declared_rules[m].id = declared_rules[k].id => m = k
      BY <1>8, RulesAssumption
    <2>2. (CHOOSE m \in DOMAIN declared_rules : declared_rules[m].id = declared_rules[k].id) = k
      BY <1>8, <2>1
    <2> QED BY <2>2 DEF to_serialized_name
  <1> QED BY <1>1, <1>7, <1>8, <1>9 DEF name

(* The expression stays, and the rule is one of the same name.             *)
LEMMA ReopenedIs ==
  ASSUME NEW e \in Exprs
  PROVE  /\ Reopened(e) \in Exprs /\ Reopened(e).says = e.says
         /\ to_serialized_name(Reopened(e).rule) = to_serialized_name(e.rule)
  <1>1. e.says \in Formulas /\ e.rule \in Rules
    BY ContentsAssumption
  <1>2. /\ from_serialized_name(to_serialized_name(e.rule)) \in Rules
        /\ to_serialized_name(from_serialized_name(to_serialized_name(e.rule)))
             = to_serialized_name(e.rule)
    BY <1>1, RuleRead
  <1> QED BY <1>1, <1>2, ContentsAssumption DEF Reopened

(* Element el tells of x, when sub gives the meaning of ids.               *)
Tells(p, sub, el, x) ==
  /\ el.in \in DOMAIN sub /\ parent_of(p, x) = sub[el.in] /\ el.num = LinesBefore(p, x)
  /\ \/ x \in Prems(p) /\ el.is = "assumption" /\ el.raw = p.prem_map[x].says
     \/ /\ x \in Justs(p) /\ el.is = "step" /\ el.raw = p.just_map[x].expr.says
        /\ el.rule = to_serialized_name(p.just_map[x].expr.rule)
        /\ el.premises = {LinesBefore(p, d) : d \in p.just_map[x].deps \cup p.just_map[x].sdeps}
     \/ x \in Subs(p) /\ el.is = "subproof" /\ el.id \in DOMAIN sub /\ sub[el.id] = x

(* The elements of file f tell of xs, one by one.                          *)
Told(p, sub, f, xs) ==
  /\ f \in Seq(Entries(f)) /\ Len(f) = Len(xs)
  /\ \A i \in DOMAIN xs : Tells(p, sub, f[i], xs[i])

(* The ids below n stand for different subproofs, 0 for the proof itself.  *)
Meaning(p, n, sub) ==
  /\ n \in Nat \ {0} /\ sub \in [0 .. n - 1 -> Owners(p)] /\ sub[0] = Root
  /\ \A i, j \in 0 .. n - 1 : sub[i] = sub[j] => i = j

(* The subproofs that have an id, those that wait in queue q, and those    *)
(* that are written.                                                       *)
Named(n, sub) == {sub[i] : i \in 0 .. n - 1}
Waiting(q) == {q[k][2] : k \in DOMAIN q}
Done(q, n, sub) == Named(n, sub) \ Waiting(q)

(* The writer's queue holds each waiting subproof once, with its id.       *)
QueueOK(p, q, n, sub) ==
  /\ q \in Seq(Nat \X Owners(p))
  /\ \A k \in DOMAIN q : q[k][1] \in 0 .. n - 1 /\ sub[q[k][1]] = q[k][2]
  /\ \A j, k \in DOMAIN q : q[j][2] = q[k][2] => j = k

(* A subproof before one that waits, or before one around it, waits nearer *)
(* to the front: it is written later.                                      *)
LaterWaits(p, q) ==
  \A k \in DOMAIN q : q[k][2] # Root =>
    \A u \in {q[k][2]} \cup transitive_parents(p, q[k][2]) :
      \A r \in Earlier(p, u) \cap Subs(p) : \E m \in 1 .. k - 1 : q[m][2] = r

(* The writer, between two subproofs: file f tells of xs, which is all     *)
(* that is directly in a subproof that was taken from queue q.             *)
Writes(p, f, q, n, sub, xs) ==
  /\ Meaning(p, n, sub) /\ Told(p, sub, f, xs) /\ Ordered(p, {}, xs)
  /\ QueueOK(p, q, n, sub) /\ LaterWaits(p, q)
  /\ Entries(xs) \cap Subs(p) = Named(n, sub) \ {Root}
  /\ \A x \in Live(p) : x \in Entries(xs) <=> parent_of(p, x) \in Done(q, n, sub)

(* What is written of a subproof s.                                        *)
Listed(p, s) == p.premise_list[s] \o p.line_list[s]

(* It is all that is directly in s, each after what is earlier.            *)
LEMMA ListedIs ==
  ASSUME NEW p, WellFormed(p), NEW s \in Owners(p)
  PROVE  LET L == Listed(p, s)
             P == p.premise_list[s]
         IN  /\ L \in Seq(Live(p)) /\ NoRepeats(L)
             /\ Entries(L) = {x \in Live(p) : parent_of(p, x) = s}
             /\ \A i \in DOMAIN L : Earlier(p, L[i]) = Behind({}, L, i)
             /\ P \in Seq(Live(p)) /\ p.line_list[s] \in Seq(Live(p))
             /\ Len(L) = Len(P) + Len(p.line_list[s])
             /\ \A i \in 1 .. Len(L) :
                  L[i] = IF i <= Len(P) THEN P[i] ELSE p.line_list[s][i - Len(P)]
  <1> DEFINE P == p.premise_list[s]
             Q == p.line_list[s]
             L == P \o Q
  <1>1. P \in Seq(Live(p)) /\ Q \in Seq(Live(p)) /\ NoRepeats(P) /\ NoRepeats(Q)
    BY ListsAreLive
  <1>2. /\ Entries(P) = {x \in Prems(p) : parent_of(p, x) = s}
        /\ Entries(Q) = {x \in Justs(p) \cup Subs(p) : parent_of(p, x) = s}
    BY DEF WellFormed, ListedOnce, Owners
  <1>3. Entries(P) \cap Entries(Q) = {}
    BY <1>2, Shape DEF Lines, Owners
  <1>e. DOMAIN P = 1 .. Len(P) /\ DOMAIN Q = 1 .. Len(Q) /\ Len(P) \in Nat /\ Len(Q) \in Nat
    BY <1>1
  <1>i. \A i \in DOMAIN P : P[i] \in Entries(P)
    BY DEF Entries
  <1>j. \A i \in DOMAIN Q : Q[i] \in Entries(Q)
    BY DEF Entries
  <1> HIDE DEF P, Q
  <1>4. /\ L \in Seq(Live(p)) /\ Len(L) = Len(P) + Len(Q)
        /\ DOMAIN L = 1 .. Len(P) + Len(Q)
        /\ \A i \in 1 .. Len(L) : L[i] = IF i <= Len(P) THEN P[i] ELSE Q[i - Len(P)]
    BY <1>1
  <1> HIDE DEF L
  <1>5. NoRepeats(L)
    <2> SUFFICES ASSUME NEW i \in DOMAIN L, NEW j \in DOMAIN L, L[i] = L[j] PROVE i = j
      BY DEF NoRepeats
    <2>1. CASE i <= Len(P) /\ j <= Len(P)
      BY <1>1, <1>4, <1>e, <2>1 DEF NoRepeats
    <2>2. CASE i > Len(P) /\ j > Len(P)
      <3>1. i - Len(P) \in DOMAIN Q /\ j - Len(P) \in DOMAIN Q
        BY <1>4, <1>e, <2>2
      <3>2. Q[i - Len(P)] = Q[j - Len(P)]
        BY <1>4, <1>e, <2>2
      <3>3. i - Len(P) = j - Len(P)
        BY <1>1, <3>1, <3>2 DEF NoRepeats
      <3> QED BY <1>4, <1>e, <3>3
    <2>3. CASE i <= Len(P) /\ j > Len(P)
      <3>1. i \in DOMAIN P /\ j - Len(P) \in DOMAIN Q /\ P[i] = Q[j - Len(P)]
        BY <1>4, <1>e, <2>3
      <3> QED BY <1>3, <1>i, <1>j, <3>1
    <2>4. CASE i > Len(P) /\ j <= Len(P)
      <3>1. j \in DOMAIN P /\ i - Len(P) \in DOMAIN Q /\ P[j] = Q[i - Len(P)]
        BY <1>4, <1>e, <2>4
      <3> QED BY <1>3, <1>i, <1>j, <3>1
    <2> QED BY <1>4, <1>e, <2>1, <2>2, <2>3, <2>4
  <1>6. Entries(L) = Entries(P) \cup Entries(Q)
    <2>1. ASSUME NEW x \in Entries(L) PROVE x \in Entries(P) \cup Entries(Q)
      <3>1. PICK i \in DOMAIN L : L[i] = x
        BY DEF Entries
      <3>2. CASE i <= Len(P)
        <4>1. i \in DOMAIN P /\ P[i] = x
          BY <1>4, <1>e, <3>1, <3>2
        <4> QED BY <1>i, <4>1
      <3>3. CASE ~(i <= Len(P))
        <4>1. i - Len(P) \in DOMAIN Q /\ Q[i - Len(P)] = x
          BY <1>4, <1>e, <3>1, <3>3
        <4> QED BY <1>j, <4>1
      <3> QED BY <3>2, <3>3
    <2>2. ASSUME NEW i \in DOMAIN P PROVE P[i] \in Entries(L)
      <3>1. i \in DOMAIN L /\ L[i] = P[i]
        BY <1>4, <1>e
      <3> QED BY <3>1 DEF Entries
    <2>3. ASSUME NEW i \in DOMAIN Q PROVE Q[i] \in Entries(L)
      <3>1. i + Len(P) \in DOMAIN L /\ i + Len(P) - Len(P) = i /\ ~(i + Len(P) <= Len(P))
        BY <1>4, <1>e
      <3>2. L[i + Len(P)] = Q[i]
        BY <1>4, <3>1
      <3> QED BY <3>1, <3>2 DEF Entries
    <2>4. Entries(P) \subseteq Entries(L)
      BY <2>2 DEF Entries
    <2>5. Entries(Q) \subseteq Entries(L)
      BY <2>3 DEF Entries
    <2> QED BY <2>1, <2>4, <2>5
  <1>7. Entries(L) = {x \in Live(p) : parent_of(p, x) = s}
    BY <1>2, <1>6 DEF P, Q, Live, Lines
  <1>8. ASSUME NEW i \in DOMAIN L PROVE Earlier(p, L[i]) = Behind({}, L, i)
    <2>1. parent_of(p, L[i]) = s
      BY <1>7 DEF Entries
    <2>2. Earlier(p, L[i]) = {L[k] : k \in {k \in DOMAIN L : \A j \in 1 .. k : L[j] # L[i]}}
      BY <2>1 DEF Earlier, L, P, Q
    <2>3. {k \in DOMAIN L : \A j \in 1 .. k : L[j] # L[i]} = 1 .. i - 1
      <3>1. ASSUME NEW k \in DOMAIN L, \A j \in 1 .. k : L[j] # L[i] PROVE k \in 1 .. i - 1
        BY <1>4, <1>e, <3>1
      <3>2. ASSUME NEW k \in 1 .. i - 1 PROVE k \in DOMAIN L /\ \A j \in 1 .. k : L[j] # L[i]
        <4>1. k \in DOMAIN L /\ \A j \in 1 .. k : j \in DOMAIN L /\ j # i
          BY <1>4, <1>e
        <4> QED BY <1>5, <4>1 DEF NoRepeats
      <3> QED BY <3>1, <3>2
    <2> QED BY <2>2, <2>3 DEF Behind
  <1> QED BY <1>1, <1>4, <1>5, <1>7, <1>8 DEF Listed, L, P, Q

(* When s comes to be written, what its lines need is written or is        *)
(* earlier in s, and the assumption of a subproof that they refer to is    *)
(* not written.                                                            *)
LEMMA NeedsMet ==
  ASSUME NEW p, WellFormed(p), InScope(p), NEW f, NEW q, NEW n, NEW sub, NEW xs,
         Writes(p, f, q, n, sub, xs), q # <<>>,
         NEW x \in Live(p), parent_of(p, x) = q[Len(q)][2]
  PROVE  /\ Needs(p, x) \subseteq Entries(xs) \cup Earlier(p, x)
         /\ \A a \in Spoils(p, x) : a \notin Entries(xs) /\ parent_of(p, a) # q[Len(q)][2]
  <1> DEFINE K == Len(q)
             s == q[K][2]
             All == Named(n, sub)
  <1>1. /\ K \in DOMAIN q /\ DOMAIN q = 1 .. K /\ K \in Nat
        /\ q[K][1] \in 0 .. n - 1 /\ sub[q[K][1]] = s
    <2>1. q \in Seq(Nat \X Owners(p))
      BY DEF Writes, QueueOK
    <2>2. K \in DOMAIN q /\ DOMAIN q = 1 .. K /\ K \in Nat
      BY <2>1
    <2> QED BY <2>2 DEF Writes, QueueOK
  <1>2. /\ s \in All /\ s \notin Done(q, n, sub) /\ All \subseteq Owners(p)
        /\ Done(q, n, sub) \subseteq All /\ Root \notin Subs(p)
    BY <1>1, Shape DEF Writes, Meaning, Done, Waiting, Named
  <1>3. /\ \A y \in Live(p) : y \in Entries(xs) <=> parent_of(p, y) \in Done(q, n, sub)
        /\ \A y \in Subs(p) : y \in Entries(xs) <=> y \in All
    BY <1>2 DEF Writes
  <1> HIDE DEF All
  <1>4. ASSUME NEW u \in Subs(p), u \in All PROVE parent_of(p, u) \in Done(q, n, sub)
    BY <1>3, <1>4 DEF Live
  <1>5. s # Root => {s} \cup transitive_parents(p, s) \subseteq Subs(p) \cap All
    <2> SUFFICES ASSUME s # Root PROVE {s} \cup transitive_parents(p, s) \subseteq Subs(p) \cap All
      OBVIOUS
    <2> DEFINE C == Subs(p) \cap All
    <2>1. s \in C
      BY <1>2 DEF Owners
    <2>2. \A u \in C : parent_of(p, u) # Root => parent_of(p, u) \in C
      BY <1>2, <1>4 DEF Owners
    <2>3. C \in SUBSET Subs(p) /\ (parent_of(p, s) # Root => parent_of(p, s) \in C)
      BY <2>1, <2>2
    <2> HIDE DEF C
    <2>4. transitive_parents(p, s) \subseteq C
      BY <2>2, <2>3, AroundIs
    <2> QED BY <2>1, <2>4 DEF C
  <1>6. ASSUME NEW u \in {s} \cup transitive_parents(p, s), s # Root
        PROVE  Earlier(p, u) \subseteq Entries(xs)
    <2>1. parent_of(p, u) \in Done(q, n, sub)
      BY <1>4, <1>5, <1>6
    <2>2. \A d \in Earlier(p, u) : d \in Live(p) /\ parent_of(p, d) = parent_of(p, u)
      BY EarlierIsListed
    <2> QED BY <1>3, <2>1, <2>2
  <1>7. /\ s = Root => transitive_parents(p, x) = {}
        /\ s # Root => transitive_parents(p, x) = {s} \cup transitive_parents(p, s)
    BY AroundIs
  <1>8. ASSUME x \in Justs(p), NEW d \in p.just_map[x].deps \cup p.just_map[x].sdeps
        PROVE  \/ d \in Earlier(p, x)
               \/ s # Root /\ \E u \in {s} \cup transitive_parents(p, s) : d \in Earlier(p, u)
    <2>1. d \in possible_deps_for_line(p, x)
      BY <1>8 DEF InScope, RefsInScope, can_reference_dep
    <2>2. PICK u \in {x} \cup transitive_parents(p, x) : d \in Earlier(p, u)
      BY <2>1 DEF possible_deps_for_line
    <2> QED BY <1>7, <2>2
  <1>9. Needs(p, x) \subseteq Entries(xs) \cup Earlier(p, x)
    <2>1. parent_of(p, x) # Root => parent_of(p, x) \in Entries(xs)
      BY <1>3, <1>5
    <2>2. x \in Justs(p) =>
            p.just_map[x].deps \cup p.just_map[x].sdeps \subseteq Entries(xs) \cup Earlier(p, x)
      BY <1>6, <1>8
    <2> QED BY <2>1, <2>2 DEF Needs
  <1>10. ASSUME NEW a \in Spoils(p, x) PROVE a \notin Entries(xs) /\ parent_of(p, a) # s
    <2>1. x \in Justs(p)
      BY <1>10 DEF Spoils
    <2>2. PICK r \in p.just_map[x].sdeps : a \in Entries(p.premise_list[r])
      BY <1>10, <2>1 DEF Spoils
    <2>3. r \in Subs(p) /\ a \in Live(p) /\ parent_of(p, a) = r
      BY <2>1, <2>2 DEF WellFormed, NoDanglingRefs, ListedOnce, Live, Lines
    <2>4. r \notin Done(q, n, sub) /\ r # s
      <3>1. CASE r \in Earlier(p, x)
        <4>1. parent_of(p, r) = s /\ r \in Live(p)
          BY <3>1, EarlierIsListed
        <4>2. r \notin All
          BY <1>2, <1>3, <2>3, <4>1
        <4> QED BY <1>2, <4>2
      <3>2. ASSUME s # Root, NEW u \in {s} \cup transitive_parents(p, s), r \in Earlier(p, u)
            PROVE  r \notin Done(q, n, sub) /\ r # s
        <4>1. PICK m \in 1 .. K - 1 : q[m][2] = r
          BY <1>1, <2>3, <3>2 DEF Writes, LaterWaits
        <4>2. m \in DOMAIN q /\ m # K
          BY <1>1
        <4> QED BY <1>1, <4>1, <4>2 DEF Writes, QueueOK, Done, Waiting
      <3> QED BY <1>8, <2>1, <2>2, <3>1, <3>2
    <2> QED BY <1>3, <2>3, <2>4
  <1> QED BY <1>9, <1>10

(* What a concatenation holds, and where.                                  *)
LEMMA Joined ==
  ASSUME NEW T, NEW s \in Seq(T), NEW t \in Seq(T)
  PROVE  /\ s \o t \in Seq(T) /\ Len(s \o t) = Len(s) + Len(t)
         /\ DOMAIN (s \o t) = 1 .. Len(s) + Len(t) /\ Len(s) \in Nat /\ Len(t) \in Nat
         /\ DOMAIN s = 1 .. Len(s) /\ DOMAIN t = 1 .. Len(t)
         /\ \A i \in 1 .. Len(s) : (s \o t)[i] = s[i]
         /\ \A i \in 1 .. Len(t) : (s \o t)[Len(s) + i] = t[i]
         /\ \A i \in 1 .. Len(s) + Len(t) :
              i \in 1 .. Len(s) \/ \E k \in 1 .. Len(t) : i = Len(s) + k
         /\ Entries(s \o t) = Entries(s) \cup Entries(t)
  <1>1. /\ s \o t \in Seq(T) /\ Len(s \o t) = Len(s) + Len(t)
        /\ DOMAIN (s \o t) = 1 .. Len(s) + Len(t) /\ Len(s) \in Nat /\ Len(t) \in Nat
        /\ DOMAIN s = 1 .. Len(s) /\ DOMAIN t = 1 .. Len(t)
    OBVIOUS
  <1>2. \A i \in 1 .. Len(s) : (s \o t)[i] = s[i]
    OBVIOUS
  <1>3. ASSUME NEW i \in 1 .. Len(t) PROVE (s \o t)[Len(s) + i] = t[i]
    OBVIOUS
  <1>4. ASSUME NEW i \in 1 .. Len(s) + Len(t)
        PROVE  i \in 1 .. Len(s) \/ \E k \in 1 .. Len(t) : i = Len(s) + k
    <2>1. CASE i <= Len(s)
      BY <1>1, <2>1
    <2>2. CASE ~(i <= Len(s))
      <3>1. i - Len(s) \in 1 .. Len(t) /\ i = Len(s) + (i - Len(s))
        BY <1>1, <2>2
      <3> QED BY <3>1
    <2> QED BY <2>1, <2>2
  <1>5. \A i \in 1 .. Len(s) : i \in 1 .. Len(s) + Len(t)
    BY <1>1
  <1>6. \A i \in 1 .. Len(t) : Len(s) + i \in 1 .. Len(s) + Len(t)
    BY <1>1
  <1> DEFINE u == s \o t
  <1>7. Entries(u) = Entries(s) \cup Entries(t)
    <2> HIDE DEF u
    <2>1. ASSUME NEW e \in Entries(u) PROVE e \in Entries(s) \cup Entries(t)
      <3>1. PICK i \in 1 .. Len(s) + Len(t) : e = u[i]
        BY <1>1 DEF Entries, u
      <3>2. CASE i \in 1 .. Len(s)
        BY <1>1, <1>2, <3>1, <3>2 DEF Entries, u
      <3>3. CASE \E k \in 1 .. Len(t) : i = Len(s) + k
        <4>1. PICK k \in 1 .. Len(t) : i = Len(s) + k
          BY <3>3
        <4>2. e = t[k]
          BY <1>3, <3>1, <4>1 DEF u
        <4> QED BY <1>1, <4>2 DEF Entries
      <3> QED BY <1>4, <3>2, <3>3
    <2>2. Entries(s) \subseteq Entries(u)
      BY <1>1, <1>2, <1>5 DEF Entries, u
    <2>3. Entries(t) \subseteq Entries(u)
      BY <1>1, <1>3, <1>6 DEF Entries, u
    <2> QED BY <2>1, <2>2, <2>3
  <1> QED BY <1>1, <1>2, <1>3, <1>4, <1>7

(* An order grows by what needs only what is there.                        *)
LEMMA OrderGrows ==
  ASSUME NEW p, NEW xs, Ordered(p, {}, xs), NEW L \in Seq(Live(p)), NoRepeats(L),
         Entries(L) \cap Entries(xs) = {},
         \A i \in DOMAIN L :
           /\ Needs(p, L[i]) \subseteq Entries(xs) \cup Behind({}, L, i)
           /\ Spoils(p, L[i]) \cap (Entries(xs) \cup Entries(L)) = {}
  PROVE  Ordered(p, {}, xs \o L)
  <1> DEFINE ys == xs \o L
             m == Len(xs)
  <1>1. xs \in Seq(Live(p)) /\ NoRepeats(xs)
    BY DEF Ordered
  <1>2. /\ ys \in Seq(Live(p)) /\ Len(ys) = m + Len(L)
        /\ DOMAIN ys = 1 .. m + Len(L) /\ m \in Nat /\ Len(L) \in Nat
        /\ DOMAIN xs = 1 .. m /\ DOMAIN L = 1 .. Len(L)
        /\ \A i \in 1 .. m : ys[i] = xs[i]
        /\ \A i \in 1 .. Len(L) : ys[m + i] = L[i]
        /\ \A i \in 1 .. m + Len(L) : i \in 1 .. m \/ \E k \in 1 .. Len(L) : i = m + k
    BY <1>1, Joined
  <1>e. /\ \A i \in 1 .. m : xs[i] \in Entries(xs)
        /\ \A i \in 1 .. Len(L) : L[i] \in Entries(L)
    BY <1>2 DEF Entries
  <1> HIDE DEF ys, m
  <1>3. NoRepeats(ys)
    <2> SUFFICES ASSUME NEW i \in DOMAIN ys, NEW j \in DOMAIN ys, ys[i] = ys[j] PROVE i = j
      BY DEF NoRepeats
    <2>1. CASE i \in 1 .. m /\ j \in 1 .. m
      <3>1. xs[i] = xs[j] /\ i \in DOMAIN xs /\ j \in DOMAIN xs
        BY <1>2, <2>1
      <3> QED BY <1>1, <3>1 DEF NoRepeats
    <2>2. ASSUME NEW k \in 1 .. Len(L), i = m + k, j \in 1 .. m PROVE FALSE
      BY <1>2, <1>e, <2>2
    <2>3. ASSUME NEW k \in 1 .. Len(L), j = m + k, i \in 1 .. m PROVE FALSE
      BY <1>2, <1>e, <2>3
    <2>4. ASSUME NEW k \in 1 .. Len(L), NEW l \in 1 .. Len(L), i = m + k, j = m + l PROVE i = j
      <3>1. L[k] = L[l] /\ k \in DOMAIN L /\ l \in DOMAIN L
        BY <1>2, <2>4
      <3>2. k = l
        BY <3>1 DEF NoRepeats
      <3> QED BY <2>4, <3>2
    <2> QED BY <1>2, <2>1, <2>2, <2>3, <2>4
  <1>4. ASSUME NEW i \in 1 .. m
        PROVE  Needs(p, ys[i]) \subseteq Behind({}, ys, i) /\ Spoils(p, ys[i]) \cap Behind({}, ys, i) = {}
    <2>1. \A k \in 1 .. i - 1 : k \in 1 .. m
      BY <1>2
    <2>2. Behind({}, ys, i) = Behind({}, xs, i)
      BY <1>2, <2>1 DEF Behind
    <2> QED BY <1>2, <2>2 DEF Ordered
  <1>5. ASSUME NEW l \in 1 .. Len(L)
        PROVE  /\ Needs(p, ys[m + l]) \subseteq Behind({}, ys, m + l)
               /\ Spoils(p, ys[m + l]) \cap Behind({}, ys, m + l) = {}
    <2> DEFINE B == Behind({}, ys, m + l)
    <2>1. ys[m + l] = L[l] /\ l \in DOMAIN L
      BY <1>2
    <2>2. Entries(xs) \subseteq B
      <3>1. \A k \in 1 .. m : k \in 1 .. m + l - 1
        BY <1>2
      <3> QED BY <1>2, <3>1 DEF Entries, Behind
    <2>3. Behind({}, L, l) \subseteq B
      <3>1. \A k \in 1 .. l - 1 : m + k \in 1 .. m + l - 1 /\ k \in 1 .. Len(L)
        BY <1>2
      <3> QED BY <1>2, <3>1 DEF Behind
    <2>4. B \subseteq Entries(xs) \cup Entries(L)
      <3>1. \A k \in 1 .. m + l - 1 : k \in 1 .. m + Len(L)
        BY <1>2
      <3> QED BY <1>2, <1>e, <3>1 DEF Behind
    <2> HIDE DEF B
    <2>5. Needs(p, L[l]) \subseteq B /\ Spoils(p, L[l]) \cap B = {}
      BY <2>1, <2>2, <2>3, <2>4
    <2> QED BY <2>1, <2>5 DEF B
  <1>6. \A i \in DOMAIN ys : /\ Needs(p, ys[i]) \subseteq Behind({}, ys, i)
                             /\ Spoils(p, ys[i]) \cap Behind({}, ys, i) = {}
    BY <1>2, <1>4, <1>5
  <1> QED BY <1>2, <1>3, <1>6 DEF Ordered, ys

(* The meaning of ids when the next m, m + 1, ... are given out for list.  *)
NextSub(m, g, list) ==
  [i \in 0 .. (m + Len(list)) - 1 |-> IF i < m THEN g[i] ELSE list[i - m + 1]]

(* Every id stays what it is, and the next ones are for inner.             *)
LEMMA MeaningGrows ==
  ASSUME NEW p, NEW n, NEW sub, Meaning(p, n, sub), NEW inner \in Seq(Owners(p)), NoRepeats(inner),
         Entries(inner) \cap Named(n, sub) = {}
  PROVE  LET sub2 == NextSub(n, sub, inner)
         IN  /\ Meaning(p, n + Len(inner), sub2)
             /\ \A i \in 0 .. n - 1 : i \in DOMAIN sub2 /\ sub2[i] = sub[i]
             /\ \A i \in 1 .. Len(inner) : n + i - 1 \in DOMAIN sub2 /\ sub2[n + i - 1] = inner[i]
             /\ Named(n + Len(inner), sub2)
                  = Named(n, sub) \cup Entries(inner)
  <1> DEFINE sub2 == NextSub(n, sub, inner)
             N == n + Len(inner)
  <1>1. n \in Nat /\ n > 0 /\ Len(inner) \in Nat /\ DOMAIN inner = 1 .. Len(inner)
    BY DEF Meaning
  <1>2. DOMAIN sub2 = 0 .. N - 1
    BY DEF NextSub
  <1>3. ASSUME NEW i \in 0 .. n - 1 PROVE i \in 0 .. N - 1 /\ sub2[i] = sub[i]
    <2>1. i \in 0 .. N - 1 /\ i < n
      BY <1>1
    <2> QED BY <2>1 DEF NextSub
  <1>4. ASSUME NEW i \in 1 .. Len(inner) PROVE n + i - 1 \in 0 .. N - 1 /\ sub2[n + i - 1] = inner[i]
    <2>1. n + i - 1 \in 0 .. N - 1 /\ ~(n + i - 1 < n) /\ ((n + i - 1) - n) + 1 = i
      BY <1>1
    <2> QED BY <2>1 DEF NextSub
  <1>5. ASSUME NEW i \in 0 .. N - 1
        PROVE  i \in 0 .. n - 1 \/ \E k \in 1 .. Len(inner) : i = n + k - 1
    <2>1. CASE i < n
      BY <1>1, <2>1
    <2>2. CASE ~(i < n)
      <3>1. i - n + 1 \in 1 .. Len(inner) /\ i = n + (i - n + 1) - 1
        BY <1>1, <2>2
      <3> QED BY <3>1
    <2> QED BY <2>1, <2>2
  <1>6. /\ \A i \in 0 .. n - 1 : sub[i] \in Owners(p) /\ sub[i] \in Named(n, sub)
        /\ \A i \in 1 .. Len(inner) : inner[i] \in Owners(p) /\ inner[i] \in Entries(inner)
    BY <1>1 DEF Meaning, Entries, Named
  <1>7. sub2 = [i \in 0 .. N - 1 |-> sub2[i]]
    BY DEF NextSub
  <1>8. \A i, j \in 0 .. n - 1 : sub[i] = sub[j] => i = j
    BY DEF Meaning
  <1>9. \A i, j \in 1 .. Len(inner) : inner[i] = inner[j] => i = j
    BY <1>1 DEF NoRepeats
  <1> HIDE DEF sub2
  <1>10. ASSUME NEW i \in 0 .. N - 1 PROVE sub2[i] \in Owners(p)
    <2>1. CASE i \in 0 .. n - 1
      BY <1>3, <1>6, <2>1
    <2>2. ASSUME NEW k \in 1 .. Len(inner), i = n + k - 1 PROVE sub2[i] \in Owners(p)
      BY <1>4, <1>6, <2>2
    <2> QED BY <1>5, <2>1, <2>2
  <1>11. ASSUME NEW i \in 0 .. N - 1, NEW j \in 0 .. N - 1, sub2[i] = sub2[j] PROVE i = j
    <2>1. CASE i \in 0 .. n - 1 /\ j \in 0 .. n - 1
      BY <1>3, <1>8, <1>11, <2>1
    <2>2. ASSUME NEW k \in 1 .. Len(inner), i = n + k - 1, j \in 0 .. n - 1 PROVE FALSE
      BY <1>3, <1>4, <1>6, <1>11, <2>2
    <2>3. ASSUME NEW k \in 1 .. Len(inner), j = n + k - 1, i \in 0 .. n - 1 PROVE FALSE
      BY <1>3, <1>4, <1>6, <1>11, <2>3
    <2>4. ASSUME NEW k \in 1 .. Len(inner), NEW l \in 1 .. Len(inner), i = n + k - 1, j = n + l - 1
          PROVE  i = j
      <3>1. inner[k] = inner[l]
        BY <1>4, <1>11, <2>4
      <3>2. k = l
        BY <1>9, <3>1
      <3> QED BY <2>4, <3>2
    <2> QED BY <1>5, <2>1, <2>2, <2>3, <2>4
  <1>12. sub2[0] = Root
    BY <1>1, <1>3 DEF Meaning
  <1>13. N \in Nat \ {0}
    BY <1>1
  <1>14. Meaning(p, N, sub2)
    BY <1>7, <1>10, <1>11, <1>12, <1>13 DEF Meaning
  <1>15. Named(N, sub2) = Named(n, sub) \cup Entries(inner)
    <2>1. ASSUME NEW i \in 0 .. N - 1 PROVE sub2[i] \in Named(n, sub) \cup Entries(inner)
      <3>1. CASE i \in 0 .. n - 1
        BY <1>3, <1>6, <3>1
      <3>2. ASSUME NEW k \in 1 .. Len(inner), i = n + k - 1 PROVE sub2[i] \in Entries(inner)
        BY <1>4, <1>6, <3>2
      <3> QED BY <1>5, <3>1, <3>2
    <2>2. \A i \in 0 .. n - 1 : sub[i] \in Named(N, sub2)
      BY <1>3 DEF Named
    <2>3. \A i \in 1 .. Len(inner) : inner[i] \in Named(N, sub2)
      BY <1>4 DEF Named
    <2> QED BY <1>1, <2>1, <2>2, <2>3 DEF Entries, Named
  <1> QED BY <1>2, <1>3, <1>4, <1>14, <1>15 DEF sub2

(* The subproofs directly in the one that is written next.                 *)
LEMMA InnerIs ==
  ASSUME NEW p, WellFormed(p), NEW s \in Owners(p)
  PROVE  LET inner == Without(p.line_list[s], Justs(p))
         IN  /\ inner \in Seq(Owners(p)) /\ NoRepeats(inner)
             /\ Entries(inner) = {r \in Subs(p) : parent_of(p, r) = s}
             /\ \A i \in DOMAIN inner : \A r \in Earlier(p, inner[i]) \cap Subs(p) :
                  \E k \in 1 .. i - 1 : inner[k] = r
  <1> DEFINE list == p.line_list[s]
             inner == Without(list, Justs(p))
  <1>1. list \in Seq(Live(p)) /\ NoRepeats(list)
    BY ListsAreLive
  <1>2. inner \in Seq(Live(p)) /\ NoRepeats(inner) /\ Entries(inner) = Entries(list) \ Justs(p)
    BY <1>1, WithoutProperties
  <1>3. Entries(list) = {x \in Justs(p) \cup Subs(p) : parent_of(p, x) = s}
    BY DEF WellFormed, ListedOnce, Owners
  <1>4. /\ Root \notin Subs(p) /\ Prems(p) \cap Justs(p) = {}
        /\ Lines(p) \cap Owners(p) = {}
    BY Shape
  <1>5. Entries(inner) = {r \in Subs(p) : parent_of(p, r) = s}
    BY <1>2, <1>3, <1>4 DEF Lines, Owners
  <1> HIDE DEF list, inner
  <1>6. inner \in Seq(Owners(p))
    BY <1>2, <1>5, SeqOverEntries DEF Owners
  <1>7. ASSUME NEW i \in DOMAIN inner, NEW r \in Earlier(p, inner[i]) \cap Subs(p)
        PROVE  \E k \in 1 .. i - 1 : inner[k] = r
    <2>1. inner[i] \in Subs(p) /\ parent_of(p, inner[i]) = s
      BY <1>5 DEF Entries
    <2>2. r \in Live(p) /\ parent_of(p, r) = s /\ inner[i] \in Live(p)
      BY <2>1, EarlierIsListed DEF Live
    <2>3. /\ r \notin Prems(p) /\ inner[i] \notin Prems(p)
          /\ r \notin Justs(p) /\ inner[i] \notin Justs(p)
      BY <1>4, <2>1 DEF Lines, Owners
    <2>4. Ahead(list, r, inner[i])
      BY <2>1, <2>2, <2>3, EarlierIs DEF list
    <2>5. Ahead(inner, r, inner[i])
      BY <1>1, <2>3, <2>4, WithoutAhead DEF inner
    <2>6. PICK k \in DOMAIN inner : inner[k] = r /\ \A j \in 1 .. k : inner[j] # inner[i]
      BY <2>5 DEF Ahead
    <2>7. DOMAIN inner = 1 .. Len(inner) /\ Len(inner) \in Nat
      BY <1>2
    <2>8. k \in 1 .. i - 1
      BY <2>6, <2>7
    <2> QED BY <2>6, <2>8
  <1> QED BY <1>2, <1>5, <1>6, <1>7 DEF inner, list

(* The queue after s was taken from its end.                               *)
NextQueue(q, n, inner) == SubSeq(q, 1, Len(q) - 1) \o [i \in DOMAIN inner |-> <<n + i - 1, inner[i]>>]

(* What the writer does with the queue at a subproof s: s was waiting, the *)
(* subproofs directly in s had no id, and now they wait instead of s.      *)
LEMMA QueueGrows ==
  ASSUME NEW p, WellFormed(p), NEW f, NEW q, NEW n, NEW sub, NEW xs,
         Writes(p, f, q, n, sub, xs), q # <<>>
  PROVE  LET s == q[Len(q)][2]
             inner == Without(p.line_list[s], Justs(p))
             q2 == NextQueue(q, n, inner)
         IN  /\ s \in Owners(p) /\ s \in Waiting(q) /\ s \in Named(n, sub)
             /\ q[Len(q)][1] \in 0 .. n - 1 /\ sub[q[Len(q)][1]] = s
             /\ Entries(inner) \cap Named(n, sub) = {}
             /\ QueueOK(p, q2, n + Len(inner), NextSub(n, sub, inner)) /\ LaterWaits(p, q2)
             /\ Waiting(q2) = (Waiting(q) \ {s}) \cup Entries(inner)
  <1> DEFINE K == Len(q)
             s == q[K][2]
             inner == Without(p.line_list[s], Justs(p))
             m == Len(inner)
             All == Named(n, sub)
             front == SubSeq(q, 1, K - 1)
             back == [i \in DOMAIN inner |-> <<n + i - 1, inner[i]>>]
             q2 == front \o back
             sub2 == NextSub(n, sub, inner)
             T == Nat \X Owners(p)
  <1>1. /\ q \in Seq(T) /\ K \in DOMAIN q /\ DOMAIN q = 1 .. K /\ K \in Nat
        /\ \A k \in DOMAIN q : q[k] \in T
    <2>1. q \in Seq(T)
      BY DEF Writes, QueueOK
    <2> QED BY <2>1
  <1>2. /\ \A k \in 1 .. K : q[k][1] \in 0 .. n - 1 /\ sub[q[k][1]] = q[k][2]
        /\ \A j, k \in 1 .. K : q[j][2] = q[k][2] => j = k
    BY <1>1 DEF Writes, QueueOK
  <1>3. /\ s \in Owners(p) /\ s \in Waiting(q) /\ s \in All
        /\ q[K][1] \in 0 .. n - 1 /\ sub[q[K][1]] = s
    BY <1>1, <1>2 DEF Waiting, Named
  <1>4. /\ inner \in Seq(Owners(p)) /\ NoRepeats(inner)
        /\ Entries(inner) = {r \in Subs(p) : parent_of(p, r) = s}
        /\ \A i \in DOMAIN inner : \A r \in Earlier(p, inner[i]) \cap Subs(p) :
             \E k \in 1 .. i - 1 : inner[k] = r
    BY <1>3, InnerIs
  <1>5. Entries(inner) \cap All = {}
    <2> SUFFICES ASSUME NEW r \in Subs(p), parent_of(p, r) = s, r \in All PROVE FALSE
      BY <1>4
    <2>1. r \in Entries(xs)
      BY Shape DEF Writes
    <2>2. s \in Done(q, n, sub)
      BY <2>1 DEF Writes, Live
    <2> QED BY <1>3, <2>2 DEF Done
  <1>6. n \in Nat /\ n > 0 /\ m \in Nat /\ DOMAIN inner = 1 .. m
    BY <1>4 DEF Writes, Meaning
  <1> HIDE DEF s, inner
  <1>7. /\ front \in Seq(T) /\ Len(front) = K - 1 /\ K - 1 \in Nat
        /\ \A k \in 1 .. K - 1 : front[k] = q[k]
    BY <1>1
  <1>8. back \in Seq(T) /\ Len(back) = m /\ \A i \in 1 .. m : back[i] = <<n + i - 1, inner[i]>>
    <2>1. \A i \in 1 .. m : <<n + i - 1, inner[i]>> \in T
      BY <1>4, <1>6
    <2> HIDE DEF T
    <2> QED BY <1>6, <2>1
  <1> HIDE DEF front, back, m, K, All
  <1>9. /\ q2 \in Seq(T) /\ Len(q2) = K - 1 + m /\ DOMAIN q2 = 1 .. K - 1 + m
        /\ \A k \in 1 .. K - 1 : q2[k] = q[k]
        /\ \A i \in 1 .. m : q2[K - 1 + i] = <<n + i - 1, inner[i]>>
        /\ \A k \in 1 .. K - 1 + m : k \in 1 .. K - 1 \/ \E i \in 1 .. m : k = K - 1 + i
    <2>1. /\ q2 \in Seq(T) /\ Len(q2) = Len(front) + Len(back) /\ DOMAIN q2 = 1 .. Len(front) + Len(back)
          /\ \A k \in 1 .. Len(front) : q2[k] = front[k]
          /\ \A i \in 1 .. Len(back) : q2[Len(front) + i] = back[i]
          /\ \A k \in 1 .. Len(front) + Len(back) :
               k \in 1 .. Len(front) \/ \E i \in 1 .. Len(back) : k = Len(front) + i
      <3> HIDE DEF T
      <3>1. front \in Seq(T) /\ back \in Seq(T)
        BY <1>7, <1>8
      <3>2. /\ front \o back \in Seq(T) /\ Len(front \o back) = Len(front) + Len(back)
            /\ DOMAIN (front \o back) = 1 .. Len(front) + Len(back)
        BY <3>1, Joined
      <3>3. /\ \A k \in 1 .. Len(front) : (front \o back)[k] = front[k]
            /\ \A i \in 1 .. Len(back) : (front \o back)[Len(front) + i] = back[i]
        BY <3>1, Joined
      <3>4. \A k \in 1 .. Len(front) + Len(back) :
              k \in 1 .. Len(front) \/ \E i \in 1 .. Len(back) : k = Len(front) + i
        BY <3>1, Joined
      <3> QED BY <3>2, <3>3, <3>4
    <2> HIDE DEF q2, T
    <2>2. Len(front) = K - 1 /\ Len(back) = m
      BY <1>7, <1>8
    <2>3. /\ \A k \in 1 .. K - 1 : q2[k] = q[k]
          /\ \A i \in 1 .. m : q2[K - 1 + i] = <<n + i - 1, inner[i]>>
      BY <1>7, <1>8, <2>1, <2>2
    <2> QED BY <2>1, <2>2, <2>3
  <1> HIDE DEF q2, T
  <1>10. /\ \A i \in 0 .. n - 1 : sub2[i] = sub[i]
         /\ \A i \in 1 .. m : sub2[n + i - 1] = inner[i]
         /\ \A i \in 0 .. n - 1 : i \in 0 .. (n + m) - 1
         /\ \A i \in 1 .. m : n + i - 1 \in 0 .. (n + m) - 1
    <2>1. Meaning(p, n, sub)
      BY DEF Writes
    <2>2. /\ \A i \in 0 .. n - 1 : sub2[i] = sub[i]
          /\ \A i \in 1 .. Len(inner) : sub2[n + i - 1] = inner[i]
      BY <1>4, <1>5, <2>1, MeaningGrows DEF All
    <2>3. /\ \A i \in 0 .. n - 1 : i \in 0 .. (n + m) - 1
          /\ \A i \in 1 .. m : n + i - 1 \in 0 .. (n + m) - 1
      BY <1>6
    <2> QED BY <2>2, <2>3 DEF m
  <1> HIDE DEF sub2
  <1>11. /\ \A k \in 1 .. K - 1 : q2[k][2] = q[k][2] /\ q2[k][1] = q[k][1] /\ k \in 1 .. K /\ k # K
         /\ \A i \in 1 .. m : q2[K - 1 + i][2] = inner[i] /\ q2[K - 1 + i][1] = n + i - 1
         /\ \A i \in 1 .. m : inner[i] \in Entries(inner)
         /\ \A k \in 1 .. K : q[k][2] \in All
    <2>1. \A k \in 1 .. K - 1 : k \in 1 .. K /\ k # K
      BY <1>1
    <2>2. \A i \in 1 .. m : inner[i] \in Entries(inner)
      BY <1>6 DEF Entries
    <2>3. \A k \in 1 .. K : q[k][2] \in All
      BY <1>2 DEF All, Named
    <2>4. \A k \in 1 .. K - 1 : q2[k][2] = q[k][2] /\ q2[k][1] = q[k][1]
      BY <1>9
    <2>5. \A i \in 1 .. m : q2[K - 1 + i][2] = inner[i] /\ q2[K - 1 + i][1] = n + i - 1
      BY <1>9
    <2> QED BY <2>1, <2>2, <2>3, <2>4, <2>5
  <1>12. \A k \in DOMAIN q2 : q2[k][1] \in 0 .. (n + m) - 1 /\ sub2[q2[k][1]] = q2[k][2]
    <2>1. ASSUME NEW k \in 1 .. K - 1
          PROVE  q2[k][1] \in 0 .. (n + m) - 1 /\ sub2[q2[k][1]] = q2[k][2]
      BY <1>2, <1>10, <1>11
    <2>2. ASSUME NEW i \in 1 .. m
          PROVE  q2[K - 1 + i][1] \in 0 .. (n + m) - 1 /\ sub2[q2[K - 1 + i][1]] = q2[K - 1 + i][2]
      BY <1>10, <1>11
    <2> QED BY <1>9, <2>1, <2>2
  <1>13. ASSUME NEW j \in DOMAIN q2, NEW k \in DOMAIN q2, q2[j][2] = q2[k][2] PROVE j = k
    <2>1. CASE j \in 1 .. K - 1 /\ k \in 1 .. K - 1
      BY <1>2, <1>11, <1>13, <2>1
    <2>2. ASSUME NEW i \in 1 .. m, j = K - 1 + i, k \in 1 .. K - 1 PROVE FALSE
      BY <1>5, <1>11, <1>13, <2>2
    <2>3. ASSUME NEW i \in 1 .. m, k = K - 1 + i, j \in 1 .. K - 1 PROVE FALSE
      BY <1>5, <1>11, <1>13, <2>3
    <2>4. ASSUME NEW i \in 1 .. m, NEW l \in 1 .. m, j = K - 1 + i, k = K - 1 + l PROVE j = k
      <3>1. inner[i] = inner[l]
        BY <1>11, <1>13, <2>4
      <3>2. i \in DOMAIN inner /\ l \in DOMAIN inner
        BY <1>6
      <3>3. i = l
        BY <1>4, <3>1, <3>2 DEF NoRepeats
      <3> QED BY <2>4, <3>3
    <2> QED BY <1>9, <2>1, <2>2, <2>3, <2>4
  <1>14. QueueOK(p, q2, n + m, sub2)
    BY <1>9, <1>12, <1>13 DEF QueueOK, T
  <1>15. LaterWaits(p, q2)
    <2> SUFFICES ASSUME NEW k \in DOMAIN q2, q2[k][2] # Root,
                        NEW u \in {q2[k][2]} \cup transitive_parents(p, q2[k][2]),
                        NEW r \in Earlier(p, u) \cap Subs(p)
                 PROVE  \E l \in 1 .. k - 1 : q2[l][2] = r
      BY DEF LaterWaits
    <2>1. CASE k \in 1 .. K - 1
      <3>1. PICK l \in 1 .. k - 1 : q[l][2] = r
        <4>1. k \in DOMAIN q /\ q2[k][2] = q[k][2]
          BY <1>1, <1>11, <2>1
        <4>2. LaterWaits(p, q)
          BY DEF Writes
        <4> QED BY <4>1, <4>2 DEF LaterWaits
      <3>2. l \in 1 .. K - 1
        BY <1>1, <2>1
      <3> QED BY <1>11, <3>1, <3>2
    <2>2. ASSUME NEW i \in 1 .. m, k = K - 1 + i PROVE \E l \in 1 .. k - 1 : q2[l][2] = r
      <3>1. q2[k][2] = inner[i] /\ parent_of(p, inner[i]) = s
        BY <1>4, <1>11, <2>2
      <3>2. CASE u = inner[i]
        <4>1. PICK l \in 1 .. i - 1 : inner[l] = r
          BY <1>4, <1>6, <3>2
        <4>2. l \in 1 .. m /\ K - 1 + l \in 1 .. k - 1
          BY <1>6, <1>7, <2>2
        <4> QED BY <1>11, <4>1, <4>2
      <3>3. CASE u # inner[i]
        <4>1. s # Root /\ u \in {s} \cup transitive_parents(p, s)
          BY <3>1, <3>3, AroundIs
        <4>2. PICK l \in 1 .. K - 1 : q[l][2] = r
          BY <1>1, <4>1 DEF Writes, LaterWaits, s
        <4>3. l \in 1 .. k - 1
          BY <1>7, <2>2
        <4> QED BY <1>11, <4>2, <4>3
      <3> QED BY <3>2, <3>3
    <2> QED BY <1>9, <2>1, <2>2
  <1>16. Waiting(q2) = (Waiting(q) \ {s}) \cup Entries(inner)
    <2>1. ASSUME NEW k \in 1 .. K - 1 PROVE q2[k][2] \in Waiting(q) \ {s}
      <3>1. q2[k][2] = q[k][2] /\ k \in DOMAIN q /\ q[k][2] # s
        BY <1>1, <1>2, <1>11 DEF s
      <3> QED BY <3>1 DEF Waiting
    <2>2. Waiting(q2) \subseteq (Waiting(q) \ {s}) \cup Entries(inner)
      <3> SUFFICES ASSUME NEW k \in DOMAIN q2
                   PROVE  q2[k][2] \in (Waiting(q) \ {s}) \cup Entries(inner)
        BY DEF Waiting
      <3> QED BY <1>9, <1>11, <2>1
    <2>3. ASSUME NEW k \in DOMAIN q, q[k][2] # s PROVE q[k][2] \in Waiting(q2)
      <3>1. k \in 1 .. K - 1 /\ k \in DOMAIN q2
        BY <1>1, <1>6, <1>9, <2>3 DEF s
      <3> QED BY <1>11, <3>1 DEF Waiting
    <2>4. ASSUME NEW i \in 1 .. m PROVE inner[i] \in Waiting(q2)
      <3>1. K - 1 + i \in DOMAIN q2
        BY <1>6, <1>7, <1>9
      <3> QED BY <1>11, <3>1 DEF Waiting
    <2>5. Waiting(q) \ {s} \subseteq Waiting(q2)
      BY <2>3 DEF Waiting
    <2>6. Entries(inner) \subseteq Waiting(q2)
      BY <1>6, <2>4 DEF Entries
    <2> QED BY <2>2, <2>5, <2>6
  <1> QED BY <1>3, <1>5, <1>14, <1>15, <1>16 DEF s, K, All, inner, m, q2, front, back, sub2, NextQueue

(* The element of subproof s tells of what is directly in s, in order.     *)
LEMMA ElementsTell ==
  ASSUME WellFormed(proof), NEW s \in Owners(proof), NEW id, NEW sub, id \in DOMAIN sub, sub[id] = s,
         sproofid \in Nat,
         LET inner == Without(proof.line_list[s], Justs(proof))
         IN  \A i \in 1 .. Len(inner) :
               sproofid + i - 1 \in DOMAIN sub /\ sub[sproofid + i - 1] = inner[i]
  PROVE  Told(proof, sub, ProofElement(id, s), Listed(proof, s))
  <1> DEFINE P == proof.premise_list[s]
             Q == proof.line_list[s]
             a(i) == Assumption(id, P[i])
             b(i) == IF Q[i] \in Subs(proof) THEN SubproofElement(id, Q[i], IdAt(Q, i))
                                             ELSE StepElement(id, Q[i])
             A == [i \in DOMAIN P |-> a(i)]
             B == [i \in DOMAIN Q |-> b(i)]
             T == {a(i) : i \in DOMAIN P} \cup {b(i) : i \in DOMAIN Q}
             L == Listed(proof, s)
             E == A \o B
  <1>1. /\ L \in Seq(Live(proof))
        /\ P \in Seq(Live(proof)) /\ Q \in Seq(Live(proof))
        /\ Len(L) = Len(P) + Len(Q)
        /\ \A i \in 1 .. Len(L) : L[i] = IF i <= Len(P) THEN P[i] ELSE Q[i - Len(P)]
    <2>1. /\ Listed(proof, s) \in Seq(Live(proof))
          /\ proof.premise_list[s] \in Seq(Live(proof)) /\ proof.line_list[s] \in Seq(Live(proof))
          /\ Len(Listed(proof, s)) = Len(proof.premise_list[s]) + Len(proof.line_list[s])
      BY ListedIs
    <2>2. \A i \in 1 .. Len(Listed(proof, s)) :
            Listed(proof, s)[i] = IF i <= Len(proof.premise_list[s]) THEN proof.premise_list[s][i]
                                  ELSE proof.line_list[s][i - Len(proof.premise_list[s])]
      BY ListedIs
    <2> QED BY <2>1, <2>2
  <1>2. /\ DOMAIN P = 1 .. Len(P) /\ DOMAIN Q = 1 .. Len(Q) /\ DOMAIN L = 1 .. Len(L)
        /\ Len(P) \in Nat /\ Len(Q) \in Nat
    BY <1>1
  <1>3. /\ \A i \in DOMAIN P : P[i] \in Prems(proof) /\ parent_of(proof, P[i]) = s
        /\ \A i \in DOMAIN Q : Q[i] \in Justs(proof) \cup Subs(proof) /\ parent_of(proof, Q[i]) = s
    <2>1. /\ Entries(P) = {x \in Prems(proof) : parent_of(proof, x) = s}
          /\ Entries(Q) = {x \in Justs(proof) \cup Subs(proof) : parent_of(proof, x) = s}
      BY DEF WellFormed, ListedOnce, Owners
    <2> HIDE DEF P, Q
    <2>2. \A i \in DOMAIN P : P[i] \in Entries(P)
      BY DEF Entries
    <2>3. \A i \in DOMAIN Q : Q[i] \in Entries(Q)
      BY DEF Entries
    <2> QED BY <2>1, <2>2, <2>3
  <1>4. ASSUME NEW i \in DOMAIN P PROVE Tells(proof, sub, a(i), P[i])
    BY <1>3 DEF Tells, Assumption, deps_map
  <1>5. ASSUME NEW i \in DOMAIN Q PROVE Tells(proof, sub, b(i), Q[i])
    <2>1. CASE Q[i] \in Subs(proof)
      <3> DEFINE C == {k \in 1 .. i - 1 : Q[k] \in Subs(proof)}
                 inner == Without(Q, Justs(proof))
      <3>1. Q[i] \notin Justs(proof)
        BY <2>1, Shape DEF Lines, Owners
      <3>2. C = {k \in 1 .. i - 1 : Q[k] \notin Justs(proof)}
        <4>1. \A k \in 1 .. i - 1 : k \in DOMAIN Q
          BY <1>2
        <4>2. Subs(proof) \cap Justs(proof) = {}
          BY Shape DEF Lines, Owners
        <4> QED BY <1>3, <4>1, <4>2
      <3> HIDE DEF C
      <3>3. /\ Cardinality(C) + 1 \in 1 .. Len(inner) /\ inner[Cardinality(C) + 1] = Q[i]
            /\ Cardinality(C) \in Nat
        <4> DEFINE c == KeptBefore(Q, Justs(proof), i)
        <4> HIDE DEF Q
        <4>1. c + 1 \in 1 .. Len(inner) /\ inner[c + 1] = Q[i] /\ c \in Nat
          BY <1>1, <3>1, WithoutAt
        <4>2. c = Cardinality(C)
          BY <3>2 DEF KeptBefore
        <4> HIDE DEF c, inner
        <4> QED BY <4>1, <4>2
      <3>4. IdAt(Q, i) = sproofid + Cardinality(C)
        BY DEF IdAt, C
      <3>5. sproofid + (Cardinality(C) + 1) - 1 = sproofid + Cardinality(C)
        BY <3>3
      <3>6. IdAt(Q, i) \in DOMAIN sub /\ sub[IdAt(Q, i)] = Q[i]
        BY <3>3, <3>4, <3>5
      <3>7. b(i) = SubproofElement(id, Q[i], IdAt(Q, i))
        BY <2>1
      <3> QED BY <1>3, <2>1, <3>6, <3>7 DEF Tells, SubproofElement, deps_map
    <2>2. CASE Q[i] \notin Subs(proof)
      <3>1. Q[i] \in Justs(proof) /\ b(i) = StepElement(id, Q[i]) /\ parent_of(proof, Q[i]) = s
        BY <1>3, <2>2
      <3> DEFINE el == StepElement(id, Q[i])
                 just == proof.just_map[Q[i]]
      <3>2. /\ el.in = id /\ el.is = "step" /\ el.num = LinesBefore(proof, Q[i])
            /\ el.raw = just.expr.says /\ el.rule = to_serialized_name(just.expr.rule)
            /\ el.premises = Numbers(just.deps) \cup Numbers(just.sdeps)
        BY DEF StepElement, deps_map
      <3>3. Numbers(just.deps) \cup Numbers(just.sdeps)
              = {LinesBefore(proof, d) : d \in just.deps \cup just.sdeps}
        BY DEF Numbers, deps_map
      <3> QED BY <3>1, <3>2, <3>3 DEF Tells
    <2> QED BY <2>1, <2>2
  <1>6. A \in Seq(T) /\ B \in Seq(T) /\ Len(A) = Len(P) /\ Len(B) = Len(Q)
    <2>1. /\ \A i \in DOMAIN P : a(i) \in T
          /\ \A i \in DOMAIN Q : b(i) \in T
      OBVIOUS
    <2> HIDE DEF a, b, T
    <2> QED BY <1>2, <2>1
  <1>7. /\ \A i \in DOMAIN P : A[i] = a(i)
        /\ \A i \in DOMAIN Q : B[i] = b(i)
    OBVIOUS
  <1> HIDE DEF a, b, A, B, T, P, Q, L
  <1>8. /\ E \in Seq(T) /\ Len(E) = Len(A) + Len(B) /\ DOMAIN E = 1 .. Len(A) + Len(B)
        /\ \A i \in 1 .. Len(A) : E[i] = A[i]
        /\ \A i \in 1 .. Len(B) : E[Len(A) + i] = B[i]
        /\ \A i \in 1 .. Len(A) + Len(B) :
             i \in 1 .. Len(A) \/ \E k \in 1 .. Len(B) : i = Len(A) + k
    <2>1. A \in Seq(T) /\ B \in Seq(T)
      BY <1>6
    <2> QED BY <2>1, Joined
  <1> HIDE DEF E
  <1>9. E \in Seq(Entries(E))
    BY <1>8, SeqOverEntries
  <1>10. ASSUME NEW i \in DOMAIN L PROVE Tells(proof, sub, E[i], L[i])
    <2>1. CASE i \in 1 .. Len(P)
      <3>1. E[i] = a(i) /\ L[i] = P[i] /\ i \in DOMAIN P
        BY <1>1, <1>2, <1>6, <1>7, <1>8, <2>1
      <3> QED BY <1>4, <3>1
    <2>2. ASSUME NEW k \in 1 .. Len(Q), i = Len(P) + k PROVE Tells(proof, sub, E[i], L[i])
      <3>1. E[i] = B[k]
        BY <1>6, <1>8, <2>2
      <3>2. k \in DOMAIN Q /\ ~(i <= Len(P)) /\ i - Len(P) = k
        BY <1>2, <2>2
      <3>3. E[i] = b(k) /\ L[i] = Q[k]
        BY <1>1, <1>2, <1>7, <3>1, <3>2
      <3> QED BY <1>5, <3>2, <3>3
    <2> QED BY <1>1, <1>2, <1>6, <1>8, <2>1, <2>2
  <1>11. E = ProofElement(id, s)
    BY DEF ProofElement, E, A, B, a, b, P, Q
  <1>12. Len(E) = Len(L)
    BY <1>1, <1>6, <1>8
  <1> QED BY <1>9, <1>10, <1>11, <1>12 DEF Told, L

(* An element tells what it told when more ids have a meaning.             *)
LEMMA TellsStill ==
  ASSUME NEW p, NEW sub, NEW sub2, \A i \in DOMAIN sub : i \in DOMAIN sub2 /\ sub2[i] = sub[i],
         NEW el, NEW x, Tells(p, sub, el, x)
  PROVE  Tells(p, sub2, el, x)
  BY DEF Tells

(* A file that grows tells of more, and keeps what it told.                *)
LEMMA ToldGrows ==
  ASSUME NEW p, NEW sub, NEW T, NEW f, NEW xs \in Seq(T), Told(p, sub, f, xs),
         NEW g, NEW ys \in Seq(T), Told(p, sub, g, ys)
  PROVE  Told(p, sub, f \o g, xs \o ys)
  <1> DEFINE U == Entries(f) \cup Entries(g)
             fg == f \o g
             zs == xs \o ys
  <1>1. f \in Seq(U) /\ g \in Seq(U) /\ Len(f) = Len(xs) /\ Len(g) = Len(ys)
    <2>1. f \in Seq(Entries(f)) /\ g \in Seq(Entries(g)) /\ Len(f) = Len(xs) /\ Len(g) = Len(ys)
      BY DEF Told
    <2> QED BY <2>1, SeqOverEntries
  <1> HIDE DEF U
  <1>2. /\ fg \in Seq(U) /\ Len(fg) = Len(f) + Len(g)
        /\ \A i \in 1 .. Len(f) : fg[i] = f[i]
        /\ \A i \in 1 .. Len(g) : fg[Len(f) + i] = g[i]
    <2>1. f \in Seq(U) /\ g \in Seq(U)
      BY <1>1
    <2> QED BY <2>1, Joined
  <1>3. /\ zs \in Seq(T) /\ Len(zs) = Len(xs) + Len(ys) /\ DOMAIN zs = 1 .. Len(xs) + Len(ys)
        /\ DOMAIN xs = 1 .. Len(xs) /\ DOMAIN ys = 1 .. Len(ys)
        /\ \A i \in 1 .. Len(xs) : zs[i] = xs[i]
        /\ \A i \in 1 .. Len(ys) : zs[Len(xs) + i] = ys[i]
        /\ \A i \in 1 .. Len(xs) + Len(ys) :
             i \in 1 .. Len(xs) \/ \E k \in 1 .. Len(ys) : i = Len(xs) + k
    BY Joined
  <1> HIDE DEF fg, zs
  <1>4. fg \in Seq(Entries(fg)) /\ Len(fg) = Len(zs)
    BY <1>1, <1>2, <1>3, SeqOverEntries
  <1>5. ASSUME NEW i \in 1 .. Len(xs) PROVE Tells(p, sub, fg[i], zs[i])
    BY <1>1, <1>2, <1>3 DEF Told
  <1>6. ASSUME NEW i \in 1 .. Len(ys) PROVE Tells(p, sub, fg[Len(xs) + i], zs[Len(xs) + i])
    <2>1. fg[Len(xs) + i] = g[i] /\ zs[Len(xs) + i] = ys[i] /\ i \in DOMAIN ys
      BY <1>1, <1>2, <1>3
    <2> QED BY <2>1 DEF Told
  <1>7. \A i \in DOMAIN zs : Tells(p, sub, fg[i], zs[i])
    BY <1>3, <1>5, <1>6
  <1> QED BY <1>4, <1>7 DEF Told, fg, zs

(* One step of writing.                                                    *)
LEMMA WriteStep ==
  ASSUME WellFormed(proof), InScope(proof), NEW sub, NEW xs,
         Writes(proof, file, queue, sproofid, sub, xs), WriteProof
  PROVE  \E sub2, xs2 : Writes(proof, file', queue', sproofid', sub2, xs2)
  <1> DEFINE p == proof
             n == sproofid
             id == queue[Len(queue)][1]
             s == queue[Len(queue)][2]
             inner == Without(p.line_list[s], Justs(p))
             L == Listed(p, s)
             els == ProofElement(id, s)
             sub2 == NextSub(n, sub, inner)
             xs2 == xs \o L
             q2 == NextQueue(queue, n, inner)
             All == Named(n, sub)
             All2 == Named(n + Len(inner), sub2)
  <1>1. queue # <<>>
    BY DEF WriteProof
  <1>2. /\ s \in Owners(p) /\ s \in Waiting(queue) /\ s \in All
        /\ id \in 0 .. n - 1 /\ sub[id] = s
        /\ Entries(inner) \cap All = {}
        /\ QueueOK(p, q2, n + Len(inner), sub2) /\ LaterWaits(p, q2)
        /\ Waiting(q2) = (Waiting(queue) \ {s}) \cup Entries(inner)
    BY <1>1, QueueGrows
  <1>3. /\ inner \in Seq(Owners(p)) /\ NoRepeats(inner)
        /\ Entries(inner) = {r \in Subs(p) : parent_of(p, r) = s}
    BY <1>2, InnerIs
  <1>4. file' = file \o els /\ queue' = q2 /\ sproofid' = n + Len(inner)
    <2>1. file' = file \o els
      BY DEF WriteProof
    <2>2. Queued(s) = [i \in DOMAIN inner |-> <<n + i - 1, inner[i]>>]
      BY DEF Queued
    <2>3. queue' = SubSeq(queue, 1, Len(queue) - 1) \o Queued(s) /\ sproofid' = n + Len(Queued(s))
      BY DEF WriteProof
    <2>4. Len(Queued(s)) = Len(inner)
      <3> HIDE DEF inner
      <3>1. DOMAIN inner = 1 .. Len(inner) /\ Len(inner) \in Nat
        BY <1>3
      <3>2. Queued(s) \in Seq({<<n + i - 1, inner[i]>> : i \in DOMAIN inner})
        BY <2>2, <3>1
      <3> QED BY <2>2, <3>1, <3>2
    <2> QED BY <2>1, <2>2, <2>3, <2>4 DEF NextQueue
  <1>5. /\ Meaning(p, n, sub) /\ Told(p, sub, file, xs) /\ Ordered(p, {}, xs)
        /\ Entries(xs) \cap Subs(p) = All \ {Root}
        /\ \A x \in Live(p) : x \in Entries(xs) <=> parent_of(p, x) \in Done(queue, n, sub)
    BY DEF Writes
  <1>6. /\ Meaning(p, n + Len(inner), sub2)
        /\ \A i \in 0 .. n - 1 : i \in DOMAIN sub2 /\ sub2[i] = sub[i]
        /\ \A i \in 1 .. Len(inner) : n + i - 1 \in DOMAIN sub2 /\ sub2[n + i - 1] = inner[i]
        /\ All2 = All \cup Entries(inner)
    <2>1. /\ inner \in Seq(Owners(p)) /\ NoRepeats(inner) /\ Meaning(p, n, sub)
          /\ Entries(inner) \cap Named(n, sub) = {}
      BY <1>2, <1>3, <1>5
    <2> HIDE DEF inner
    <2> QED BY <2>1, MeaningGrows
  <1>7. /\ L \in Seq(Live(p)) /\ NoRepeats(L)
        /\ Entries(L) = {x \in Live(p) : parent_of(p, x) = s}
        /\ \A i \in DOMAIN L : Earlier(p, L[i]) = Behind({}, L, i)
    <2>1. s \in Owners(p)
      BY <1>2
    <2> HIDE DEF s
    <2>2. L \in Seq(Live(p)) /\ NoRepeats(L)
      BY <2>1, ListedIs
    <2>3. Entries(L) = {x \in Live(p) : parent_of(p, x) = s}
      BY <2>1, ListedIs
    <2>4. \A i \in DOMAIN L : Earlier(p, L[i]) = Behind({}, L, i)
      BY <2>1, ListedIs
    <2> QED BY <2>2, <2>3, <2>4
  <1>8. n \in Nat /\ DOMAIN sub = 0 .. n - 1 /\ xs \in Seq(Live(p))
    BY <1>5 DEF Meaning, Ordered
  <1>9. Told(p, sub2, els, L)
    <2>1. id \in DOMAIN sub2 /\ sub2[id] = s
      BY <1>2, <1>6
    <2> HIDE DEF sub2, id, s
    <2> QED BY <1>2, <1>6, <1>8, <2>1, ElementsTell
  <1> HIDE DEF s, id, inner, sub2, L, els, q2, All, All2
  <1>10. Told(p, sub2, file, xs)
    <2>1. ASSUME NEW i \in DOMAIN xs PROVE Tells(p, sub2, file[i], xs[i])
      <3>1. Tells(p, sub, file[i], xs[i])
        BY <1>5 DEF Told
      <3> QED BY <1>6, <1>8, <3>1, TellsStill
    <2> QED BY <1>5, <2>1 DEF Told
  <1>11. Told(p, sub2, file \o els, xs2)
    BY <1>7, <1>8, <1>9, <1>10, ToldGrows
  <1>12. s \notin Done(queue, n, sub)
    BY <1>2 DEF Done
  <1>13. Entries(L) \cap Entries(xs) = {}
    BY <1>5, <1>7, <1>12
  <1>14. ASSUME NEW i \in DOMAIN L
         PROVE  /\ Needs(p, L[i]) \subseteq Entries(xs) \cup Behind({}, L, i)
                /\ Spoils(p, L[i]) \cap (Entries(xs) \cup Entries(L)) = {}
    <2>1. L[i] \in Entries(L)
      BY DEF Entries
    <2>2. L[i] \in Live(p) /\ parent_of(p, L[i]) = queue[Len(queue)][2]
      BY <1>7, <2>1 DEF s
    <2>3. /\ Needs(p, L[i]) \subseteq Entries(xs) \cup Earlier(p, L[i])
          /\ \A a \in Spoils(p, L[i]) : a \notin Entries(xs) /\ parent_of(p, a) # s
      BY <1>1, <2>2, NeedsMet DEF s
    <2> QED BY <1>7, <2>3
  <1>15. Ordered(p, {}, xs2)
    BY <1>5, <1>7, <1>13, <1>14, OrderGrows
  <1>16. Entries(xs2) = Entries(xs) \cup Entries(L)
    BY <1>7, <1>8, Joined
  <1> HIDE DEF xs2
  <1>17. Entries(xs2) \cap Subs(p) = All2 \ {Root}
    <2>1. Root \notin Subs(p) /\ Subs(p) \subseteq Live(p)
      BY Shape DEF Live
    <2> QED BY <1>3, <1>5, <1>6, <1>7, <1>16, <2>1
  <1>18. Done(q2, n + Len(inner), sub2) = Done(queue, n, sub) \cup {s}
    <2>1. Done(q2, n + Len(inner), sub2) = All2 \ Waiting(q2) /\ Done(queue, n, sub) = All \ Waiting(queue)
      BY DEF Done, All, All2
    <2> QED BY <1>2, <1>6, <2>1
  <1>19. \A x \in Live(p) : x \in Entries(xs2) <=> parent_of(p, x) \in Done(q2, n + Len(inner), sub2)
    BY <1>5, <1>7, <1>16, <1>18
  <1>20. Writes(p, file \o els, q2, n + Len(inner), sub2, xs2)
    BY <1>2, <1>6, <1>11, <1>15, <1>17, <1>19 DEF Writes, All2
  <1> QED BY <1>4, <1>20

(* When nothing waits, everything is written.                              *)
LEMMA AllWritten ==
  ASSUME NEW p, WellFormed(p), NEW f, NEW n, NEW sub, NEW xs, Writes(p, f, <<>>, n, sub, xs)
  PROVE  Entries(xs) = Live(p) /\ Owners(p) = Named(n, sub)
  <1> DEFINE All == Named(n, sub)
             S == Subs(p) \ All
  <1>1. /\ Root \in All /\ All \subseteq Owners(p) /\ xs \in Seq(Live(p))
    BY DEF Writes, Meaning, Ordered, Named
  <1>2. Done(<<>>, n, sub) = All
    BY DEF Done, Waiting
  <1>3. \A x \in Live(p) : x \in Entries(xs) <=> parent_of(p, x) \in All
    BY <1>2 DEF Writes
  <1>4. Entries(xs) \cap Subs(p) = All \ {Root}
    BY DEF Writes
  <1> HIDE DEF All
  <1>5. S = {}
    <2> SUFFICES ASSUME S # {} PROVE FALSE
      OBVIOUS
    <2>1. PICK s \in S : parent_of(p, s) \notin S
      BY DEF WellFormed, NestingEnds
    <2>2. parent_of(p, s) \in All
      BY <1>1, <2>1, Shape DEF Owners
    <2>3. s \in Entries(xs)
      BY <1>3, <2>1, <2>2 DEF Live
    <2> QED BY <1>4, <2>1, <2>3
  <1>6. All = Owners(p)
    BY <1>1, <1>5 DEF Owners
  <1>7. Entries(xs) \subseteq Live(p)
    BY <1>1 DEF Entries
  <1>8. \A x \in Live(p) : parent_of(p, x) \in Owners(p)
    BY Shape
  <1> QED BY <1>3, <1>6, <1>7, <1>8 DEF All

(* At the start only the top level waits.                                  *)
LEMMA WriteStart ==
  ASSUME NEW p, WellFormed(p)
  PROVE  Writes(p, <<>>, <<<<0, Root>>>>, 1, [i \in 0 .. 0 |-> Root], <<>>)
  <1> DEFINE sub == [i \in 0 .. 0 |-> Root]
             q == <<<<0, Root>>>>
  <1>1. \A i \in 0 .. 1 - 1 : i = 0
    OBVIOUS
  <1>2. DOMAIN sub = 0 .. 1 - 1 /\ sub[0] = Root
    OBVIOUS
  <1>3. Meaning(p, 1, sub)
    <2>1. sub = [i \in 0 .. 1 - 1 |-> sub[i]] /\ \A i \in 0 .. 1 - 1 : sub[i] \in Owners(p)
      BY DEF Owners
    <2> HIDE DEF sub
    <2> QED BY <1>1, <1>2, <2>1 DEF Meaning
  <1>4. Entries(<<>>) = {}
    BY DEF Entries
  <1>5. Told(p, sub, <<>>, <<>>) /\ Ordered(p, {}, <<>>)
    BY <1>4 DEF Told, Ordered, NoRepeats
  <1>6. DOMAIN q = {1} /\ q[1][2] = Root /\ q[1][1] = 0
    OBVIOUS
  <1>7. q \in Seq(Nat \X Owners(p))
    BY DEF Owners
  <1> HIDE DEF q, sub
  <1>8. QueueOK(p, q, 1, sub)
    BY <1>2, <1>6, <1>7 DEF QueueOK
  <1>9. LaterWaits(p, q)
    BY <1>6 DEF LaterWaits
  <1>10. Named(1, sub) = {Root}
    BY <1>1, <1>2 DEF Named
  <1>11. Done(q, 1, sub) = {}
    BY <1>6, <1>10 DEF Done, Waiting
  <1> QED BY <1>3, <1>4, <1>5, <1>8, <1>9, <1>10, <1>11 DEF Writes, q, sub

-----------------------------------------------------------------------------
(* Keys.  The reader hands out keys in order and never runs out of them:   *)
(* it adds no more than there is in the proof that was saved.              *)

(* The first n keys.                                                       *)
Keys(kind, n) == {kind} \X (0 .. n - 1)

(* The keys of a proof are below the bounds.                               *)
Fits(p) ==
  /\ Prems(p) \subseteq Keys("prem", MaxPrems)
  /\ Justs(p) \subseteq Keys("just", MaxSteps)
  /\ Subs(p) \subseteq Keys("sub", MaxSubs)

(* A key that is handed out is below its bound.                            *)
LEMMA KeyBelowBound ==
  ASSUME NEW D, NEW bound, HasNextKey(D, bound)
  PROVE  NextKey(D, bound) \in 0 .. bound - 1 /\ IsNextKey(D, NextKey(D, bound))
  BY DEF HasNextKey, NextKey

(* An addition to a proof whose keys are below the bounds.                 *)
LEMMA AdditionFits ==
  ASSUME NEW p, Fits(p), NEW q
  PROVE  /\ \A s : PremiseAdded(p, q, s) /\ HasNextKey(Prems(p), MaxPrems) => Fits(q)
         /\ StepAdded(p, q) /\ HasNextKey(Justs(p), MaxSteps) => Fits(q)
         /\ SubproofAdded(p, q) /\ HasNextKey(Subs(p), MaxSubs) => Fits(q)
  <1>1. ASSUME NEW s, PremiseAdded(p, q, s), HasNextKey(Prems(p), MaxPrems) PROVE Fits(q)
    <2>1. next_premkey(p) \in Keys("prem", MaxPrems)
      BY <1>1, KeyBelowBound DEF next_premkey, Keys
    <2> QED BY <1>1, <2>1 DEF PremiseAdded, Fits
  <1>2. ASSUME StepAdded(p, q), HasNextKey(Justs(p), MaxSteps) PROVE Fits(q)
    <2>1. next_justkey(p) \in Keys("just", MaxSteps)
      BY <1>2, KeyBelowBound DEF next_justkey, Keys
    <2> QED BY <1>2, <2>1 DEF StepAdded, Fits
  <1>3. ASSUME SubproofAdded(p, q), HasNextKey(Subs(p), MaxSubs) PROVE Fits(q)
    <2>1. next_subkey(p) \in Keys("sub", MaxSubs)
      BY <1>3, KeyBelowBound DEF next_subkey, Keys
    <2> QED BY <1>3, <2>1 DEF SubproofAdded, Fits
  <1> QED BY <1>1, <1>2, <1>3

(* What the removals leave fits.                                           *)
LEMMA RemovalFits ==
  ASSUME NEW p, WellFormed(p), Fits(p)
  PROVE  /\ \A r \in Lines(p) : Fits(remove_line(p, parent_of(p, r), r))
         /\ \A s \in Subs(p) : Fits(remove_subproof(p, s))
  <1>1. ASSUME NEW r \in Lines(p) PROVE Fits(remove_line(p, parent_of(p, r), r))
    <2>1. Subs(remove_line(p, parent_of(p, r), r)) = Subs(p)
      BY RemoveLineEffect
    <2>2. /\ Prems(remove_line(p, parent_of(p, r), r)) \subseteq Prems(p)
          /\ Justs(remove_line(p, parent_of(p, r), r)) \subseteq Justs(p)
      BY RemovalEffect DEF remove_line
    <2> QED BY <2>1, <2>2 DEF Fits
  <1>2. ASSUME NEW s \in Subs(p) PROVE Fits(remove_subproof(p, s))
    <2>1. Subs(remove_subproof(p, s)) \subseteq Subs(p)
      BY RemoveSubproofEffect
    <2>2. /\ Prems(remove_subproof(p, s)) \subseteq Prems(p)
          /\ Justs(remove_subproof(p, s)) \subseteq Justs(p)
      BY RemovalEffect DEF remove_subproof
    <2> QED BY <2>1, <2>2 DEF Fits
  <1> QED BY <1>1, <1>2

(* The proof under edit fits.                                              *)
LEMMA WidgetFits ==
  /\ WidgetInit => Fits(proof)
  /\ WidgetInv /\ Fits(proof) /\ [WidgetNext]_vars => Fits(proof')
  <1>1. ASSUME WidgetInit PROVE Fits(proof)
    <2>1. WellFormed(new) /\ Prems(new) = {} /\ Justs(new) = {} /\ Subs(new) = {}
      BY NewWF
    <2>2. 0 \in 0 .. MaxPrems - 1 /\ IsNextKey(Prems(new), 0)
      BY <2>1, MaxLinesAssumption, RoomAssumption DEF IsNextKey
    <2>3. HasNextKey(Prems(new), MaxPrems)
      BY <2>2 DEF HasNextKey
    <2>4. Fits(new)
      BY <2>1 DEF Fits
    <2>5. PremiseAdded(new, proof, Root)
      BY <1>1, <2>1, <2>3, AddPremiseEffect, Premise DEF WidgetInit, Owners
    <2> QED BY <2>3, <2>4, <2>5, AdditionFits
  <1>2. ASSUME WidgetInv, Fits(proof), WidgetNext PROVE Fits(proof')
    <2> USE DEF RoomForPremise, RoomForStep, RoomForSubproof
    <2>i. WellFormed(proof)
      BY <1>2 DEF WidgetInv
    <2>1. ASSUME NEW r \in Lines(proof), NEW input \in Inputs, LineChanged(r, input)
          PROVE  Fits(proof')
      <3>1. \A e : r \in Prems(proof) => Fits(with_mut_premise(proof, r, e))
        BY <1>2, <2>i, SetPremiseEffect DEF Fits
      <3>2. \A just : r \in Justs(proof) => Fits(with_mut_step(proof, r, just))
        BY <1>2, <2>i, SetStepEffect DEF Fits, StepRewritten
      <3>3. r \in Prems(proof) \/ r \in Justs(proof)
        BY DEF Lines
      <3> QED BY <1>2, <2>1, <3>1, <3>2, <3>3 DEF LineChanged
    <2>2. ASSUME NEW r \in Lines(proof), NEW after \in BOOLEAN, InsertPremise(r, after)
          PROVE  Fits(proof')
      <3>1. HasNextKey(Prems(proof), MaxPrems) /\ premise(EmptyExpr) \in Exprs /\ Root \in Owners(proof)
        BY <2>2, Premise DEF InsertPremise, Owners
      <3>2. \/ proof' = add_premise_relative(proof, premise(EmptyExpr), r, after)
            \/ proof' = add_premise(proof, Root, premise(EmptyExpr))
        BY <2>2 DEF InsertPremise
      <3>3. \E s : PremiseAdded(proof, proof', s)
        BY <2>i, <3>1, <3>2, AddPremiseEffect
      <3> QED BY <1>2, <3>1, <3>3, AdditionFits
    <2>3. ASSUME NEW r \in Lines(proof), NEW after \in BOOLEAN, NEW point,
                 InsertStep(r, point, after)
          PROVE  Fits(proof')
      <3>1. HasNextKey(Justs(proof), MaxSteps) /\ parent_of(proof, r) \in Owners(proof)
        BY <2>i, <2>3, Shape DEF InsertStep
      <3>2. \/ proof' = prepend_step(proof, parent_of(proof, r), new_empty_step)
            \/ proof' = add_step_relative(proof, new_empty_step, point, after)
        BY <2>3 DEF InsertStep
      <3>3. StepAdded(proof, proof')
        BY <2>i, <3>1, <3>2, AddStepEffect, EmptyStep
      <3> QED BY <1>2, <3>1, <3>3, AdditionFits
    <2>4. ASSUME NEW r \in Lines(proof), NEW after \in BOOLEAN, NEW point,
                 InsertSubproof(r, point, after)
          PROVE  Fits(proof')
      <3> DEFINE s == next_subkey(proof)
                 p1 == add_subproof_relative(proof, point, after)
                 p2 == add_premise(p1, s, premise(EmptyExpr))
                 p3 == prepend_step(p2, s, new_empty_step)
      <3>1. /\ HasNextKey(Prems(proof), MaxPrems) /\ HasNextKey(Justs(proof), MaxSteps)
            /\ HasNextKey(Subs(proof), MaxSubs) /\ premise(EmptyExpr) \in Exprs /\ proof' = p3
        BY <2>4, Premise DEF InsertSubproof
      <3>2. SubproofAdded(proof, p1)
        BY <2>i, <3>1, AddSubproofEffect
      <3> HIDE DEF s, p1
      <3>3. /\ WellFormed(p1) /\ HasNextKey(Prems(p1), MaxPrems) /\ HasNextKey(Justs(p1), MaxSteps)
            /\ s \in Owners(p1)
        BY <3>1, <3>2 DEF SubproofAdded, Owners, s
      <3>4. PremiseAdded(p1, p2, s)
        BY <3>1, <3>3, AddPremiseEffect
      <3> HIDE DEF p2
      <3>5. WellFormed(p2) /\ HasNextKey(Justs(p2), MaxSteps) /\ s \in Owners(p2)
        BY <3>3, <3>4 DEF PremiseAdded, Owners
      <3>6. StepAdded(p2, p3)
        BY <3>5, AddStepEffect, EmptyStep
      <3> HIDE DEF p3
      <3>7. Fits(p1)
        BY <1>2, <3>1, <3>2, AdditionFits
      <3>8. Fits(p2)
        BY <3>3, <3>4, <3>7, AdditionFits
      <3> QED BY <3>1, <3>5, <3>6, <3>8, AdditionFits
    <2>5. ASSUME NEW r \in Lines(proof), DeleteLine(r) PROVE Fits(proof')
      BY <1>2, <2>i, <2>5, RemovalFits DEF DeleteLine
    <2>6. ASSUME NEW r \in Lines(proof), DeleteSubproof(r) PROVE Fits(proof')
      <3>1. parent_of(proof, r) \in Subs(proof)
        BY <2>i, <2>6, Shape DEF DeleteSubproof, InSubproof, Owners
      <3> QED BY <1>2, <2>i, <2>6, <3>1, RemovalFits DEF DeleteSubproof
    <2>7. ASSUME NEW r \in Lines(proof), Select(r) PROVE Fits(proof')
      BY <1>2, <2>7 DEF Select
    <2>8. ASSUME NEW dep \in Live(proof), ToggleDependency(dep) PROVE Fits(proof')
      <3>1. \A just : Fits(with_mut_step(proof, selected_line, just))
        BY <1>2, <2>i, <2>8, SetStepEffect DEF Fits, StepRewritten, ToggleDependency
      <3> QED BY <2>8, <3>1 DEF ToggleDependency
    <2>9. ASSUME NEW r \in Lines(proof), NEW rule \in MenuRules, SetRule(r, rule)
          PROVE  Fits(proof')
      <3>1. \A just : Fits(with_mut_step(proof, r, just))
        BY <1>2, <2>i, <2>9, SetStepEffect DEF Fits, StepRewritten, SetRule
      <3> QED BY <2>9, <3>1 DEF SetRule
    <2> QED BY <1>2, <2>1, <2>2, <2>3, <2>4, <2>5, <2>6, <2>7, <2>8, <2>9 DEF WidgetNext
  <1>3. ASSUME Fits(proof), UNCHANGED vars PROVE Fits(proof')
    BY <1>3 DEF vars
  <1> QED BY <1>1, <1>2, <1>3

(* The keys D were handed out, in order, for the S of P that were read,    *)
(* and x is read next.                                                     *)
ReadOf(kind, bound, P, S, x, D) ==
  /\ bound \in Nat /\ P \subseteq Keys(kind, bound) /\ S \subseteq P /\ x \in P \ S
  /\ D = Keys(kind, Cardinality(S))

(* There is a key left for x.                                              *)
LEMMA KeyLeft ==
  ASSUME NEW kind, NEW bound, NEW P, NEW S, NEW x, NEW D, ReadOf(kind, bound, P, S, x, D)
  PROVE  /\ HasNextKey(D, bound)
         /\ D \cup {<<kind, NextKey(D, bound)>>} = Keys(kind, Cardinality(S \cup {x}))
  <1> DEFINE n == Cardinality(S)
             K == Keys(kind, bound)
  <1>a. /\ bound \in Nat /\ P \in SUBSET K /\ S \in SUBSET P /\ x \in P \ S
        /\ D = Keys(kind, n)
    BY DEF ReadOf
  <1>1. IsFiniteSet(K) /\ Cardinality(K) = bound
    <2>1. IsFiniteSet(0 .. bound - 1) /\ Cardinality(0 .. bound - 1) = bound
      <3>1. 0 \in Int /\ bound - 1 \in Int
        BY <1>a
      <3>2. /\ IsFiniteSet(0 .. bound - 1)
            /\ Cardinality(0 .. bound - 1) = IF 0 > bound - 1 THEN 0 ELSE (bound - 1) - 0 + 1
        BY <3>1, FS_Interval
      <3> QED BY <1>a, <3>2
    <2>2. IsFiniteSet({kind}) /\ Cardinality({kind}) = 1
      BY FS_Singleton
    <2>3. IsFiniteSet(K) /\ Cardinality(K) = Cardinality({kind}) * Cardinality(0 .. bound - 1)
      BY <2>1, <2>2, FS_Product DEF Keys
    <2>4. Cardinality(K) = 1 * bound
      BY <2>1, <2>2, <2>3
    <2> QED BY <1>a, <2>3, <2>4
  <1>2. IsFiniteSet(P) /\ Cardinality(P) <= bound /\ Cardinality(P) \in Nat
    BY <1>1, <1>a, FS_Subset, FS_CardinalityType
  <1>3. IsFiniteSet(S) /\ n \in Nat /\ n <= Cardinality(P) /\ n # Cardinality(P)
    BY <1>2, <1>a, FS_Subset, FS_CardinalityType
  <1>4. n \in 0 .. bound - 1
    BY <1>2, <1>3, <1>a
  <1>5. Cardinality(S \cup {x}) = n + 1
    BY <1>3, <1>a, FS_AddElement
  <1> HIDE DEF n, K
  <1>6. D = {kind} \X (0 .. n - 1)
    BY <1>a DEF n, Keys
  <1>7. IsNextKey(D, n)
    <2>1. \A z \in D : z[2] < n
      BY <1>3, <1>6
    <2>2. n # 0 => <<kind, n - 1>> \in D /\ <<kind, n - 1>>[2] = n - 1
      BY <1>3, <1>6
    <2> QED BY <2>1, <2>2 DEF IsNextKey
  <1>8. HasNextKey(D, bound)
    BY <1>4, <1>7 DEF HasNextKey
  <1> DEFINE k == NextKey(D, bound)
  <1>9. k \in 0 .. bound - 1 /\ IsNextKey(D, k)
    BY <1>8, KeyBelowBound
  <1> HIDE DEF k
  <1>10. k = n
    <2>1. k # 0 => k - 1 \in 0 .. n - 1
      BY <1>6, <1>9 DEF IsNextKey
    <2>2. n # 0 => <<kind, n - 1>> \in D /\ <<kind, n - 1>>[2] = n - 1
      BY <1>3, <1>6
    <2>3. n # 0 => n - 1 < k
      BY <1>9, <2>2 DEF IsNextKey
    <2> QED BY <1>3, <1>9, <2>1, <2>3
  <1>11. D \cup {<<kind, n>>} = {kind} \X (0 .. (n + 1) - 1)
    BY <1>3, <1>6
  <1> QED BY <1>5, <1>8, <1>10, <1>11 DEF k, Keys

-----------------------------------------------------------------------------
(* Copies.  What was read so far, R, is there in the proof q that is being *)
(* built, and f tells as what.                                             *)

(* copy is the part of list that was read, and that part is at its front.  *)
Front(list, copy, R, f) ==
  /\ copy \in Seq(Entries(copy)) /\ Len(copy) <= Len(list)
  /\ \A i \in 1 .. Len(list) : list[i] \in R <=> i <= Len(copy)
  /\ \A i \in 1 .. Len(copy) : copy[i] = f[list[i]]

(* The next entry of the list is read.                                     *)
LEMMA FrontGrows ==
  ASSUME NEW T, NEW list \in Seq(T), NoRepeats(list), NEW copy, NEW R, NEW f, R \subseteq DOMAIN f,
         Front(list, copy, R, f), NEW k \in DOMAIN list, list[k] \notin R,
         \A i \in 1 .. k - 1 : list[i] \in R, NEW y
  PROVE  Front(list, Append(copy, y), R \cup {list[k]}, Put(f, list[k], y))
  <1> DEFINE x == list[k]
             U == Entries(copy) \cup {y}
             c2 == Append(copy, y)
             g == Put(f, x, y)
  <1>1. DOMAIN list = 1 .. Len(list) /\ Len(list) \in Nat /\ k \in 1 .. Len(list)
    OBVIOUS
  <1>2. copy \in Seq(U) /\ Len(copy) \in Nat /\ DOMAIN copy = 1 .. Len(copy)
    BY DEF Front
  <1>3. Len(copy) = k - 1
    <2>1. ~(k <= Len(copy)) /\ \A i \in 1 .. k - 1 : i <= Len(copy)
      BY <1>1 DEF Front
    <2> QED BY <1>1, <1>2, <2>1
  <1>4. c2 \in Seq(U) /\ Len(c2) = k /\ c2[k] = y /\ \A i \in 1 .. k - 1 : c2[i] = copy[i]
    BY <1>1, <1>2, <1>3
  <1> HIDE DEF c2
  <1>5. c2 \in Seq(Entries(c2))
    BY <1>4, SeqOverEntries
  <1>6. g[x] = y /\ \A z \in R : g[z] = f[z]
    BY DEF Put
  <1>7. \A i \in 1 .. Len(list) : i # k => list[i] # x
    BY <1>1 DEF NoRepeats
  <1> HIDE DEF x, U, g
  <1>8. \A i \in 1 .. Len(list) : list[i] \in R \cup {x} <=> i <= k
    BY <1>1, <1>3, <1>7 DEF Front, x
  <1>9. \A i \in 1 .. k - 1 : list[i] \in R /\ copy[i] = f[list[i]]
    BY <1>3 DEF Front
  <1>10. \A i \in 1 .. k : c2[i] = g[list[i]]
    BY <1>1, <1>4, <1>6, <1>9 DEF x
  <1> QED BY <1>1, <1>4, <1>5, <1>8, <1>10 DEF Front, c2, x, g

(* Something that is not in the list is read.                              *)
LEMMA FrontStays ==
  ASSUME NEW list, NEW copy, NEW R, NEW f, R \subseteq DOMAIN f,
         Front(list, copy, R, f), NEW x, NEW y, Len(list) \in Nat,
         \A i \in 1 .. Len(list) : list[i] # x
  PROVE  Front(list, copy, R \cup {x}, Put(f, x, y))
  <1> DEFINE g == Put(f, x, y)
  <1>1. \A z \in R : z # x => g[z] = f[z]
    BY DEF Put
  <1>2. Len(copy) \in Nat /\ Len(copy) <= Len(list)
    BY DEF Front
  <1> HIDE DEF g
  <1>3. \A i \in 1 .. Len(list) : list[i] \in R \cup {x} <=> i <= Len(copy)
    BY DEF Front
  <1>4. \A i \in 1 .. Len(copy) : i \in 1 .. Len(list) /\ list[i] \in R /\ copy[i] = f[list[i]]
    BY <1>2 DEF Front
  <1>5. \A i \in 1 .. Len(copy) : copy[i] = g[list[i]]
    BY <1>1, <1>4
  <1> QED BY <1>3, <1>5 DEF Front, g

(* The things read, each of its kind and in its place, and nothing else.   *)
Mapped(p, q, R, f) ==
  /\ R \subseteq Live(p) /\ DOMAIN f = R \cup {Root} /\ f[Root] = Root
  /\ \A x \in R : /\ x \in Prems(p) => f[x] \in Prems(q)
                  /\ x \in Justs(p) => f[x] \in Justs(q)
                  /\ x \in Subs(p) => f[x] \in Subs(q)
                  /\ parent_of(p, x) \in R \cup {Root}
                  /\ parent_of(q, f[x]) = f[parent_of(p, x)]
  /\ \A x, y \in R : f[x] = f[y] => x = y
  /\ \A z \in Live(q) : \E x \in R : f[x] = z

(* Each subproof has the front of its two lists, in their order.           *)
ListsCopied(p, q, R, f) ==
  \A s \in Owners(p) \cap (R \cup {Root}) :
    /\ Front(p.premise_list[s], q.premise_list[f[s]], R, f)
    /\ Front(p.line_list[s], q.line_list[f[s]], R, f)

(* A step with its references carried over.                                *)
Image(f, S) == {f[d] : d \in S}
Carried(just, f) ==
  [expr |-> Reopened(just.expr), deps |-> Image(f, just.deps), sdeps |-> Image(f, just.sdeps)]

(* Each line says what it said, and rests on what it rested on.            *)
TextsCopied(p, q, R, f) ==
  /\ \A x \in R \cap Prems(p) : q.prem_map[f[x]].says = p.prem_map[x].says
  /\ \A x \in R \cap Justs(p) :
       /\ p.just_map[x].deps \subseteq R /\ p.just_map[x].sdeps \subseteq R
       /\ q.just_map[f[x]] = Carried(p.just_map[x], f)

(* The keys handed out so far.                                             *)
Packed(p, q, R) ==
  /\ Prems(q) = Keys("prem", Cardinality(R \cap Prems(p)))
  /\ Justs(q) = Keys("just", Cardinality(R \cap Justs(p)))
  /\ Subs(q) = Keys("sub", Cardinality(R \cap Subs(p)))

(* q is a copy of the part R of p, as f tells.                             *)
Copied(p, q, R, f) ==
  /\ WellFormed(q) /\ Mapped(p, q, R, f) /\ ListsCopied(p, q, R, f)
  /\ TextsCopied(p, q, R, f) /\ Packed(p, q, R)

(* x is the next entry of list after those in R.                           *)
IsNext(list, x, R) == \E k \in DOMAIN list : list[k] = x /\ \A i \in 1 .. k - 1 : list[i] \in R
Absent(list, x) == Len(list) \in Nat /\ \A i \in 1 .. Len(list) : list[i] # x

(* The list that x is in, and the others.                                  *)
LEMMA NextInList ==
  ASSUME NEW p, WellFormed(p), NEW x \in Live(p), NEW R, Earlier(p, x) \subseteq R
  PROVE  LET s == parent_of(p, x)
         IN  /\ x \in Prems(p) => IsNext(p.premise_list[s], x, R)
             /\ x \notin Prems(p) => IsNext(p.line_list[s], x, R)
             /\ \A t \in Owners(p) : (t # s \/ x \notin Prems(p)) => Absent(p.premise_list[t], x)
             /\ \A t \in Owners(p) : (t # s \/ x \in Prems(p)) => Absent(p.line_list[t], x)
  <1> DEFINE s == parent_of(p, x)
  <1>1. s \in Owners(p) /\ Prems(p) \cap (Justs(p) \cup Subs(p)) = {}
    BY Shape DEF Lines, Owners
  <1>2. \A t \in Owners(p) :
          /\ p.premise_list[t] \in Seq(Live(p)) /\ NoRepeats(p.premise_list[t])
          /\ p.line_list[t] \in Seq(Live(p)) /\ NoRepeats(p.line_list[t])
    BY ListsAreLive
  <1>3. \A t \in Owners(p) :
          /\ Entries(p.premise_list[t]) = {z \in Prems(p) : parent_of(p, z) = t}
          /\ Entries(p.line_list[t]) = {z \in Justs(p) \cup Subs(p) : parent_of(p, z) = t}
    BY DEF WellFormed, ListedOnce, Owners
  <1>4. ASSUME NEW list \in Seq(Live(p)), NEW i \in 1 .. Len(list) PROVE list[i] \in Entries(list)
    BY DEF Entries
  <1>5. ASSUME NEW t \in Owners(p), t # s \/ x \notin Prems(p) PROVE Absent(p.premise_list[t], x)
    <2>1. x \notin Entries(p.premise_list[t])
      BY <1>3, <1>5
    <2> QED BY <1>2, <1>4, <2>1 DEF Absent
  <1>6. ASSUME NEW t \in Owners(p), t # s \/ x \in Prems(p) PROVE Absent(p.line_list[t], x)
    <2>1. x \notin Entries(p.line_list[t])
      BY <1>1, <1>3, <1>6
    <2> QED BY <1>2, <1>4, <2>1 DEF Absent
  <1>7. ASSUME NEW list \in Seq(Live(p)), NoRepeats(list), x \in Entries(list),
               \A z \in Entries(list) : z \in Live(p) /\ (Ahead(list, z, x) => z \in Earlier(p, x))
        PROVE  IsNext(list, x, R)
    <2>1. PICK k \in DOMAIN list : list[k] = x
      BY <1>7 DEF Entries
    <2>2. DOMAIN list = 1 .. Len(list) /\ Len(list) \in Nat
      OBVIOUS
    <2>3. ASSUME NEW i \in 1 .. k - 1 PROVE list[i] \in R
      <3>1. i \in DOMAIN list /\ \A j \in 1 .. i : j \in DOMAIN list /\ j # k
        BY <2>1, <2>2
      <3>2. \A j \in 1 .. i : list[j] # x
        BY <1>7, <2>1, <3>1 DEF NoRepeats
      <3>3. Ahead(list, list[i], x)
        BY <3>1, <3>2 DEF Ahead
      <3>4. list[i] \in Entries(list)
        BY <3>1 DEF Entries
      <3> QED BY <1>7, <3>3, <3>4
    <2> QED BY <2>1, <2>3 DEF IsNext
  <1>8. ASSUME x \in Prems(p) PROVE IsNext(p.premise_list[s], x, R)
    <2>1. \A z \in Entries(p.premise_list[s]) : z \in Prems(p) /\ z \in Live(p) /\ parent_of(p, z) = s
      BY <1>1, <1>3 DEF Live, Lines
    <2>2. \A z \in Entries(p.premise_list[s]) :
            Ahead(p.premise_list[s], z, x) => z \in Earlier(p, x)
      BY <1>8, <2>1, EarlierIs
    <2>3. x \in Entries(p.premise_list[s])
      BY <1>1, <1>3, <1>8
    <2> QED BY <1>1, <1>2, <1>7, <2>1, <2>2, <2>3
  <1>9. ASSUME x \notin Prems(p) PROVE IsNext(p.line_list[s], x, R)
    <2>1. \A z \in Entries(p.line_list[s]) :
            z \notin Prems(p) /\ z \in Live(p) /\ parent_of(p, z) = s
      BY <1>1, <1>3 DEF Live, Lines
    <2>2. \A z \in Entries(p.line_list[s]) : Ahead(p.line_list[s], z, x) => z \in Earlier(p, x)
      BY <1>9, <2>1, EarlierIs
    <2>3. x \in Entries(p.line_list[s])
      BY <1>1, <1>3, <1>9 DEF Live, Lines
    <2> QED BY <1>1, <1>2, <1>7, <2>1, <2>2, <2>3
  <1> QED BY <1>5, <1>6, <1>8, <1>9

(* From q to q2, y is added to subproof s.                                 *)
Extended(q, q2, y, s) ==
  /\ WellFormed(q2) /\ y \notin Live(q) \cup {Root} /\ Live(q2) = Live(q) \cup {y}
  /\ Prems(q) \subseteq Prems(q2) /\ Justs(q) \subseteq Justs(q2) /\ Subs(q) \subseteq Subs(q2)
  /\ parent_of(q2, y) = s /\ \A z : z # y => parent_of(q2, z) = parent_of(q, z)

(* A thing that is read is mapped to what is added for it.                 *)
LEMMA MapGrows ==
  ASSUME NEW p, WellFormed(p), NEW q, WellFormed(q), NEW R, NEW f, Mapped(p, q, R, f),
         NEW x \in Live(p) \ R, parent_of(p, x) \in R \cup {Root},
         NEW q2, NEW y, Extended(q, q2, y, f[parent_of(p, x)]),
         x \in Prems(p) => y \in Prems(q2), x \in Justs(p) => y \in Justs(q2),
         x \in Subs(p) => y \in Subs(q2)
  PROVE  Mapped(p, q2, R \cup {x}, Put(f, x, y))
  <1> DEFINE g == Put(f, x, y)
             S == R \cup {x}
  <1>1. Root \notin Live(p)
    BY Shape DEF Live, Owners
  <1>2. /\ R \subseteq Live(p) /\ DOMAIN f = R \cup {Root} /\ f[Root] = Root
        /\ x \notin DOMAIN f
    BY <1>1 DEF Mapped
  <1>3. DOMAIN g = S \cup {Root} /\ g[x] = y /\ \A z \in R \cup {Root} : g[z] = f[z]
    BY <1>2 DEF Put
  <1>4. \A z \in R : f[z] \in Live(q)
    BY DEF Mapped, Live, Lines
  <1>5. \A z \in R : f[z] # y
    BY <1>4 DEF Extended
  <1> HIDE DEF g
  <1>6. ASSUME NEW z \in S
        PROVE  /\ z \in Prems(p) => g[z] \in Prems(q2)
               /\ z \in Justs(p) => g[z] \in Justs(q2)
               /\ z \in Subs(p) => g[z] \in Subs(q2)
               /\ parent_of(p, z) \in S \cup {Root}
               /\ parent_of(q2, g[z]) = g[parent_of(p, z)]
    <2>1. CASE z = x
      BY <1>3, <2>1 DEF Extended
    <2>2. CASE z \in R
      <3>1. /\ z \in Prems(p) => f[z] \in Prems(q)
            /\ z \in Justs(p) => f[z] \in Justs(q)
            /\ z \in Subs(p) => f[z] \in Subs(q)
            /\ parent_of(p, z) \in R \cup {Root}
            /\ parent_of(q, f[z]) = f[parent_of(p, z)]
        BY <2>2 DEF Mapped
      <3>2. parent_of(q2, f[z]) = parent_of(q, f[z])
        BY <1>5, <2>2 DEF Extended
      <3> QED BY <1>3, <2>2, <3>1, <3>2 DEF Extended
    <2> QED BY <2>1, <2>2
  <1>7. \A z, w \in S : g[z] = g[w] => z = w
    BY <1>3, <1>5 DEF Mapped
  <1>8. \A w \in Live(q2) : \E z \in S : g[z] = w
    BY <1>3 DEF Mapped, Extended
  <1>9. g[Root] = Root /\ S \subseteq Live(p)
    BY <1>2, <1>3
  <1> QED BY <1>3, <1>6, <1>7, <1>8, <1>9 DEF Mapped, g

(* What add_premise, add_subproof and add_step do, in full.                *)
LEMMA PremiseAdds ==
  ASSUME NEW q, WellFormed(q), HasNextKey(Prems(q), MaxPrems), NEW s \in Owners(q), NEW e \in Exprs
  PROVE  LET y == next_premkey(q)
             q2 == add_premise(q, s, e)
         IN  /\ Extended(q, q2, y, s) /\ Subs(q2) = Subs(q) /\ Justs(q2) = Justs(q)
             /\ Prems(q2) = Prems(q) \cup {y}
             /\ \A t \in Owners(q) :
                  q2.premise_list[t] = IF t = s THEN Append(q.premise_list[s], y) ELSE q.premise_list[t]
             /\ q2.line_list = q.line_list /\ q2.just_map = q.just_map
             /\ q2.prem_map[y] = e /\ \A z \in Prems(q) : q2.prem_map[z] = q.prem_map[z]
  <1> DEFINE y == next_premkey(q)
             q2 == add_premise(q, s, e)
             list == Append(q.premise_list[s], y)
  <1>1. q2 = WithPremise(q, s, y, e, list)
    BY DEF add_premise
  <1>2. y \in PremRefs \ Prems(q)
    BY FreshKeys
  <1> HIDE DEF y
  <1>3. /\ Prems(q2) = Prems(q) \cup {y} /\ Justs(q2) = Justs(q) /\ Subs(q2) = Subs(q)
        /\ \A t \in Owners(q) : q2.premise_list[t] = IF t = s THEN list ELSE q.premise_list[t]
    BY <1>1, <1>2, WithPremiseEffect
  <1>4. WellFormed(q2)
    BY AddPremiseWF
  <1>5. y \notin Live(q) \cup {Root}
    BY <1>2, KindsDisjoint DEF WellFormed, ProofType, Live, Lines
  <1>6. DOMAIN q.containing_subproof \subseteq Live(q)
    BY DEF WellFormed, ProofType
  <1>7. q2.containing_subproof = set_parent(q.containing_subproof, y, s)
    BY <1>1 DEF WithPremise
  <1>8. parent_of(q2, y) = s /\ \A z : z # y => parent_of(q2, z) = parent_of(q, z)
    BY <1>5, <1>6, <1>7 DEF parent_of, set_parent, Put
  <1>9. q2.line_list = q.line_list /\ q2.just_map = q.just_map
    BY <1>1 DEF WithPremise
  <1>10. q2.prem_map = Put(q.prem_map, y, e)
    BY <1>1 DEF WithPremise
  <1>11. q2.prem_map[y] = e /\ \A z \in Prems(q) : q2.prem_map[z] = q.prem_map[z]
    BY <1>2, <1>10 DEF Put, Prems
  <1>12. Live(q2) = Live(q) \cup {y}
    BY <1>3 DEF Live, Lines
  <1>13. Extended(q, q2, y, s)
    BY <1>3, <1>4, <1>5, <1>8, <1>12 DEF Extended
  <1> QED BY <1>3, <1>9, <1>11, <1>13 DEF y

(* An empty subproof comes at the end of the list.                         *)
LEMMA SubproofAdds ==
  ASSUME NEW q, WellFormed(q), HasNextKey(Subs(q), MaxSubs), NEW s \in Owners(q)
  PROVE  LET y == next_subkey(q)
             q2 == add_subproof(q, s)
         IN  /\ Extended(q, q2, y, s) /\ Prems(q2) = Prems(q) /\ Justs(q2) = Justs(q)
             /\ Subs(q2) = Subs(q) \cup {y}
             /\ q2.premise_list[y] = <<>> /\ q2.line_list[y] = <<>>
             /\ \A t \in Owners(q) :
                  /\ q2.premise_list[t] = q.premise_list[t]
                  /\ q2.line_list[t] = IF t = s THEN Append(q.line_list[s], y) ELSE q.line_list[t]
             /\ q2.prem_map = q.prem_map /\ q2.just_map = q.just_map
  <1> DEFINE y == next_subkey(q)
             q2 == add_subproof(q, s)
             list == Append(q.line_list[s], y)
  <1>1. q2 = WithSubproof(q, s, y, list)
    BY DEF add_subproof
  <1>2. y \in SubRefs \ Subs(q)
    BY FreshKeys
  <1> HIDE DEF y
  <1>3. /\ Prems(q2) = Prems(q) /\ Justs(q2) = Justs(q) /\ Subs(q2) = Subs(q) \cup {y}
        /\ q2.premise_list[y] = <<>>
        /\ \A t \in Owners(q) : t # y /\ q2.premise_list[t] = q.premise_list[t]
    BY <1>1, <1>2, WithSubproofEffect
  <1>4. WellFormed(q2)
    BY AddSubproofWF
  <1>5. y \notin Live(q) \cup {Root}
    BY <1>2, KindsDisjoint DEF WellFormed, ProofType, Live, Lines
  <1>6. DOMAIN q.containing_subproof \subseteq Live(q) /\ DOMAIN q.line_list = Owners(q)
    BY Shape DEF WellFormed, ProofType
  <1>7. q2.containing_subproof = set_parent(q.containing_subproof, y, s)
    BY <1>1 DEF WithSubproof
  <1>8. parent_of(q2, y) = s /\ \A z : z # y => parent_of(q2, z) = parent_of(q, z)
    BY <1>5, <1>6, <1>7 DEF parent_of, set_parent, Put
  <1>9. q2.prem_map = q.prem_map /\ q2.just_map = q.just_map
    BY <1>1 DEF WithSubproof
  <1>10. q2.line_list = Put([q.line_list EXCEPT ![s] = list], y, <<>>)
    BY <1>1 DEF WithSubproof
  <1>11. /\ q2.line_list[y] = <<>>
         /\ \A t \in Owners(q) : q2.line_list[t] = IF t = s THEN list ELSE q.line_list[t]
    BY <1>3, <1>6, <1>10 DEF Put
  <1>12. Live(q2) = Live(q) \cup {y}
    BY <1>3 DEF Live, Lines
  <1>13. Extended(q, q2, y, s)
    BY <1>3, <1>4, <1>5, <1>8, <1>12 DEF Extended
  <1> QED BY <1>3, <1>9, <1>11, <1>13 DEF y

(* A step comes at the end of the list, without its references to the      *)
(* subproofs around it.                                                    *)
LEMMA StepAdds ==
  ASSUME NEW q, WellFormed(q), HasNextKey(Justs(q), MaxSteps), NEW s \in Owners(q),
         NEW just \in Steps(q)
  PROVE  LET y == next_justkey(q)
             q2 == add_step(q, s, just)
             around == transitive_parents(q, s) \cup ({s} \ {Root})
         IN  /\ Extended(q, q2, y, s) /\ Prems(q2) = Prems(q) /\ Subs(q2) = Subs(q)
             /\ Justs(q2) = Justs(q) \cup {y}
             /\ q2.premise_list = q.premise_list
             /\ \A t \in Owners(q) :
                  q2.line_list[t] = IF t = s THEN Append(q.line_list[s], y) ELSE q.line_list[t]
             /\ q2.prem_map = q.prem_map
             /\ q2.just_map[y] = [expr |-> just.expr, deps |-> just.deps, sdeps |-> just.sdeps \ around]
             /\ \A z \in Justs(q) : q2.just_map[z] = q.just_map[z]
  <1> DEFINE y == next_justkey(q)
             q2 == add_step(q, s, just)
             list == Append(q.line_list[s], y)
             around == transitive_parents(q, s) \cup ({s} \ {Root})
             kept == [just EXCEPT !.sdeps = @ \ around]
  <1>1. q2 = WithStep(q, s, y, kept, list)
    BY DEF add_step
  <1>2. y \in JustRefs \ Justs(q)
    BY FreshKeys
  <1>a. kept = [expr |-> just.expr, deps |-> just.deps, sdeps |-> just.sdeps \ around]
    BY DEF Steps
  <1> HIDE DEF y, kept, around
  <1>3. /\ Prems(q2) = Prems(q) /\ Justs(q2) = Justs(q) \cup {y} /\ Subs(q2) = Subs(q)
        /\ q2.premise_list = q.premise_list
    BY <1>1, <1>2, WithStepEffect
  <1>4. WellFormed(q2)
    BY AddStepWF DEF Steps
  <1>5. y \notin Live(q) \cup {Root}
    BY <1>2, KindsDisjoint DEF WellFormed, ProofType, Live, Lines
  <1>6. DOMAIN q.containing_subproof \subseteq Live(q) /\ DOMAIN q.line_list = Owners(q)
    BY Shape DEF WellFormed, ProofType
  <1>7. q2.containing_subproof = set_parent(q.containing_subproof, y, s)
    BY <1>1 DEF WithStep
  <1>8. parent_of(q2, y) = s /\ \A z : z # y => parent_of(q2, z) = parent_of(q, z)
    BY <1>5, <1>6, <1>7 DEF parent_of, set_parent, Put
  <1>9. /\ q2.prem_map = q.prem_map /\ q2.just_map = Put(q.just_map, y, kept)
        /\ q2.line_list = [q.line_list EXCEPT ![s] = list]
    BY <1>1 DEF WithStep
  <1>10. \A t \in Owners(q) : q2.line_list[t] = IF t = s THEN list ELSE q.line_list[t]
    BY <1>6, <1>9
  <1>11. q2.just_map[y] = kept /\ \A z \in Justs(q) : q2.just_map[z] = q.just_map[z]
    BY <1>2, <1>9 DEF Put, Justs
  <1>12. Live(q2) = Live(q) \cup {y}
    BY <1>3 DEF Live, Lines
  <1>13. Extended(q, q2, y, s)
    BY <1>3, <1>4, <1>5, <1>8, <1>12 DEF Extended
  <1> QED BY <1>3, <1>9, <1>10, <1>11, <1>13, <1>a DEF y, around

(* What was read of the subproofs, mapped one to one.                      *)
LEMMA OwnersMapped ==
  ASSUME NEW p, WellFormed(p), NEW q, WellFormed(q), NEW R, NEW f, Mapped(p, q, R, f)
  PROVE  /\ \A s \in Owners(p) \cap (R \cup {Root}) : f[s] \in Owners(q)
         /\ \A s, t \in R \cup {Root} : f[s] = f[t] => s = t
         /\ \A s \in R : f[s] \in Live(q)
  <1>1. Root \notin Live(q) /\ Root \notin Subs(p)
    BY Shape DEF Live, Owners
  <1>2. f[Root] = Root /\ \A s \in R : f[s] \in Live(q)
    BY DEF Mapped, Live, Lines
  <1>3. \A s \in R \cap Subs(p) : f[s] \in Subs(q)
    BY DEF Mapped
  <1>4. \A s, t \in R : f[s] = f[t] => s = t
    BY DEF Mapped
  <1> QED BY <1>1, <1>2, <1>3, <1>4 DEF Owners

(* The lists with one more thing read: it goes to the end of the list that *)
(* stands for its own, and a subproof that is read has nothing in it yet.  *)
LEMMA ListsGrow ==
  ASSUME NEW p, WellFormed(p), NEW q, WellFormed(q), NEW R, NEW f, Mapped(p, q, R, f),
         ListsCopied(p, q, R, f), NEW x \in Live(p) \ R, Earlier(p, x) \subseteq R,
         parent_of(p, x) \in R \cup {Root}, NEW q2, NEW y,
         \A t \in Owners(q) :
           q2.premise_list[t] = IF t = f[parent_of(p, x)] /\ x \in Prems(p)
                                THEN Append(q.premise_list[t], y) ELSE q.premise_list[t],
         \A t \in Owners(q) :
           q2.line_list[t] = IF t = f[parent_of(p, x)] /\ x \notin Prems(p)
                             THEN Append(q.line_list[t], y) ELSE q.line_list[t],
         x \in Subs(p) => q2.premise_list[y] = <<>> /\ q2.line_list[y] = <<>>
  PROVE  ListsCopied(p, q2, R \cup {x}, Put(f, x, y))
  <1> DEFINE g == Put(f, x, y)
             S == R \cup {x}
             s == parent_of(p, x)
  <1>1. Root \notin Live(p) /\ s \in Owners(p)
    BY Shape DEF Live, Owners
  <1>2. R \subseteq Live(p) /\ DOMAIN f = R \cup {Root} /\ R \subseteq DOMAIN f /\ x \notin DOMAIN f
    BY <1>1 DEF Mapped
  <1>3. g[x] = y /\ \A z \in R \cup {Root} : g[z] = f[z]
    BY <1>2 DEF Put
  <1>4. /\ \A t \in Owners(p) \cap (R \cup {Root}) : f[t] \in Owners(q)
        /\ \A t, u \in R \cup {Root} : f[u] = f[t] => u = t
    BY OwnersMapped
  <1>5. \A t \in Owners(p) :
          /\ p.premise_list[t] \in Seq(Live(p)) /\ NoRepeats(p.premise_list[t])
          /\ p.line_list[t] \in Seq(Live(p)) /\ NoRepeats(p.line_list[t])
    BY ListsAreLive
  <1>6. /\ x \in Prems(p) => IsNext(p.premise_list[s], x, R)
        /\ x \notin Prems(p) => IsNext(p.line_list[s], x, R)
        /\ \A t \in Owners(p) : (t # s \/ x \notin Prems(p)) => Absent(p.premise_list[t], x)
        /\ \A t \in Owners(p) : (t # s \/ x \in Prems(p)) => Absent(p.line_list[t], x)
    BY NextInList
  <1>7. ASSUME NEW list \in Seq(Live(p)), NoRepeats(list), NEW copy, Front(list, copy, R, f),
               IsNext(list, x, R)
        PROVE  Front(list, Append(copy, y), S, g)
    <2>1. PICK k \in DOMAIN list : list[k] = x /\ \A i \in 1 .. k - 1 : list[i] \in R
      BY <1>7 DEF IsNext
    <2>2. list[k] \notin R
      BY <2>1
    <2>3. Front(list, Append(copy, y), R \cup {list[k]}, Put(f, list[k], y))
      BY <1>2, <1>7, <2>1, <2>2, FrontGrows
    <2> QED BY <2>1, <2>3
  <1>8. ASSUME NEW list, NEW copy, Front(list, copy, R, f), Absent(list, x)
        PROVE  Front(list, copy, S, g)
    BY <1>2, <1>8, FrontStays DEF Absent
  <1> HIDE DEF g
  <1>9. ASSUME NEW t \in Owners(p) \cap (R \cup {Root})
        PROVE  /\ Front(p.premise_list[t], q2.premise_list[g[t]], S, g)
               /\ Front(p.line_list[t], q2.line_list[g[t]], S, g)
    <2>1. g[t] = f[t] /\ f[t] \in Owners(q) /\ (f[t] = f[s] <=> t = s)
      BY <1>3, <1>4
    <2>2. /\ Front(p.premise_list[t], q.premise_list[f[t]], R, f)
          /\ Front(p.line_list[t], q.line_list[f[t]], R, f)
      BY DEF ListsCopied
    <2>3. Front(p.premise_list[t], q2.premise_list[g[t]], S, g)
      <3>1. CASE t = s /\ x \in Prems(p)
        <4>1. q2.premise_list[g[t]] = Append(q.premise_list[f[t]], y)
          BY <2>1, <3>1
        <4>2. IsNext(p.premise_list[t], x, R)
          BY <1>6, <3>1
        <4>3. p.premise_list[t] \in Seq(Live(p)) /\ NoRepeats(p.premise_list[t])
          BY <1>5
        <4>4. Front(p.premise_list[t], Append(q.premise_list[f[t]], y), S, g)
          BY <1>7, <2>2, <4>2, <4>3
        <4> QED BY <4>1, <4>4
      <3>2. CASE ~(t = s /\ x \in Prems(p))
        <4>1. q2.premise_list[g[t]] = q.premise_list[f[t]]
          BY <2>1, <3>2
        <4>2. Absent(p.premise_list[t], x)
          BY <1>6, <3>2
        <4> QED BY <1>8, <2>2, <4>1, <4>2
      <3> QED BY <3>1, <3>2
    <2>4. Front(p.line_list[t], q2.line_list[g[t]], S, g)
      <3>1. CASE t = s /\ x \notin Prems(p)
        <4>1. q2.line_list[g[t]] = Append(q.line_list[f[t]], y)
          BY <2>1, <3>1
        <4>2. IsNext(p.line_list[t], x, R)
          BY <1>6, <3>1
        <4>3. p.line_list[t] \in Seq(Live(p)) /\ NoRepeats(p.line_list[t])
          BY <1>5
        <4>4. Front(p.line_list[t], Append(q.line_list[f[t]], y), S, g)
          BY <1>7, <2>2, <4>2, <4>3
        <4> QED BY <4>1, <4>4
      <3>2. CASE ~(t = s /\ x \notin Prems(p))
        <4>1. q2.line_list[g[t]] = q.line_list[f[t]]
          BY <2>1, <3>2
        <4>2. Absent(p.line_list[t], x)
          BY <1>6, <3>2
        <4> QED BY <1>8, <2>2, <4>1, <4>2
      <3> QED BY <3>1, <3>2
    <2> QED BY <2>3, <2>4
  <1>10. ASSUME x \in Owners(p)
         PROVE  /\ Front(p.premise_list[x], q2.premise_list[g[x]], S, g)
                /\ Front(p.line_list[x], q2.line_list[g[x]], S, g)
    <2>1. x \in Subs(p) /\ x # Root
      BY <1>1, <1>10 DEF Owners
    <2>2. q2.premise_list[g[x]] = <<>> /\ q2.line_list[g[x]] = <<>>
      BY <1>3, <2>1
    <2>3. \A z \in Live(p) : parent_of(p, z) = x => z \notin S
      <3>1. parent_of(p, x) # x
        <4>1. x \notin transitive_parents(p, x)
          BY NotAroundItself
        <4> QED BY <2>1, <4>1, AroundIs
      <3>2. \A z \in R : parent_of(p, z) \in R \cup {Root}
        BY DEF Mapped
      <3> QED BY <2>1, <3>1, <3>2
    <2>4. \A z \in Entries(p.premise_list[x]) \cup Entries(p.line_list[x]) : z \notin S
      BY <1>10, <2>3 DEF WellFormed, ListedOnce, Owners, Live, Lines
    <2>5. ASSUME NEW list \in Seq(Live(p)), \A z \in Entries(list) : z \notin S
          PROVE  Front(list, <<>>, S, g)
      <3>1. Len(list) \in Nat /\ \A i \in 1 .. Len(list) : list[i] \notin S
        BY <2>5 DEF Entries
      <3>2. <<>> \in Seq(Entries(<<>>)) /\ Len(<<>>) = 0
        OBVIOUS
      <3> QED BY <3>1, <3>2 DEF Front
    <2> QED BY <1>5, <1>10, <2>2, <2>4, <2>5
  <1>11. Owners(p) \cap (S \cup {Root}) \subseteq (Owners(p) \cap (R \cup {Root})) \cup (Owners(p) \cap {x})
    OBVIOUS
  <1> QED BY <1>9, <1>10, <1>11 DEF ListsCopied, g

(* The texts with one more thing read.                                     *)
LEMMA TextsGrow ==
  ASSUME NEW p, WellFormed(p), NEW q, NEW R, NEW f, Mapped(p, q, R, f), TextsCopied(p, q, R, f),
         NEW x \in Live(p) \ R, NEW q2, NEW y,
         \A z \in Prems(q) : q2.prem_map[z] = q.prem_map[z],
         \A z \in Justs(q) : q2.just_map[z] = q.just_map[z],
         x \in Prems(p) => q2.prem_map[y].says = p.prem_map[x].says,
         x \in Justs(p) => /\ p.just_map[x].deps \subseteq R /\ p.just_map[x].sdeps \subseteq R
                           /\ q2.just_map[y] = Carried(p.just_map[x], f)
  PROVE  TextsCopied(p, q2, R \cup {x}, Put(f, x, y))
  <1> DEFINE g == Put(f, x, y)
             S == R \cup {x}
  <1>1. DOMAIN f = R \cup {Root} /\ x \notin R
    BY DEF Mapped
  <1>2. g[x] = y /\ \A z \in R : g[z] = f[z]
    BY <1>1 DEF Put
  <1> HIDE DEF g
  <1>3. \A D \in SUBSET R : Image(g, D) = Image(f, D)
    BY <1>2 DEF Image
  <1>4. ASSUME NEW just, just.deps \subseteq R, just.sdeps \subseteq R
        PROVE  Carried(just, g) = Carried(just, f)
    BY <1>3, <1>4 DEF Carried
  <1>5. ASSUME NEW z \in S \cap Prems(p) PROVE q2.prem_map[g[z]].says = p.prem_map[z].says
    <2>1. CASE z = x
      BY <1>2, <2>1
    <2>2. CASE z \in R
      <3>1. f[z] \in Prems(q) /\ q.prem_map[f[z]].says = p.prem_map[z].says
        BY <2>2 DEF Mapped, TextsCopied
      <3> QED BY <1>2, <2>2, <3>1
    <2> QED BY <2>1, <2>2
  <1>6. ASSUME NEW z \in S \cap Justs(p)
        PROVE  /\ p.just_map[z].deps \subseteq S /\ p.just_map[z].sdeps \subseteq S
               /\ q2.just_map[g[z]] = Carried(p.just_map[z], g)
    <2>1. CASE z = x
      BY <1>2, <1>4, <2>1
    <2>2. CASE z \in R
      <3>1. /\ f[z] \in Justs(q) /\ q.just_map[f[z]] = Carried(p.just_map[z], f)
            /\ p.just_map[z].deps \subseteq R /\ p.just_map[z].sdeps \subseteq R
        BY <2>2 DEF Mapped, TextsCopied
      <3> QED BY <1>2, <1>4, <2>2, <3>1
    <2> QED BY <2>1, <2>2
  <1> QED BY <1>5, <1>6 DEF TextsCopied, g

(* What x needs includes the subproof it is in and what is earlier there.  *)
LEMMA NeedsAre ==
  ASSUME NEW p, NEW x, NEW R, Needs(p, x) \subseteq R
  PROVE  /\ parent_of(p, x) \in R \cup {Root} /\ Earlier(p, x) \subseteq R
         /\ x \in Justs(p) => p.just_map[x].deps \subseteq R /\ p.just_map[x].sdeps \subseteq R
  BY DEF Needs

(* An assumption is read.                                                  *)
LEMMA CopyPremise ==
  ASSUME NEW p, WellFormed(p), Fits(p), NEW q, NEW R, NEW f, Copied(p, q, R, f),
         NEW x \in Prems(p) \ R, Needs(p, x) \subseteq R
  PROVE  /\ f[parent_of(p, x)] \in Owners(q)
         /\ Copied(p, add_premise(q, f[parent_of(p, x)], premise(p.prem_map[x].says)),
                   R \cup {x}, Put(f, x, next_premkey(q)))
  <1> DEFINE s == f[parent_of(p, x)]
             e == premise(p.prem_map[x].says)
             y == next_premkey(q)
             q2 == add_premise(q, s, e)
  <1>1. /\ WellFormed(q) /\ Mapped(p, q, R, f) /\ ListsCopied(p, q, R, f)
        /\ TextsCopied(p, q, R, f) /\ Packed(p, q, R)
    BY DEF Copied
  <1>2. /\ parent_of(p, x) \in (R \cup {Root}) \cap Owners(p) /\ Earlier(p, x) \subseteq R
        /\ x \in Live(p) \ R /\ x \notin Justs(p) /\ x \notin Subs(p)
    BY NeedsAre, Shape DEF Live, Lines, Owners
  <1>3. s \in Owners(q)
    BY <1>1, <1>2, OwnersMapped
  <1>4. e \in Exprs /\ e.says = p.prem_map[x].says
    <2>1. p.prem_map[x] \in Exprs
      BY DEF WellFormed, ProofType, Prems
    <2>2. p.prem_map[x].says \in Formulas
      BY <2>1, ContentsAssumption
    <2> QED BY <2>2, Premise
  <1>5. /\ HasNextKey(Prems(q), MaxPrems)
        /\ Prems(q) \cup {y} = Keys("prem", Cardinality((R \cap Prems(p)) \cup {x}))
    <2>1. /\ MaxPrems \in Nat /\ Prems(p) \in SUBSET Keys("prem", MaxPrems)
          /\ R \cap Prems(p) \in SUBSET Prems(p) /\ x \in Prems(p) \ (R \cap Prems(p))
          /\ Prems(q) = Keys("prem", Cardinality(R \cap Prems(p)))
      BY <1>1, MaxLinesAssumption DEF Fits, Packed
    <2>2. ReadOf("prem", MaxPrems, Prems(p), R \cap Prems(p), x, Prems(q))
      BY <2>1 DEF ReadOf
    <2> QED BY <2>2, KeyLeft DEF next_premkey
  <1> HIDE DEF s, e
  <1>6. /\ Extended(q, q2, y, s) /\ Subs(q2) = Subs(q) /\ Justs(q2) = Justs(q)
        /\ Prems(q2) = Prems(q) \cup {y}
        /\ \A t \in Owners(q) :
             q2.premise_list[t] = IF t = s THEN Append(q.premise_list[s], y) ELSE q.premise_list[t]
        /\ q2.line_list = q.line_list /\ q2.just_map = q.just_map
        /\ q2.prem_map[y] = e /\ \A z \in Prems(q) : q2.prem_map[z] = q.prem_map[z]
    BY <1>1, <1>3, <1>4, <1>5, PremiseAdds
  <1> HIDE DEF y, q2
  <1>7. Mapped(p, q2, R \cup {x}, Put(f, x, y))
    <2>1. Extended(q, q2, y, f[parent_of(p, x)]) /\ y \in Prems(q2)
      BY <1>6 DEF s
    <2> QED BY <1>1, <1>2, <2>1, MapGrows
  <1>8. ListsCopied(p, q2, R \cup {x}, Put(f, x, y))
    <2>1. \A t \in Owners(q) :
            q2.premise_list[t] = IF t = f[parent_of(p, x)] /\ x \in Prems(p)
                                 THEN Append(q.premise_list[t], y) ELSE q.premise_list[t]
      BY <1>6 DEF s
    <2>2. \A t \in Owners(q) :
            q2.line_list[t] = IF t = f[parent_of(p, x)] /\ x \notin Prems(p)
                              THEN Append(q.line_list[t], y) ELSE q.line_list[t]
      BY <1>6 DEF s
    <2>3. x \in Subs(p) => q2.premise_list[y] = <<>> /\ q2.line_list[y] = <<>>
      BY <1>2, <1>6
    <2>4. WellFormed(q) /\ Mapped(p, q, R, f) /\ ListsCopied(p, q, R, f)
      BY <1>1
    <2>5. parent_of(p, x) \in R \cup {Root} /\ Earlier(p, x) \subseteq R /\ x \in Live(p) \ R
      BY <1>2
    <2> QED BY <2>1, <2>2, <2>3, <2>4, <2>5, ListsGrow
  <1>9. TextsCopied(p, q2, R \cup {x}, Put(f, x, y))
    <2>1. x \in Prems(p) => q2.prem_map[y].says = p.prem_map[x].says
      BY <1>4, <1>6
    <2>2. /\ \A z \in Prems(q) : q2.prem_map[z] = q.prem_map[z]
          /\ \A z \in Justs(q) : q2.just_map[z] = q.just_map[z]
      BY <1>6
    <2> QED BY <1>1, <1>2, <2>1, <2>2, TextsGrow
  <1>10. Packed(p, q2, R \cup {x})
    <2>1. /\ (R \cup {x}) \cap Prems(p) = (R \cap Prems(p)) \cup {x}
          /\ (R \cup {x}) \cap Justs(p) = R \cap Justs(p) /\ (R \cup {x}) \cap Subs(p) = R \cap Subs(p)
      BY <1>2
    <2> QED BY <1>1, <1>5, <1>6, <2>1 DEF Packed
  <1>11. WellFormed(q2) /\ y \in Prems(q2)
    BY <1>6 DEF Extended
  <1> QED BY <1>3, <1>7, <1>8, <1>9, <1>10, <1>11 DEF Copied, s, e, y, q2

(* A subproof is read.                                                     *)
LEMMA CopySubproof ==
  ASSUME NEW p, WellFormed(p), Fits(p), NEW q, NEW R, NEW f, Copied(p, q, R, f),
         NEW x \in Subs(p) \ R, Needs(p, x) \subseteq R
  PROVE  /\ f[parent_of(p, x)] \in Owners(q)
         /\ Copied(p, add_subproof(q, f[parent_of(p, x)]), R \cup {x}, Put(f, x, next_subkey(q)))
  <1> DEFINE s == f[parent_of(p, x)]
             y == next_subkey(q)
             q2 == add_subproof(q, s)
  <1>1. /\ WellFormed(q) /\ Mapped(p, q, R, f) /\ ListsCopied(p, q, R, f)
        /\ TextsCopied(p, q, R, f) /\ Packed(p, q, R)
    BY DEF Copied
  <1>2. /\ parent_of(p, x) \in (R \cup {Root}) \cap Owners(p) /\ Earlier(p, x) \subseteq R
        /\ x \in Live(p) \ R /\ x \notin Justs(p) /\ x \notin Prems(p)
    BY NeedsAre, Shape DEF Live, Lines, Owners
  <1>3. s \in Owners(q)
    BY <1>1, <1>2, OwnersMapped
  <1>5. /\ HasNextKey(Subs(q), MaxSubs)
        /\ Subs(q) \cup {y} = Keys("sub", Cardinality((R \cap Subs(p)) \cup {x}))
    <2>1. /\ MaxSubs \in Nat /\ Subs(p) \in SUBSET Keys("sub", MaxSubs)
          /\ R \cap Subs(p) \in SUBSET Subs(p) /\ x \in Subs(p) \ (R \cap Subs(p))
          /\ Subs(q) = Keys("sub", Cardinality(R \cap Subs(p)))
      BY <1>1, MaxSubsAssumption DEF Fits, Packed
    <2>2. ReadOf("sub", MaxSubs, Subs(p), R \cap Subs(p), x, Subs(q))
      BY <2>1 DEF ReadOf
    <2> QED BY <2>2, KeyLeft DEF next_subkey
  <1> HIDE DEF s
  <1>6. /\ Extended(q, q2, y, s) /\ Prems(q2) = Prems(q) /\ Justs(q2) = Justs(q)
        /\ Subs(q2) = Subs(q) \cup {y}
        /\ q2.premise_list[y] = <<>> /\ q2.line_list[y] = <<>>
        /\ \A t \in Owners(q) :
             /\ q2.premise_list[t] = q.premise_list[t]
             /\ q2.line_list[t] = IF t = s THEN Append(q.line_list[s], y) ELSE q.line_list[t]
        /\ q2.prem_map = q.prem_map /\ q2.just_map = q.just_map
    BY <1>1, <1>3, <1>5, SubproofAdds
  <1> HIDE DEF y, q2
  <1>7. Mapped(p, q2, R \cup {x}, Put(f, x, y))
    <2>1. Extended(q, q2, y, f[parent_of(p, x)]) /\ y \in Subs(q2)
      BY <1>6 DEF s
    <2> QED BY <1>1, <1>2, <2>1, MapGrows
  <1>8. ListsCopied(p, q2, R \cup {x}, Put(f, x, y))
    <2>1. \A t \in Owners(q) :
            q2.premise_list[t] = IF t = f[parent_of(p, x)] /\ x \in Prems(p)
                                 THEN Append(q.premise_list[t], y) ELSE q.premise_list[t]
      BY <1>2, <1>6 DEF s
    <2>2. \A t \in Owners(q) :
            q2.line_list[t] = IF t = f[parent_of(p, x)] /\ x \notin Prems(p)
                              THEN Append(q.line_list[t], y) ELSE q.line_list[t]
      BY <1>2, <1>6 DEF s
    <2>3. x \in Subs(p) => q2.premise_list[y] = <<>> /\ q2.line_list[y] = <<>>
      BY <1>2, <1>6
    <2>4. WellFormed(q) /\ Mapped(p, q, R, f) /\ ListsCopied(p, q, R, f)
      BY <1>1
    <2>5. parent_of(p, x) \in R \cup {Root} /\ Earlier(p, x) \subseteq R /\ x \in Live(p) \ R
      BY <1>2
    <2> QED BY <2>1, <2>2, <2>3, <2>4, <2>5, ListsGrow
  <1>9. TextsCopied(p, q2, R \cup {x}, Put(f, x, y))
    BY <1>1, <1>2, <1>6, TextsGrow
  <1>10. Packed(p, q2, R \cup {x})
    <2>1. /\ (R \cup {x}) \cap Subs(p) = (R \cap Subs(p)) \cup {x}
          /\ (R \cup {x}) \cap Justs(p) = R \cap Justs(p) /\ (R \cup {x}) \cap Prems(p) = R \cap Prems(p)
      BY <1>2
    <2> QED BY <1>1, <1>5, <1>6, <2>1 DEF Packed
  <1>11. WellFormed(q2)
    BY <1>6 DEF Extended
  <1> QED BY <1>3, <1>7, <1>8, <1>9, <1>10, <1>11 DEF Copied, s, y, q2

(* The subproofs around s are read as the subproofs around what s became.  *)
LEMMA AroundMapped ==
  ASSUME NEW p, WellFormed(p), NEW q, WellFormed(q), NEW R, NEW f, Mapped(p, q, R, f),
         NEW s \in Owners(p) \cap (R \cup {Root}), NEW t \in R \cap Subs(p)
  PROVE  f[t] \in transitive_parents(q, f[s]) \cup ({f[s]} \ {Root})
           <=> t \in transitive_parents(p, s) \cup ({s} \ {Root})
  <1> DEFINE A == transitive_parents(p, s)
             B == transitive_parents(q, f[s])
             C == {f[u] : u \in A}
             E == {u \in R \cap Subs(p) : f[u] \in B}
  <1>1. /\ f[Root] = Root /\ \A u, v \in R \cup {Root} : f[u] = f[v] => u = v
        /\ \A u \in Owners(p) \cap (R \cup {Root}) : f[u] \in Owners(q)
    BY OwnersMapped DEF Mapped
  <1>2. Root \notin Subs(p) /\ Root \notin Subs(q) /\ parent_of(p, Root) = Root /\ parent_of(q, Root) = Root
    <2>1. ASSUME NEW o, WellFormed(o) PROVE Root \notin Subs(o) /\ parent_of(o, Root) = Root
      <3>1. Root \notin Live(o) /\ Root \notin Subs(o)
        BY <2>1, Shape DEF Live, Owners
      <3>2. DOMAIN o.containing_subproof \subseteq Live(o)
        BY <2>1 DEF WellFormed, ProofType
      <3> QED BY <3>1, <3>2 DEF parent_of
    <2> QED BY <2>1
  <1>3. \A u \in Owners(p) \cap (R \cup {Root}) :
          /\ parent_of(p, u) \in Owners(p) \cap (R \cup {Root})
          /\ parent_of(q, f[u]) = f[parent_of(p, u)]
    BY <1>1, <1>2, Shape DEF Mapped
  <1>4. A \subseteq R \cap Subs(p)
    <2>1. /\ R \cap Subs(p) \in SUBSET Subs(p)
          /\ parent_of(p, s) # Root => parent_of(p, s) \in R \cap Subs(p)
          /\ \A u \in R \cap Subs(p) : parent_of(p, u) # Root => parent_of(p, u) \in R \cap Subs(p)
      BY <1>3 DEF Owners
    <2> DEFINE G == R \cap Subs(p)
    <2> HIDE DEF G
    <2>2. A \subseteq G
      BY <2>1, AroundIs DEF G
    <2> QED BY <2>2 DEF G
  <1>5. /\ parent_of(p, s) # Root => parent_of(p, s) \in A
        /\ \A u \in A : parent_of(p, u) # Root => parent_of(p, u) \in A
    <2>1. parent_of(p, s) # Root => parent_of(p, s) \in A
      BY AroundIs
    <2>2. ASSUME NEW u \in A, parent_of(p, u) # Root PROVE parent_of(p, u) \in A
      <3>1. parent_of(p, u) \in transitive_parents(p, u)
        BY <2>2, AroundIs
      <3> QED BY <3>1, AroundTrans
    <2> QED BY <2>1, <2>2
  <1>6. /\ B \subseteq Subs(q)
        /\ parent_of(q, f[s]) # Root => parent_of(q, f[s]) \in B
        /\ \A u \in B : parent_of(q, u) # Root => parent_of(q, u) \in B
    <2>1. B \subseteq Subs(q) /\ (parent_of(q, f[s]) # Root => parent_of(q, f[s]) \in B)
      BY AroundIs
    <2>2. ASSUME NEW u \in B, parent_of(q, u) # Root PROVE parent_of(q, u) \in B
      <3>1. parent_of(q, u) \in transitive_parents(q, u)
        BY <2>2, AroundIs
      <3> QED BY <3>1, AroundTrans
    <2> QED BY <2>1, <2>2
  <1>7. B \subseteq C
    <2>1. C \in SUBSET Subs(q)
      BY <1>4 DEF Mapped
    <2>2. parent_of(q, f[s]) # Root => parent_of(q, f[s]) \in C
      BY <1>1, <1>3, <1>5
    <2>3. \A u \in C : parent_of(q, u) # Root => parent_of(q, u) \in C
      <3> SUFFICES ASSUME NEW u \in A, parent_of(q, f[u]) # Root PROVE parent_of(q, f[u]) \in C
        OBVIOUS
      <3>1. u \in Owners(p) \cap (R \cup {Root})
        BY <1>4 DEF Owners
      <3>2. parent_of(p, u) \in A
        BY <1>1, <1>3, <1>5, <3>1
      <3> QED BY <1>3, <3>1, <3>2
    <2> HIDE DEF C
    <2> QED BY <2>1, <2>2, <2>3, AroundIs
  <1>8. A \subseteq E
    <2>1. E \in SUBSET Subs(p)
      OBVIOUS
    <2>2. parent_of(p, s) # Root => parent_of(p, s) \in E
      <3> SUFFICES ASSUME parent_of(p, s) # Root PROVE parent_of(p, s) \in E
        OBVIOUS
      <3>1. parent_of(p, s) \in R \cap Subs(p) /\ parent_of(q, f[s]) = f[parent_of(p, s)]
        BY <1>3 DEF Owners
      <3>2. f[parent_of(p, s)] # Root
        BY <1>1, <3>1
      <3> QED BY <1>6, <3>1, <3>2
    <2>3. ASSUME NEW u \in E, parent_of(p, u) # Root PROVE parent_of(p, u) \in E
      <3>1. u \in Owners(p) \cap (R \cup {Root})
        BY DEF Owners
      <3>2. parent_of(p, u) \in R \cap Subs(p) /\ parent_of(q, f[u]) = f[parent_of(p, u)]
        BY <1>3, <2>3, <3>1 DEF Owners
      <3>3. f[parent_of(p, u)] # Root
        BY <1>1, <2>3, <3>2
      <3> QED BY <1>6, <3>2, <3>3
    <2> HIDE DEF E
    <2> QED BY <2>1, <2>2, <2>3, AroundIs
  <1>9. f[t] \in B <=> t \in A
    BY <1>1, <1>4, <1>7, <1>8
  <1>10. (f[t] = f[s] /\ f[s] # Root) <=> (t = s /\ s # Root)
    BY <1>1, <1>2
  <1> QED BY <1>9, <1>10

(* A step in scope refers to no subproof around it; and the assumptions it *)
(* refers to are of subproofs around it.                                   *)
LEMMA RefsApart ==
  ASSUME NEW p, WellFormed(p), NEW x \in Justs(p), RefsInScope(p, x)
  PROVE  /\ p.just_map[x].sdeps \cap transitive_parents(p, x) = {}
         /\ \A r \in Subs(p) : \A d \in p.just_map[x].deps :
              d \in Entries(p.premise_list[r]) => r \in transitive_parents(p, x)
  <1>1. ASSUME NEW d \in p.just_map[x].deps \cup p.just_map[x].sdeps
        PROVE  \E u \in {x} \cup transitive_parents(p, x) : d \in Earlier(p, u)
    BY DEF RefsInScope, can_reference_dep, possible_deps_for_line
  <1>2. ASSUME NEW d \in p.just_map[x].sdeps PROVE d \notin transitive_parents(p, x)
    <2> SUFFICES ASSUME d \in transitive_parents(p, x) PROVE FALSE
      OBVIOUS
    <2>1. PICK u \in {x} \cup transitive_parents(p, x) : d \in Earlier(p, u)
      BY <1>1
    <2>2. parent_of(p, d) = parent_of(p, u) /\ d # u
      BY <2>1, EarlierIsListed
    <2>3. transitive_parents(p, d) = transitive_parents(p, u)
      <3>1. CASE parent_of(p, u) = Root
        <4>1. transitive_parents(p, d) = {}
          BY <2>2, <3>1, AroundIs
        <4>2. transitive_parents(p, u) = {}
          BY <3>1, AroundIs
        <4> QED BY <4>1, <4>2
      <3>2. CASE parent_of(p, u) # Root
        <4> DEFINE v == parent_of(p, u)
        <4>1. transitive_parents(p, d) = {v} \cup transitive_parents(p, v)
          BY <2>2, <3>2, AroundIs
        <4>2. transitive_parents(p, u) = {v} \cup transitive_parents(p, v)
          BY <3>2, AroundIs
        <4> QED BY <4>1, <4>2
      <3> QED BY <3>1, <3>2
    <2>4. d \notin transitive_parents(p, d) /\ u \notin transitive_parents(p, u)
      BY NotAroundItself
    <2> QED BY <2>2, <2>3, <2>4, AroundChain
  <1>3. ASSUME NEW r \in Subs(p), NEW d \in p.just_map[x].deps, d \in Entries(p.premise_list[r])
        PROVE  r \in transitive_parents(p, x)
    <2>1. PICK u \in {x} \cup transitive_parents(p, x) : d \in Earlier(p, u)
      BY <1>1
    <2>2. parent_of(p, d) = parent_of(p, u)
      BY <2>1, EarlierIsListed
    <2>3. parent_of(p, d) = r /\ r # Root
      BY <1>3, Shape DEF WellFormed, ListedOnce
    <2>4. parent_of(p, u) = r /\ parent_of(p, u) # Root
      BY <2>2, <2>3
    <2>5. transitive_parents(p, u) = {parent_of(p, u)} \cup transitive_parents(p, parent_of(p, u))
      BY <2>4, AroundIs
    <2>6. r \in transitive_parents(p, u)
      BY <2>4, <2>5
    <2> QED BY <2>6, AroundTrans
  <1> QED BY <1>2, <1>3

(* A step is read.  Its references to subproofs may be joined by some to   *)
(* subproofs around it, which add_step drops again.                        *)
LEMMA CopyStep ==
  ASSUME NEW p, WellFormed(p), Fits(p), InScope(p), NEW q, NEW R, NEW f, Copied(p, q, R, f),
         NEW x \in Justs(p) \ R, Needs(p, x) \subseteq R,
         NEW S \in SUBSET (R \cap Subs(p)), p.just_map[x].sdeps \subseteq S,
         S \ p.just_map[x].sdeps \subseteq transitive_parents(p, x),
         NEW just, just = [expr |-> Reopened(p.just_map[x].expr), deps |-> Image(f, p.just_map[x].deps),
                           sdeps |-> Image(f, S)]
  PROVE  /\ f[parent_of(p, x)] \in Owners(q)
         /\ Copied(p, add_step(q, f[parent_of(p, x)], just), R \cup {x}, Put(f, x, next_justkey(q)))
  <1> DEFINE s == f[parent_of(p, x)]
             y == next_justkey(q)
             q2 == add_step(q, s, just)
             J == p.just_map[x]
             around == transitive_parents(q, s) \cup ({s} \ {Root})
  <1>1. /\ WellFormed(q) /\ Mapped(p, q, R, f) /\ ListsCopied(p, q, R, f)
        /\ TextsCopied(p, q, R, f) /\ Packed(p, q, R)
    BY DEF Copied
  <1>2. /\ parent_of(p, x) \in (R \cup {Root}) \cap Owners(p) /\ Earlier(p, x) \subseteq R
        /\ x \in Live(p) \ R /\ x \notin Prems(p) /\ x \notin Subs(p)
        /\ J.deps \subseteq R /\ J.sdeps \subseteq R
    BY NeedsAre, Shape DEF Live, Lines, Owners
  <1>3. s \in Owners(q)
    BY <1>1, <1>2, OwnersMapped
  <1>4. J \in Steps(p)
    BY Shape
  <1>5. /\ HasNextKey(Justs(q), MaxSteps)
        /\ Justs(q) \cup {y} = Keys("just", Cardinality((R \cap Justs(p)) \cup {x}))
    <2>1. /\ MaxSteps \in Nat /\ Justs(p) \subseteq Keys("just", MaxSteps)
          /\ R \cap Justs(p) \subseteq Justs(p) /\ x \in Justs(p) \ (R \cap Justs(p))
          /\ Justs(q) = Keys("just", Cardinality(R \cap Justs(p)))
      BY <1>1, MaxLinesAssumption DEF Fits, Packed
    <2>2. ReadOf("just", MaxSteps, Justs(p), R \cap Justs(p), x, Justs(q))
      BY <2>1 DEF ReadOf
    <2> QED BY <2>2, KeyLeft DEF next_justkey
  <1>6. just \in Steps(q)
    <2>1. J.expr \in Exprs /\ J.deps \subseteq R \cap Lines(p)
      BY <1>2, <1>4 DEF Steps
    <2>2. \A d \in R \cap Lines(p) : f[d] \in Lines(q)
      BY <1>1 DEF Mapped, Lines
    <2>3. \A d \in S : f[d] \in Subs(q)
      BY <1>1 DEF Mapped
    <2>4. Image(f, J.deps) \subseteq Lines(q) /\ Image(f, S) \subseteq Subs(q)
      BY <2>1, <2>2, <2>3 DEF Image
    <2>5. Reopened(J.expr) \in Exprs
      BY <2>1, ReopenedIs
    <2> QED BY <2>4, <2>5 DEF Steps
  <1>7. \A t \in S : f[t] \in around <=> t \in transitive_parents(p, x)
    <2>1. transitive_parents(p, x)
            = transitive_parents(p, parent_of(p, x)) \cup ({parent_of(p, x)} \ {Root})
      <3>1. CASE parent_of(p, x) # Root
        BY <3>1, AroundIs
      <3>2. CASE parent_of(p, x) = Root
        <4>1. parent_of(p, Root) = Root
          <5>1. Root \notin Live(p) /\ DOMAIN p.containing_subproof \subseteq Live(p)
            BY Shape DEF WellFormed, ProofType, Live, Owners
          <5> QED BY <5>1 DEF parent_of
        <4>2. transitive_parents(p, Root) = {}
          BY <4>1, AroundIs
        <4>3. transitive_parents(p, x) = {}
          BY <3>2, AroundIs
        <4> QED BY <3>2, <4>2, <4>3
      <3> QED BY <3>1, <3>2
    <2>2. ASSUME NEW t \in R \cap Subs(p)
          PROVE  f[t] \in around
                   <=> t \in transitive_parents(p, parent_of(p, x)) \cup ({parent_of(p, x)} \ {Root})
      BY <1>1, <1>2, AroundMapped
    <2> QED BY <2>1, <2>2
  <1>8. Image(f, S) \ around = Image(f, J.sdeps)
    <2>1. J.sdeps \cap transitive_parents(p, x) = {}
      BY RefsApart DEF InScope
    <2>2. \A t \in S : f[t] \notin around <=> t \in J.sdeps
      BY <1>7, <2>1
    <2> HIDE DEF around, J
    <2>3. J.sdeps \subseteq S
      BY DEF J
    <2> QED BY <2>2, <2>3 DEF Image
  <1> HIDE DEF s, J, around
  <1>9. /\ Extended(q, q2, y, s) /\ Prems(q2) = Prems(q) /\ Subs(q2) = Subs(q)
        /\ Justs(q2) = Justs(q) \cup {y}
        /\ q2.premise_list = q.premise_list
        /\ \A t \in Owners(q) :
             q2.line_list[t] = IF t = s THEN Append(q.line_list[s], y) ELSE q.line_list[t]
        /\ q2.prem_map = q.prem_map
        /\ q2.just_map[y] = [expr |-> just.expr, deps |-> just.deps, sdeps |-> just.sdeps \ around]
        /\ \A z \in Justs(q) : q2.just_map[z] = q.just_map[z]
    BY <1>1, <1>3, <1>5, <1>6, StepAdds DEF around
  <1> HIDE DEF y, q2
  <1>10. q2.just_map[y] = Carried(p.just_map[x], f)
    <2>1. /\ just.expr = Reopened(J.expr) /\ just.deps = Image(f, J.deps) /\ just.sdeps = Image(f, S)
      BY DEF J
    <2> QED BY <1>8, <1>9, <2>1 DEF Carried, J
  <1>11. Mapped(p, q2, R \cup {x}, Put(f, x, y))
    <2>1. Extended(q, q2, y, f[parent_of(p, x)]) /\ y \in Justs(q2)
      BY <1>9 DEF s
    <2> QED BY <1>1, <1>2, <2>1, MapGrows
  <1>12. ListsCopied(p, q2, R \cup {x}, Put(f, x, y))
    <2>1. \A t \in Owners(q) :
            q2.premise_list[t] = IF t = f[parent_of(p, x)] /\ x \in Prems(p)
                                 THEN Append(q.premise_list[t], y) ELSE q.premise_list[t]
      BY <1>2, <1>9
    <2>2. \A t \in Owners(q) :
            q2.line_list[t] = IF t = f[parent_of(p, x)] /\ x \notin Prems(p)
                              THEN Append(q.line_list[t], y) ELSE q.line_list[t]
      BY <1>2, <1>9 DEF s
    <2>3. WellFormed(q) /\ Mapped(p, q, R, f) /\ ListsCopied(p, q, R, f)
      BY <1>1
    <2>4. parent_of(p, x) \in R \cup {Root} /\ Earlier(p, x) \subseteq R /\ x \in Live(p) \ R
          /\ x \notin Subs(p)
      BY <1>2
    <2> QED BY <2>1, <2>2, <2>3, <2>4, ListsGrow
  <1>13. TextsCopied(p, q2, R \cup {x}, Put(f, x, y))
    <2>1. /\ \A z \in Prems(q) : q2.prem_map[z] = q.prem_map[z]
          /\ \A z \in Justs(q) : q2.just_map[z] = q.just_map[z]
      BY <1>9
    <2> QED BY <1>1, <1>2, <1>10, <2>1, TextsGrow DEF J
  <1>14. Packed(p, q2, R \cup {x})
    <2>1. /\ (R \cup {x}) \cap Justs(p) = (R \cap Justs(p)) \cup {x}
          /\ (R \cup {x}) \cap Subs(p) = R \cap Subs(p) /\ (R \cup {x}) \cap Prems(p) = R \cap Prems(p)
      BY <1>2
    <2> QED BY <1>1, <1>5, <1>9, <2>1 DEF Packed
  <1>15. WellFormed(q2)
    BY <1>9 DEF Extended
  <1> QED BY <1>3, <1>11, <1>12, <1>13, <1>14, <1>15 DEF Copied, s, y, q2

-----------------------------------------------------------------------------
(* What the reader knows.                                                  *)

(* Map m takes the numbers of the things S, and no others, to what they    *)
(* became.  The reader has one such map for lines and one for subproofs.   *)
Known(p, S, f, m) ==
  /\ \A z \in S : LinesBefore(p, z) \in DOMAIN m /\ m[LinesBefore(p, z)] = f[z]
  /\ \A n \in DOMAIN m : \E z \in S : n = LinesBefore(p, z)

(* It gets to know one more, or reads something else.                      *)
LEMMA KnownGrows ==
  ASSUME NEW p, NEW S, NEW f, NEW m, Known(p, S, f, m), S \subseteq DOMAIN f, NEW x, x \notin S, NEW y
  PROVE  /\ Known(p, S, Put(f, x, y), m)
         /\ (\A z \in S : LinesBefore(p, z) # LinesBefore(p, x)) =>
              Known(p, S \cup {x}, Put(f, x, y), Put(m, LinesBefore(p, x), y))
  <1> DEFINE g == Put(f, x, y)
             k == LinesBefore(p, x)
             o == Put(m, k, y)
  <1>1. g[x] = y /\ \A z \in S : g[z] = f[z]
    BY DEF Put
  <1>2. DOMAIN o = DOMAIN m \cup {k} /\ o[k] = y /\ \A n \in DOMAIN m : n # k => o[n] = m[n]
    BY DEF Put
  <1> HIDE DEF g, k, o
  <1>3. Known(p, S, g, m)
    BY <1>1 DEF Known
  <1>4. ASSUME \A z \in S : LinesBefore(p, z) # k PROVE Known(p, S \cup {x}, g, o)
    BY <1>1, <1>2, <1>4 DEF Known, k
  <1> QED BY <1>3, <1>4 DEF g, k, o

(* The numbers by which step x refers, and what they are to a reader that  *)
(* knows things by m.                                                      *)
RefNumbers(p, x) == {LinesBefore(p, d) : d \in p.just_map[x].deps \cup p.just_map[x].sdeps}
ReadAs(m, numbers) == {m[n] : n \in numbers \cap DOMAIN m}

(* The reader knows the lines and the subproofs R by their numbers.        *)
Knows(p, R, f, lr, ls) ==
  R \subseteq Live(p) /\ Known(p, R \cap Lines(p), f, lr) /\ Known(p, R \cap Subs(p), f, ls)

(* The references of x were read and the assumptions of the subproofs it   *)
(* refers to were not.                                                     *)
Resolvable(p, R, x) ==
  /\ p.just_map[x].deps \subseteq R /\ p.just_map[x].sdeps \subseteq R
  /\ Spoils(p, x) \cap R = {}

(* The numbers of such a step stand for its lines, and for its subproofs   *)
(* with some around it.                                                    *)
LEMMA RefsResolved ==
  ASSUME NEW p, WellFormed(p), Assumes(p), InScope(p), IsFiniteSet(Lines(p)),
         NEW R, NEW f, NEW lr, NEW ls, Knows(p, R, f, lr, ls),
         NEW x \in Justs(p), Resolvable(p, R, x)
  PROVE  /\ ReadAs(lr, RefNumbers(p, x)) = Image(f, p.just_map[x].deps)
         /\ \E S \in SUBSET (R \cap Subs(p)) :
              /\ p.just_map[x].sdeps \subseteq S
              /\ S \ p.just_map[x].sdeps \subseteq transitive_parents(p, x)
              /\ ReadAs(ls, RefNumbers(p, x)) = Image(f, S)
  <1> DEFINE N == RefNumbers(p, x)
             D == p.just_map[x].deps
             E == p.just_map[x].sdeps
             S == {r \in R \cap Subs(p) : LinesBefore(p, r) \in N}
  <1>a. Known(p, R \cap Lines(p), f, lr) /\ Known(p, R \cap Subs(p), f, ls) /\ R \subseteq Live(p)
    BY DEF Knows
  <1>1. D \subseteq R \cap Lines(p) /\ E \subseteq R \cap Subs(p)
    BY Shape DEF Steps, Resolvable
  <1>2. \A d \in D \cup E : LinesBefore(p, d) \in N
    BY DEF RefNumbers
  <1>3. ASSUME NEW d \in D, NEW z \in Lines(p), LinesBefore(p, z) = LinesBefore(p, d) PROVE z = d
    BY <1>1, <1>3, LineNumbersDiffer
  <1>4. ASSUME NEW d \in E, NEW z \in R \cap Lines(p), LinesBefore(p, z) = LinesBefore(p, d)
        PROVE  FALSE
    <2>1. z \in Entries(p.premise_list[d])
      BY <1>1, <1>4, NumbersTell
    <2> QED BY <2>1 DEF Spoils, Resolvable
  <1>5. ASSUME NEW d \in E, NEW r \in Subs(p), LinesBefore(p, r) = LinesBefore(p, d) PROVE r = d
    BY <1>1, <1>5, NumbersTell
  <1>6. ASSUME NEW d \in D, NEW r \in Subs(p), LinesBefore(p, r) = LinesBefore(p, d)
        PROVE  r \in transitive_parents(p, x)
    <2>1. d \in Entries(p.premise_list[r])
      BY <1>1, <1>6, NumbersTell
    <2> QED BY <2>1, RefsApart DEF InScope
  <1>7. \A n \in N : \E d \in D \cup E : n = LinesBefore(p, d)
    BY DEF RefNumbers
  <1> HIDE DEF D, E, N
  <1>8. ASSUME NEW n \in N \cap DOMAIN lr PROVE lr[n] \in Image(f, D)
    <2>1. PICK z \in R \cap Lines(p) : n = LinesBefore(p, z)
      BY <1>a DEF Known
    <2>2. PICK d \in D \cup E : n = LinesBefore(p, d)
      BY <1>7
    <2>3. z \in D
      BY <1>3, <1>4, <2>1, <2>2
    <2>4. lr[n] = f[z]
      BY <1>a, <2>1 DEF Known
    <2> QED BY <2>3, <2>4 DEF Image
  <1>9. ASSUME NEW d \in D PROVE \E n \in N \cap DOMAIN lr : f[d] = lr[n]
    BY <1>a, <1>1, <1>2 DEF Known
  <1>10. ReadAs(lr, N) = Image(f, D)
    BY <1>8, <1>9 DEF Image, ReadAs
  <1>11. E \subseteq S
    BY <1>1, <1>2
  <1>12. ASSUME NEW r \in S \ E PROVE r \in transitive_parents(p, x)
    <2>1. PICK d \in D \cup E : LinesBefore(p, r) = LinesBefore(p, d)
      BY <1>7
    <2> QED BY <1>5, <1>6, <2>1
  <1>13. ASSUME NEW n \in N \cap DOMAIN ls PROVE ls[n] \in Image(f, S)
    <2>1. PICK r \in R \cap Subs(p) : n = LinesBefore(p, r)
      BY <1>a DEF Known
    <2>2. r \in S /\ ls[n] = f[r]
      BY <1>a, <2>1 DEF Known
    <2> QED BY <2>2 DEF Image
  <1>14. ASSUME NEW r \in S PROVE \E n \in N \cap DOMAIN ls : f[r] = ls[n]
    BY <1>a DEF Known
  <1> HIDE DEF S
  <1>15. ReadAs(ls, N) = Image(f, S)
    BY <1>13, <1>14 DEF Image, ReadAs
  <1>16. S \in SUBSET (R \cap Subs(p))
    BY DEF S
  <1>17. S \ E \subseteq transitive_parents(p, x)
    BY <1>12
  <1> QED BY <1>10, <1>11, <1>15, <1>16, <1>17 DEF D, E, N

-----------------------------------------------------------------------------
(* Reading.                                                                *)

(* The ids of what was read.                                               *)
IdsKnown(sub, R, f, id) ==
  \A i \in DOMAIN sub : sub[i] \in R \cup {Root} => i \in DOMAIN id /\ id[i] = f[sub[i]]

(* The elements els tell of xs, which are to be read; R was read, and f    *)
(* tells as what of q; id, lr and ls are the reader's three maps.          *)
Reads(p, els, n, sub, xs, q, R, f, id, lr, ls) ==
  /\ Meaning(p, n, sub) /\ Told(p, sub, els, xs) /\ Ordered(p, R, xs)
  /\ R \cup Entries(xs) = Live(p)
  /\ Copied(p, q, R, f) /\ IdsKnown(sub, R, f, id)
  /\ Known(p, R \cap Lines(p), f, lr) /\ Known(p, R \cap Subs(p), f, ls)

(* The first of an order, and the rest.                                    *)
LEMMA OrderTail ==
  ASSUME NEW p, NEW R, NEW xs, Ordered(p, R, xs), xs # <<>>
  PROVE  /\ xs[1] \in Live(p) \ R /\ Needs(p, xs[1]) \subseteq R /\ Spoils(p, xs[1]) \cap R = {}
         /\ Ordered(p, R \cup {xs[1]}, Tail(xs))
         /\ Entries(xs) = {xs[1]} \cup Entries(Tail(xs))
  <1> DEFINE x == xs[1]
             ys == Tail(xs)
             S == R \cup {x}
  <1>1. /\ xs \in Seq(Live(p)) /\ NoRepeats(xs) /\ Entries(xs) \cap R = {}
        /\ \A i \in DOMAIN xs : /\ Needs(p, xs[i]) \subseteq Behind(R, xs, i)
                                /\ Spoils(p, xs[i]) \cap Behind(R, xs, i) = {}
    BY DEF Ordered
  <1>2. Len(xs) \in Nat /\ Len(xs) >= 1 /\ DOMAIN xs = 1 .. Len(xs) /\ 1 \in DOMAIN xs
    BY <1>1
  <1>3. /\ ys \in Seq(Live(p)) /\ Len(ys) = Len(xs) - 1 /\ DOMAIN ys = 1 .. Len(xs) - 1
        /\ \A i \in 1 .. Len(xs) - 1 : ys[i] = xs[i + 1]
    BY <1>1, <1>2
  <1>4. Behind(R, xs, 1) = R
    BY DEF Behind
  <1>5. x \in Entries(xs) /\ x \in Live(p)
    BY <1>1, <1>2 DEF Entries
  <1> HIDE DEF ys
  <1>6. ASSUME NEW i \in DOMAIN ys
        PROVE  i + 1 \in DOMAIN xs /\ ys[i] = xs[i + 1] /\ i + 1 # 1
    BY <1>2, <1>3
  <1>7. ASSUME NEW i \in DOMAIN ys PROVE Behind(S, ys, i) = Behind(R, xs, i + 1)
    <2>1. ASSUME NEW z \in Behind(S, ys, i) PROVE z \in Behind(R, xs, i + 1)
      <3>1. CASE z \in R
        BY <3>1 DEF Behind
      <3>2. CASE z = x
        <4>1. 1 \in 1 .. (i + 1) - 1
          BY <1>3
        <4> QED BY <3>2, <4>1 DEF Behind
      <3>3. CASE \E k \in 1 .. i - 1 : z = ys[k]
        <4>1. PICK k \in 1 .. i - 1 : z = ys[k]
          BY <3>3
        <4>2. k \in DOMAIN ys /\ k + 1 \in 1 .. (i + 1) - 1
          BY <1>3
        <4>3. z = xs[k + 1]
          BY <1>6, <4>1, <4>2
        <4> QED BY <4>2, <4>3 DEF Behind
      <3> QED BY <3>1, <3>2, <3>3 DEF Behind
    <2>2. ASSUME NEW z \in Behind(R, xs, i + 1) PROVE z \in Behind(S, ys, i)
      <3>1. CASE z \in R
        BY <3>1 DEF Behind
      <3>2. CASE \E k \in 1 .. (i + 1) - 1 : z = xs[k]
        <4>1. PICK k \in 1 .. (i + 1) - 1 : z = xs[k]
          BY <3>2
        <4>2. CASE k = 1
          BY <4>1, <4>2 DEF Behind
        <4>3. CASE k # 1
          <5>1. k - 1 \in 1 .. i - 1 /\ k - 1 \in DOMAIN ys /\ (k - 1) + 1 = k
            BY <1>3, <4>3
          <5>2. z = ys[k - 1]
            BY <1>6, <4>1, <5>1
          <5> QED BY <5>1, <5>2 DEF Behind
        <4> QED BY <4>2, <4>3
      <3> QED BY <3>1, <3>2 DEF Behind
    <2> QED BY <2>1, <2>2
  <1>8. NoRepeats(ys)
    <2> SUFFICES ASSUME NEW i \in DOMAIN ys, NEW j \in DOMAIN ys, ys[i] = ys[j] PROVE i = j
      BY DEF NoRepeats
    <2>1. i + 1 = j + 1
      BY <1>1, <1>6 DEF NoRepeats
    <2> QED BY <1>3, <2>1
  <1>9. Entries(xs) = {x} \cup Entries(ys)
    <2>1. ASSUME NEW i \in DOMAIN xs PROVE xs[i] \in {x} \cup Entries(ys)
      <3>1. CASE i = 1
        BY <3>1
      <3>2. CASE i # 1
        <4>1. i - 1 \in DOMAIN ys /\ (i - 1) + 1 = i
          BY <1>2, <1>3, <3>2
        <4>2. ys[i - 1] = xs[i]
          BY <1>6, <4>1
        <4> QED BY <4>1, <4>2 DEF Entries
      <3> QED BY <3>1, <3>2
    <2>2. ASSUME NEW i \in DOMAIN ys PROVE ys[i] \in Entries(xs)
      BY <1>6 DEF Entries
    <2> QED BY <1>5, <2>1, <2>2 DEF Entries
  <1>10. x \notin Entries(ys)
    <2>1. \A i \in DOMAIN ys : ys[i] # x
      BY <1>1, <1>2, <1>6 DEF NoRepeats
    <2> QED BY <2>1 DEF Entries
  <1>11. Entries(ys) \cap S = {}
    BY <1>1, <1>9, <1>10
  <1>12. \A i \in DOMAIN ys : /\ Needs(p, ys[i]) \subseteq Behind(S, ys, i)
                              /\ Spoils(p, ys[i]) \cap Behind(S, ys, i) = {}
    BY <1>1, <1>6, <1>7
  <1>13. Ordered(p, S, ys)
    BY <1>3, <1>8, <1>11, <1>12 DEF Ordered
  <1>14. Needs(p, x) \subseteq R /\ Spoils(p, x) \cap R = {}
    BY <1>1, <1>2, <1>4
  <1>15. x \notin R
    BY <1>1, <1>5
  <1> QED BY <1>5, <1>9, <1>13, <1>14, <1>15 DEF ys

(* The first element tells of the first thing, and the rest of the rest.   *)
LEMMA ToldTail ==
  ASSUME NEW p, NEW sub, NEW els, NEW T, NEW xs \in Seq(T), Told(p, sub, els, xs)
  PROVE  /\ els = <<>> <=> xs = <<>>
         /\ xs # <<>> => Tells(p, sub, els[1], xs[1]) /\ Told(p, sub, Tail(els), Tail(xs))
  <1>1. /\ els \in Seq(Entries(els)) /\ Len(els) = Len(xs)
        /\ \A i \in DOMAIN xs : Tells(p, sub, els[i], xs[i])
    BY DEF Told
  <1>2. els = <<>> <=> xs = <<>>
    BY <1>1
  <1>3. ASSUME xs # <<>> PROVE Tells(p, sub, els[1], xs[1]) /\ Told(p, sub, Tail(els), Tail(xs))
    <2>1. Len(xs) \in Nat /\ Len(xs) >= 1 /\ DOMAIN xs = 1 .. Len(xs)
      BY <1>3
    <2>2. /\ Len(Tail(xs)) = Len(xs) - 1 /\ DOMAIN Tail(xs) = 1 .. Len(xs) - 1
          /\ \A i \in 1 .. Len(xs) - 1 : Tail(xs)[i] = xs[i + 1]
      BY <1>3
    <2>3. els # <<>>
      BY <1>2, <1>3
    <2>4. /\ Tail(els) \in Seq(Entries(els)) /\ Len(Tail(els)) = Len(els) - 1
          /\ \A i \in 1 .. Len(els) - 1 : Tail(els)[i] = els[i + 1]
      BY <1>1, <2>3
    <2>5. Tail(els) \in Seq(Entries(Tail(els)))
      BY <2>4, SeqOverEntries
    <2>6. ASSUME NEW i \in 1 .. Len(xs) - 1 PROVE Tells(p, sub, Tail(els)[i], Tail(xs)[i])
      <3>1. i + 1 \in DOMAIN xs
        BY <2>1
      <3> QED BY <1>1, <2>2, <2>4, <3>1
    <2>7. Len(Tail(els)) = Len(Tail(xs))
      BY <1>1, <2>2, <2>4
    <2>8. Tells(p, sub, els[1], xs[1])
      BY <1>1, <2>1
    <2> QED BY <2>2, <2>5, <2>6, <2>7, <2>8 DEF Told
  <1> QED BY <1>2, <1>3

(* Ids stay known when a line is read.                                     *)
LEMMA IdsStay ==
  ASSUME NEW p, NEW n, NEW sub, Meaning(p, n, sub), WellFormed(p),
         NEW R, NEW f, R \cup {Root} \subseteq DOMAIN f,
         NEW id, IdsKnown(sub, R, f, id), NEW x, x \notin R \cup {Root}, NEW y
  PROVE  /\ x \in Lines(p) => IdsKnown(sub, R \cup {x}, Put(f, x, y), id)
         /\ \A i \in DOMAIN sub : sub[i] = x =>
              IdsKnown(sub, R \cup {x}, Put(f, x, y), Put(id, i, y))
  <1> DEFINE g == Put(f, x, y)
  <1>1. g[x] = y /\ \A z \in R \cup {Root} : g[z] = f[z]
    BY DEF Put
  <1>2. DOMAIN sub = 0 .. n - 1 /\ \A i \in DOMAIN sub : sub[i] \in Owners(p)
    BY DEF Meaning
  <1>3. \A i, j \in DOMAIN sub : sub[i] = sub[j] => i = j
    BY <1>2 DEF Meaning
  <1> HIDE DEF g
  <1>4. ASSUME x \in Lines(p) PROVE IdsKnown(sub, R \cup {x}, g, id)
    <2>1. x \notin Owners(p)
      BY <1>4, Shape
    <2> QED BY <1>1, <1>2, <2>1 DEF IdsKnown
  <1>5. ASSUME NEW i \in DOMAIN sub, sub[i] = x PROVE IdsKnown(sub, R \cup {x}, g, Put(id, i, y))
    <2> DEFINE o == Put(id, i, y)
    <2>1. DOMAIN o = DOMAIN id \cup {i} /\ o[i] = y /\ \A k \in DOMAIN id : k # i => o[k] = id[k]
      BY DEF Put
    <2> HIDE DEF o
    <2>2. ASSUME NEW k \in DOMAIN sub, sub[k] \in (R \cup {x}) \cup {Root}
          PROVE  k \in DOMAIN o /\ o[k] = g[sub[k]]
      <3>1. CASE k = i
        BY <1>1, <1>5, <2>1, <3>1
      <3>2. CASE k # i
        <4>1. sub[k] # x
          BY <1>3, <1>5, <3>2
        <4>2. sub[k] \in R \cup {Root}
          BY <2>2, <4>1
        <4>3. k \in DOMAIN id /\ id[k] = f[sub[k]]
          BY <4>2 DEF IdsKnown
        <4> QED BY <1>1, <2>1, <3>2, <4>2, <4>3
      <3> QED BY <3>1, <3>2
    <2> QED BY <2>2 DEF IdsKnown, o
  <1> QED BY <1>4, <1>5 DEF g

(* One step of reading.                                                    *)
LEMMA ReadStepOf ==
  ASSUME WellFormed(proof), Assumes(proof), InScope(proof), IsFiniteSet(Lines(proof)), Fits(proof),
         NEW n, NEW sub, NEW xs, NEW R, NEW f,
         Reads(proof, file, n, sub, xs, opened, R, f, ids, line_refs, lines_to_subs),
         ReadElement
  PROVE  \E ys, S, g :
           Reads(proof, file', n, sub, ys, opened', S, g, ids', line_refs', lines_to_subs')
  <1> DEFINE p == proof
             el == file[1]
             x == xs[1]
             S == R \cup {x}
             s == parent_of(p, x)
             k == LinesBefore(p, x)
  <1>1. /\ Meaning(p, n, sub) /\ Told(p, sub, file, xs) /\ Ordered(p, R, xs)
        /\ R \cup Entries(xs) = Live(p) /\ Copied(p, opened, R, f) /\ IdsKnown(sub, R, f, ids)
        /\ Known(p, R \cap Lines(p), f, line_refs) /\ Known(p, R \cap Subs(p), f, lines_to_subs)
    BY DEF Reads
  <1>2. file # <<>> /\ file' = Tail(file)
    BY DEF ReadElement
  <1>3. xs \in Seq(Live(p))
    BY <1>1 DEF Ordered
  <1>4. xs # <<>> /\ Tells(p, sub, el, x) /\ Told(p, sub, file', Tail(xs))
    <2>1. Told(p, sub, file, xs)
      BY <1>1
    <2>2. /\ file = <<>> <=> xs = <<>>
          /\ xs # <<>> => Tells(p, sub, file[1], xs[1]) /\ Told(p, sub, Tail(file), Tail(xs))
      BY <1>3, <2>1, ToldTail
    <2> QED BY <1>2, <2>2
  <1>5. /\ x \in Live(p) \ R /\ Needs(p, x) \subseteq R /\ Spoils(p, x) \cap R = {}
        /\ Ordered(p, S, Tail(xs)) /\ Entries(xs) = {x} \cup Entries(Tail(xs))
    BY <1>1, <1>4, OrderTail
  <1>6. S \cup Entries(Tail(xs)) = Live(p)
    BY <1>1, <1>5
  <1>7. /\ R \subseteq Live(p) /\ DOMAIN f = R \cup {Root} /\ Root \notin Live(p)
        /\ x \notin R \cup {Root} /\ R \cup {Root} \subseteq DOMAIN f
    BY <1>1, <1>5, Shape DEF Copied, Mapped, Live, Owners
  <1>8. /\ s \in R \cup {Root}
        /\ x \in Justs(p) => p.just_map[x].deps \subseteq R /\ p.just_map[x].sdeps \subseteq R
    BY <1>5, NeedsAre
  <1>9. ids[el.in] = f[s] /\ el.num = k
    BY <1>1, <1>4, <1>8 DEF Tells, IdsKnown
  <1>10. \/ x \in Prems(p) /\ el.is = "assumption" /\ el.raw = p.prem_map[x].says
         \/ /\ x \in Justs(p) /\ el.is = "step" /\ el.raw = p.just_map[x].expr.says
            /\ el.rule = to_serialized_name(p.just_map[x].expr.rule)
            /\ el.premises = {LinesBefore(p, d) : d \in p.just_map[x].deps \cup p.just_map[x].sdeps}
         \/ x \in Subs(p) /\ el.is = "subproof" /\ el.id \in DOMAIN sub /\ sub[el.id] = x
    BY <1>4 DEF Tells
  <1>11. ReadAssumption(el) \/ ReadSubproof(el) \/ ReadStep(el)
    BY DEF ReadElement
  <1> HIDE DEF x, s, k, el
  <1>12. ASSUME NEW y, Copied(p, opened', S, Put(f, x, y)), IdsKnown(sub, S, Put(f, x, y), ids'),
                Known(p, S \cap Lines(p), Put(f, x, y), line_refs'),
                Known(p, S \cap Subs(p), Put(f, x, y), lines_to_subs')
         PROVE  Reads(p, file', n, sub, Tail(xs), opened', S, Put(f, x, y), ids', line_refs', lines_to_subs')
    BY <1>1, <1>4, <1>5, <1>6, <1>12 DEF Reads
  <1>13. ASSUME NEW y
         PROVE  /\ x \in Lines(p) => /\ IdsKnown(sub, S, Put(f, x, y), ids)
                                     /\ Known(p, S \cap Lines(p), Put(f, x, y), Put(line_refs, k, y))
                                     /\ Known(p, S \cap Subs(p), Put(f, x, y), lines_to_subs)
                /\ x \in Subs(p) =>
                     /\ \A i \in DOMAIN sub : sub[i] = x => IdsKnown(sub, S, Put(f, x, y), Put(ids, i, y))
                     /\ Known(p, S \cap Lines(p), Put(f, x, y), line_refs)
                     /\ Known(p, S \cap Subs(p), Put(f, x, y), Put(lines_to_subs, k, y))
    <2>1. Lines(p) \cap Subs(p) = {}
      BY Shape DEF Owners
    <2>2. x \notin R /\ R \cap Lines(p) \subseteq DOMAIN f /\ R \cap Subs(p) \subseteq DOMAIN f
      BY <1>7
    <2>3. ASSUME x \in Lines(p)
          PROVE  /\ Known(p, S \cap Lines(p), Put(f, x, y), Put(line_refs, k, y))
                 /\ Known(p, S \cap Subs(p), Put(f, x, y), lines_to_subs)
      <3>1. S \cap Lines(p) = (R \cap Lines(p)) \cup {x} /\ S \cap Subs(p) = R \cap Subs(p)
        BY <2>1, <2>3
      <3>2. \A z \in R \cap Lines(p) : LinesBefore(p, z) # LinesBefore(p, x)
        BY <2>2, <2>3, LineNumbersDiffer
      <3>3. Known(p, R \cap Subs(p), Put(f, x, y), lines_to_subs)
        BY <1>1, <2>2, KnownGrows
      <3>4. Known(p, (R \cap Lines(p)) \cup {x}, Put(f, x, y), Put(line_refs, LinesBefore(p, x), y))
        BY <1>1, <2>2, <3>2, KnownGrows
      <3> QED BY <3>1, <3>3, <3>4 DEF k
    <2>4. ASSUME x \in Subs(p)
          PROVE  /\ Known(p, S \cap Lines(p), Put(f, x, y), line_refs)
                 /\ Known(p, S \cap Subs(p), Put(f, x, y), Put(lines_to_subs, k, y))
      <3>1. S \cap Subs(p) = (R \cap Subs(p)) \cup {x} /\ S \cap Lines(p) = R \cap Lines(p)
        BY <2>1, <2>4
      <3>2. \A z \in R \cap Subs(p) : LinesBefore(p, z) # LinesBefore(p, x)
        BY <2>2, <2>4, NumbersTell
      <3>3. Known(p, R \cap Lines(p), Put(f, x, y), line_refs)
        BY <1>1, <2>2, KnownGrows
      <3>4. Known(p, (R \cap Subs(p)) \cup {x}, Put(f, x, y), Put(lines_to_subs, LinesBefore(p, x), y))
        BY <1>1, <2>2, <3>2, KnownGrows
      <3> QED BY <3>1, <3>3, <3>4 DEF k
    <2>5. /\ x \in Lines(p) => IdsKnown(sub, S, Put(f, x, y), ids)
          /\ \A i \in DOMAIN sub : sub[i] = x => IdsKnown(sub, S, Put(f, x, y), Put(ids, i, y))
      BY <1>1, <1>7, IdsStay
    <2> QED BY <2>3, <2>4, <2>5
  <1>14. CASE x \in Prems(p) /\ el.is = "assumption" /\ el.raw = p.prem_map[x].says
    <2> DEFINE y == next_premkey(opened)
    <2>1. ReadAssumption(el)
      BY <1>11, <1>14 DEF ReadSubproof, ReadStep
    <2>2. /\ opened' = add_premise(opened, f[s], premise(p.prem_map[x].says)) /\ line_refs' = Put(line_refs, k, y)
          /\ ids' = ids /\ lines_to_subs' = lines_to_subs
      BY <1>9, <1>14, <2>1 DEF ReadAssumption
    <2>3. Copied(p, opened', S, Put(f, x, y))
      BY <1>1, <1>5, <1>14, <2>2, CopyPremise DEF s
    <2> HIDE DEF y
    <2>4. x \in Lines(p)
      BY <1>14 DEF Lines
    <2> QED BY <1>12, <1>13, <2>2, <2>3, <2>4
  <1>15. CASE x \in Subs(p) /\ el.is = "subproof" /\ el.id \in DOMAIN sub /\ sub[el.id] = x
    <2> DEFINE y == next_subkey(opened)
    <2>1. ReadSubproof(el)
      BY <1>11, <1>15 DEF ReadAssumption, ReadStep
    <2>2. /\ opened' = add_subproof(opened, f[s]) /\ lines_to_subs' = Put(lines_to_subs, k, y)
          /\ ids' = Put(ids, el.id, y) /\ line_refs' = line_refs
      BY <1>9, <2>1 DEF ReadSubproof
    <2>3. Copied(p, opened', S, Put(f, x, y))
      BY <1>1, <1>5, <1>15, <2>2, CopySubproof DEF s
    <2> HIDE DEF y
    <2>4. IdsKnown(sub, S, Put(f, x, y), ids')
      BY <1>13, <1>15, <2>2
    <2> QED BY <1>12, <1>13, <1>15, <2>2, <2>3, <2>4
  <1>16. CASE /\ x \in Justs(p) /\ el.is = "step" /\ el.raw = p.just_map[x].expr.says
              /\ el.rule = to_serialized_name(p.just_map[x].expr.rule)
              /\ el.premises = {LinesBefore(p, d) : d \in p.just_map[x].deps \cup p.just_map[x].sdeps}
    <2> DEFINE y == next_justkey(opened)
               N == el.premises
               J == p.just_map[x]
    <2>1. ReadStep(el)
      BY <1>11, <1>16 DEF ReadAssumption, ReadSubproof
    <2>2. /\ opened' = add_step(opened, ids[el.in],
                         [expr |-> Reopened(J.expr), deps |-> Resolved(N).deps, sdeps |-> Resolved(N).sdeps])
          /\ line_refs' = Put(line_refs, el.num, y)
          /\ ids' = ids /\ lines_to_subs' = lines_to_subs
      BY <1>16, <2>1 DEF ReadStep, Reopened
    <2>3. /\ Resolved(N).deps = ReadAs(line_refs, N)
          /\ Resolved(N).sdeps = ReadAs(lines_to_subs, N)
      BY DEF Resolved, ReadAs
    <2> HIDE DEF N
    <2>4. /\ N = RefNumbers(p, x) /\ x \in Justs(p) /\ Spoils(p, x) \cap R = {}
          /\ J.deps \subseteq R /\ J.sdeps \subseteq R /\ R \in SUBSET Live(p)
      BY <1>5, <1>7, <1>8, <1>16 DEF N, RefNumbers
    <2>5. /\ Resolved(N).deps = Image(f, J.deps)
          /\ \E T \in SUBSET (R \cap Subs(p)) :
               /\ J.sdeps \subseteq T /\ T \ J.sdeps \subseteq transitive_parents(p, x)
               /\ Resolved(N).sdeps = Image(f, T)
      <3>1. /\ Known(p, R \cap Lines(p), f, line_refs)
            /\ Known(p, R \cap Subs(p), f, lines_to_subs)
        BY <1>1
      <3>2. /\ ReadAs(line_refs, RefNumbers(p, x)) = Image(f, p.just_map[x].deps)
            /\ \E T \in SUBSET (R \cap Subs(p)) :
                 /\ p.just_map[x].sdeps \subseteq T
                 /\ T \ p.just_map[x].sdeps \subseteq transitive_parents(p, x)
                 /\ ReadAs(lines_to_subs, RefNumbers(p, x)) = Image(f, T)
        <4>1. Knows(p, R, f, line_refs, lines_to_subs)
          BY <2>4, <3>1 DEF Knows
        <4>2. x \in Justs(p) /\ Resolvable(p, R, x)
          BY <2>4 DEF Resolvable
        <4> QED BY <4>1, <4>2, RefsResolved
      <3> QED BY <2>3, <2>4, <3>2
    <2>6. PICK T \in SUBSET (R \cap Subs(p)) :
               /\ J.sdeps \subseteq T /\ T \ J.sdeps \subseteq transitive_parents(p, x)
               /\ Resolved(N).sdeps = Image(f, T)
      BY <2>5
    <2> DEFINE just == [expr |-> Reopened(J.expr), deps |-> Image(f, J.deps), sdeps |-> Image(f, T)]
    <2>7. opened' = add_step(opened, f[s], just)
      BY <1>9, <1>16, <2>2, <2>5, <2>6
    <2>8. Copied(p, opened', S, Put(f, x, y))
      <3>1. x \in Justs(p) \ R /\ Copied(p, opened, R, f) /\ Needs(p, x) \subseteq R
        BY <1>1, <1>5, <1>16
      <3>2. Copied(p, add_step(opened, f[parent_of(p, x)], just), R \cup {x}, Put(f, x, next_justkey(opened)))
        BY <2>6, <3>1, CopyStep
      <3> QED BY <2>7, <3>2 DEF s
    <2> HIDE DEF y
    <2>9. x \in Lines(p) /\ line_refs' = Put(line_refs, k, y)
      BY <1>9, <1>16, <2>2 DEF Lines
    <2> QED BY <1>12, <1>13, <2>2, <2>8, <2>9
  <1> QED BY <1>10, <1>14, <1>15, <1>16

(* At the start of reading nothing is read.                                *)
LEMMA ReadStart ==
  ASSUME NEW p, WellFormed(p), NEW els, NEW n, NEW sub, NEW xs, Writes(p, els, <<>>, n, sub, xs)
  PROVE  Reads(p, els, n, sub, xs, new, {}, [r \in {Root} |-> Root], [id \in {0} |-> Root], <<>>, <<>>)
  <1> DEFINE f == [r \in {Root} |-> Root]
             id0 == [id \in {0} |-> Root]
  <1>1. Meaning(p, n, sub) /\ Told(p, sub, els, xs) /\ Ordered(p, {}, xs)
    BY DEF Writes
  <1>2. Entries(xs) = Live(p)
    BY AllWritten
  <1>3. WellFormed(new) /\ Prems(new) = {} /\ Justs(new) = {} /\ Subs(new) = {}
    BY NewWF
  <1>4. DOMAIN f = {Root} /\ f[Root] = Root /\ DOMAIN id0 = {0} /\ id0[0] = Root
    OBVIOUS
  <1> HIDE DEF f, id0
  <1>5. Mapped(p, new, {}, f)
    BY <1>3, <1>4 DEF Mapped, Live, Lines
  <1>6. ListsCopied(p, new, {}, f)
    <2>1. new.premise_list[Root] = <<>> /\ new.line_list[Root] = <<>>
      BY DEF new
    <2>2. ASSUME NEW list \in Seq(Live(p)) PROVE Front(list, <<>>, {}, f)
      <3>1. Len(list) \in Nat /\ <<>> \in Seq(Entries(<<>>)) /\ Len(<<>>) = 0
        OBVIOUS
      <3> QED BY <3>1 DEF Front
    <2>3. p.premise_list[Root] \in Seq(Live(p)) /\ p.line_list[Root] \in Seq(Live(p))
      BY ListsAreLive DEF Owners
    <2> QED BY <1>4, <2>1, <2>2, <2>3 DEF ListsCopied
  <1>7. TextsCopied(p, new, {}, f)
    BY DEF TextsCopied
  <1>8. Packed(p, new, {})
    <2>1. \A T : {} \cap T = {}
      OBVIOUS
    <2>2. Cardinality({}) = 0
      BY FS_EmptySet
    <2>3. \A kind : Keys(kind, 0) = {}
      BY DEF Keys
    <2> QED BY <1>3, <2>1, <2>2, <2>3 DEF Packed
  <1>9. IdsKnown(sub, {}, f, id0)
    <2>1. /\ DOMAIN sub = 0 .. n - 1 /\ 0 \in DOMAIN sub /\ sub[0] = Root
          /\ \A i, j \in DOMAIN sub : sub[i] = sub[j] => i = j
      BY <1>1 DEF Meaning
    <2> QED BY <1>4, <2>1 DEF IdsKnown
  <1>10. \A T : Known(p, {} \cap T, f, <<>>)
    BY DEF Known
  <1>11. Copied(p, new, {}, f)
    BY <1>3, <1>5, <1>6, <1>7, <1>8 DEF Copied
  <1> QED BY <1>1, <1>2, <1>9, <1>10, <1>11 DEF Reads, f, id0

(* The proof in the editor and the one that is opened, phase by phase.     *)
XmlInv ==
  /\ WidgetInv /\ Fits(proof)
  /\ phase \in {"editing", "writing", "reading", "opened"}
  /\ phase \in {"editing", "writing"} => opened = new
  /\ phase = "writing" =>
       \E sub, xs : Writes(proof, file, queue, sproofid, sub, xs)
  /\ phase = "reading" =>
       \E n, sub, xs, R, f :
         Reads(proof, file, n, sub, xs, opened, R, f, ids, line_refs, lines_to_subs)
  /\ phase = "opened" =>
       \E f : Copied(proof, opened, Live(proof), f) /\ Known(proof, Lines(proof), f, line_refs)

(* At the end of the document everything is read.                          *)
LEMMA ReadEnd ==
  ASSUME NEW p, WellFormed(p), NEW n, NEW sub, NEW xs, NEW q, NEW R, NEW f, NEW id, NEW lr, NEW ls,
         Reads(p, <<>>, n, sub, xs, q, R, f, id, lr, ls)
  PROVE  Copied(p, q, Live(p), f) /\ Known(p, Lines(p), f, lr)
  <1>1. /\ Told(p, sub, <<>>, xs) /\ Ordered(p, R, xs) /\ R \cup Entries(xs) = Live(p)
        /\ Copied(p, q, R, f) /\ Known(p, R \cap Lines(p), f, lr)
    BY DEF Reads
  <1>2. xs \in Seq(Live(p))
    BY <1>1 DEF Ordered
  <1>3. xs = <<>>
    <2>1. Told(p, sub, <<>>, xs)
      BY <1>1
    <2>2. <<>> = <<>> <=> xs = <<>>
      BY <1>2, <2>1, ToldTail
    <2> QED BY <2>2
  <1>4. R = Live(p)
    <2>1. Entries(<<>>) = {}
      BY DEF Entries
    <2> QED BY <1>1, <1>3, <2>1
  <1>5. Live(p) \cap Lines(p) = Lines(p)
    BY DEF Live
  <1> QED BY <1>1, <1>4, <1>5

(* The start.                                                              *)
LEMMA XmlInitInv == XmlInit => XmlInv
  BY WidgetInitInv, WidgetFits DEF XmlInit, XmlInv

(* Every step of editing, writing and reading keeps the invariant.         *)
LEMMA XmlNextInv == XmlInv /\ [XmlNext]_<<vars, xmlVars>> => XmlInv'
  <1> SUFFICES ASSUME XmlInv, [XmlNext]_<<vars, xmlVars>> PROVE XmlInv'
    OBVIOUS
  <1> USE DEF xmlVars, writerVars, readerVars
  <1>1. /\ WidgetInv /\ Fits(proof)
        /\ WellFormed(proof) /\ Assumes(proof) /\ InScope(proof) /\ IsFiniteSet(Lines(proof))
    BY DEF XmlInv, WidgetInv
  <1>2. WidgetInv' /\ Fits(proof')
    <2>1. [WidgetNext]_vars
      BY DEF XmlNext, Edit, Save, WriteProof, Open, ReadElement, EndDocument, Close
    <2> QED BY <1>1, <2>1, WidgetNextInv, WidgetFits
  <1>3. CASE Edit
    BY <1>2, <1>3 DEF Edit, XmlInv
  <1>4. CASE Save
    <2>1. /\ phase = "editing" /\ phase' = "writing" /\ file' = <<>> /\ queue' = <<<<0, Root>>>>
          /\ sproofid' = 1 /\ opened' = opened /\ proof' = proof
      BY <1>4 DEF Save, vars
    <2>2. Writes(proof', file', queue', sproofid', [i \in 0 .. 0 |-> Root], <<>>)
      BY <1>1, <2>1, WriteStart
    <2>3. opened' = new
      BY <2>1 DEF XmlInv
    <2> QED BY <1>2, <2>1, <2>2, <2>3 DEF XmlInv
  <1>5. CASE WriteProof
    <2>1. phase = "writing" /\ phase' = "writing" /\ opened' = opened /\ proof' = proof
      BY <1>5 DEF WriteProof, vars
    <2>2. PICK sub, xs : Writes(proof, file, queue, sproofid, sub, xs)
      BY <2>1 DEF XmlInv
    <2>3. \E sub2, xs2 : Writes(proof, file', queue', sproofid', sub2, xs2)
      BY <1>1, <1>5, <2>2, WriteStep
    <2>4. opened' = new
      BY <2>1 DEF XmlInv
    <2> QED BY <1>2, <2>1, <2>3, <2>4 DEF XmlInv
  <1>6. CASE Open
    <2>1. /\ phase = "writing" /\ queue = <<>> /\ phase' = "reading" /\ opened' = new
          /\ ids' = [id \in {0} |-> Root] /\ line_refs' = <<>> /\ lines_to_subs' = <<>>
          /\ file' = file /\ proof' = proof
      BY <1>6 DEF Open, vars
    <2>2. PICK sub, xs : Writes(proof, file, <<>>, sproofid, sub, xs)
      BY <2>1 DEF XmlInv
    <2>3. Reads(proof, file, sproofid, sub, xs, new, {}, [r \in {Root} |-> Root],
                [id \in {0} |-> Root], <<>>, <<>>)
      BY <1>1, <2>2, ReadStart
    <2>4. \E n, sb, ys, R, f :
            Reads(proof', file', n, sb, ys, opened', R, f, ids', line_refs', lines_to_subs')
      BY <2>1, <2>3
    <2> QED BY <1>2, <2>1, <2>4 DEF XmlInv
  <1>7. CASE ReadElement
    <2>1. phase = "reading" /\ phase' = "reading" /\ proof' = proof
      BY <1>7 DEF ReadElement, vars
    <2>2. PICK n, sub, xs, R, f :
            Reads(proof, file, n, sub, xs, opened, R, f, ids, line_refs, lines_to_subs)
      BY <2>1 DEF XmlInv
    <2>3. \E ys, S, g :
            Reads(proof, file', n, sub, ys, opened', S, g, ids', line_refs', lines_to_subs')
      BY <1>1, <1>7, <2>2, ReadStepOf
    <2> QED BY <1>2, <2>1, <2>3 DEF XmlInv
  <1>8. CASE EndDocument
    <2>1. /\ phase = "reading" /\ file = <<>> /\ phase' = "opened" /\ proof' = proof
          /\ opened' = opened /\ line_refs' = line_refs
      BY <1>8 DEF EndDocument, vars
    <2>2. PICK n, sub, xs, R, f :
            Reads(proof, <<>>, n, sub, xs, opened, R, f, ids, line_refs, lines_to_subs)
      BY <2>1 DEF XmlInv
    <2>3. Copied(proof, opened, Live(proof), f) /\ Known(proof, Lines(proof), f, line_refs)
      BY <1>1, <2>2, ReadEnd
    <2> QED BY <1>2, <2>1, <2>3 DEF XmlInv
  <1>9. CASE Close
    BY <1>2, <1>9 DEF Close, XmlInv
  <1>10. CASE UNCHANGED <<vars, xmlVars>>
    <2>1. /\ proof' = proof /\ phase' = phase /\ file' = file /\ queue' = queue
          /\ sproofid' = sproofid /\ opened' = opened /\ ids' = ids /\ line_refs' = line_refs
          /\ lines_to_subs' = lines_to_subs
      BY <1>10 DEF vars
    <2> QED BY <1>2, <2>1 DEF XmlInv
  <1> QED BY <1>3, <1>4, <1>5, <1>6, <1>7, <1>8, <1>9, <1>10 DEF XmlNext

(* What has been built is well formed, and the reader finds the subproof   *)
(* of the next element.                                                    *)
LEMMA XmlInvReader == XmlInv => ReaderOK
  <1> SUFFICES ASSUME XmlInv PROVE ReaderOK
    OBVIOUS
  <1>1. phase \in {"editing", "writing", "reading", "opened"}
    BY DEF XmlInv
  <1>2. WellFormed(opened)
    <2>1. CASE phase \in {"editing", "writing"}
      BY <2>1, NewWF DEF XmlInv
    <2>2. CASE phase = "reading"
      BY <2>2 DEF XmlInv, Reads, Copied
    <2>3. CASE phase = "opened"
      BY <2>3 DEF XmlInv, Copied
    <2> QED BY <1>1, <2>1, <2>2, <2>3
  <1>3. ASSUME phase = "reading", file # <<>> PROVE file[1].in \in DOMAIN ids
    <2>1. PICK n, sub, xs, R, f :
            Reads(proof, file, n, sub, xs, opened, R, f, ids, line_refs, lines_to_subs)
      BY <1>3 DEF XmlInv
    <2>2. Ordered(proof, R, xs) /\ Told(proof, sub, file, xs) /\ IdsKnown(sub, R, f, ids)
      BY <2>1 DEF Reads
    <2>3. xs \in Seq(Live(proof))
      BY <2>2 DEF Ordered
    <2>4. xs # <<>> /\ Tells(proof, sub, file[1], xs[1])
      <3>1. Told(proof, sub, file, xs)
        BY <2>2
      <3>2. /\ file = <<>> <=> xs = <<>>
            /\ xs # <<>> => Tells(proof, sub, file[1], xs[1]) /\ Told(proof, sub, Tail(file), Tail(xs))
        BY <2>3, <3>1, ToldTail
      <3> QED BY <1>3, <3>2
    <2>5. Needs(proof, xs[1]) \subseteq R
      BY <2>2, <2>4, OrderTail
    <2>6. parent_of(proof, xs[1]) \in R \cup {Root}
      BY <2>5, NeedsAre
    <2> QED BY <2>2, <2>4, <2>6 DEF Tells, IdsKnown
  <1> QED BY <1>1, <1>2, <1>3 DEF ReaderOK, WellFormed

(* What each thing of the saved proof has become is where f maps it.       *)
LEMMA ImageIs ==
  ASSUME WellFormed(proof), Assumes(proof), NEW f, Copied(proof, opened, Live(proof), f),
         Known(proof, Lines(proof), f, line_refs), NEW x \in Live(proof) \cup {Root}
  PROVE  image(x) = f[x]
  <1>1. /\ Root \notin Live(proof) /\ Root \notin Lines(proof) /\ Root \notin Subs(proof)
        /\ Lines(proof) \cap Subs(proof) = {} /\ f[Root] = Root
    BY Shape DEF Copied, Mapped, Live, Owners
  <1>2. CASE x = Root
    <2>1. image(Root) = Root
      BY <1>1 DEF image
    <2> QED BY <1>1, <1>2, <2>1
  <1>3. \A z \in Lines(proof) : line_refs[deps_map(z)] = f[z]
    BY DEF Known, deps_map
  <1>4. CASE x \in Lines(proof)
    <2>1. x # Root
      BY <1>1, <1>4
    <2>2. image(x) = line_refs[deps_map(x)]
      BY <1>1, <1>4, <2>1 DEF image
    <2> QED BY <1>3, <1>4, <2>2
  <1>5. CASE x \in Subs(proof)
    <2> DEFINE a == proof.premise_list[x][1]
    <2>1. x # Root /\ x \notin Lines(proof) /\ x \in Owners(proof)
      BY <1>1, <1>5 DEF Owners
    <2>2. proof.premise_list[x] \in Seq(Live(proof)) /\ Len(proof.premise_list[x]) = 1
      BY <1>5, <2>1, ListsAreLive DEF Assumes
    <2>3. a \in Entries(proof.premise_list[x])
      BY <2>2 DEF Entries
    <2>4. a \in Prems(proof) /\ parent_of(proof, a) = x
      BY <2>1, <2>3 DEF WellFormed, ListedOnce, Owners
    <2>5. image(x) = parent_of(opened, line_refs[deps_map(a)])
      BY <1>5, <2>1 DEF image
    <2> HIDE DEF a
    <2>6. a \in Lines(proof) /\ a \in Live(proof)
      BY <2>4 DEF Lines, Live
    <2>7. parent_of(opened, f[a]) = f[parent_of(proof, a)]
      BY <2>6 DEF Copied, Mapped
    <2> QED BY <1>3, <2>4, <2>5, <2>6, <2>7
  <1> QED BY <1>2, <1>4, <1>5 DEF Live

(* The list of a copy that is complete.                                    *)
LEMMA FrontIsAll ==
  ASSUME NEW T, NEW list \in Seq(T), NEW copy, NEW f, Front(list, copy, T, f)
  PROVE  copy = [i \in DOMAIN list |-> f[list[i]]]
  <1>1. /\ DOMAIN list = 1 .. Len(list) /\ Len(list) \in Nat
        /\ \A i \in 1 .. Len(list) : list[i] \in T
    OBVIOUS
  <1>2. /\ copy \in Seq(Entries(copy)) /\ Len(copy) \in Nat /\ Len(copy) <= Len(list)
        /\ \A i \in 1 .. Len(list) : i <= Len(copy)
        /\ \A i \in 1 .. Len(copy) : copy[i] = f[list[i]]
    BY <1>1 DEF Front
  <1>3. Len(copy) = Len(list)
    BY <1>1, <1>2
  <1>4. DOMAIN copy = DOMAIN list /\ copy = [i \in DOMAIN copy |-> copy[i]]
    BY <1>1, <1>2, <1>3
  <1> QED BY <1>1, <1>2, <1>3, <1>4

(* The proof that is opened is the one that was saved.                     *)
LEMMA XmlInvRoundTrip == XmlInv => RoundTrip
  <1> SUFFICES ASSUME XmlInv, phase = "opened" PROVE RoundTrip
    BY DEF RoundTrip
  <1> DEFINE p == proof
             q == opened
  <1>1. PICK f : Copied(p, q, Live(p), f) /\ Known(p, Lines(p), f, line_refs)
    BY DEF XmlInv
  <1>2. WellFormed(p) /\ Assumes(p)
    BY DEF XmlInv, WidgetInv
  <1>3. \A x \in Live(p) \cup {Root} : image(x) = f[x]
    BY <1>1, <1>2, ImageIs
  <1>4. /\ Mapped(p, q, Live(p), f) /\ ListsCopied(p, q, Live(p), f) /\ TextsCopied(p, q, Live(p), f)
        /\ WellFormed(q)
    BY <1>1 DEF Copied
  <1>5. {image(x) : x \in Live(p)} = Live(q)
    <2>1. \A x \in Live(p) : f[x] \in Live(q)
      BY <1>2, <1>4, OwnersMapped
    <2>2. \A z \in Live(q) : \E x \in Live(p) : f[x] = z
      BY <1>4 DEF Mapped
    <2> QED BY <1>3, <2>1, <2>2
  <1>6. \A x, y \in Live(p) : image(x) = image(y) => x = y
    BY <1>3, <1>4 DEF Mapped
  <1>7. ASSUME NEW s \in Subs(p) \cup {Root}
        PROVE  LET carried(list) == [i \in DOMAIN list |-> image(list[i])]
               IN  /\ q.premise_list[image(s)] = carried(p.premise_list[s])
                   /\ q.line_list[image(s)] = carried(p.line_list[s])
    <2>1. s \in Owners(p) \cap (Live(p) \cup {Root})
      BY DEF Owners, Live
    <2>2. /\ Front(p.premise_list[s], q.premise_list[f[s]], Live(p), f)
          /\ Front(p.line_list[s], q.line_list[f[s]], Live(p), f)
      BY <1>4, <2>1 DEF ListsCopied
    <2>3. p.premise_list[s] \in Seq(Live(p)) /\ p.line_list[s] \in Seq(Live(p))
      BY <1>2, <2>1, ListsAreLive
    <2>4. ASSUME NEW list \in Seq(Live(p)), NEW copy, Front(list, copy, Live(p), f)
          PROVE  copy = [i \in DOMAIN list |-> image(list[i])]
      <3>1. copy = [i \in DOMAIN list |-> f[list[i]]]
        BY <2>4, FrontIsAll
      <3>2. \A i \in DOMAIN list : list[i] \in Live(p)
        OBVIOUS
      <3> QED BY <1>3, <3>1, <3>2
    <2>5. image(s) = f[s]
      BY <1>3, <2>1
    <2>6. q.premise_list[image(s)] = [i \in DOMAIN p.premise_list[s] |-> image(p.premise_list[s][i])]
      BY <2>2, <2>3, <2>4, <2>5
    <2>7. q.line_list[image(s)] = [i \in DOMAIN p.line_list[s] |-> image(p.line_list[s][i])]
      BY <2>2, <2>3, <2>4, <2>5
    <2> QED BY <2>6, <2>7
  <1>8. \A x \in Prems(p) : q.prem_map[image(x)].says = p.prem_map[x].says
    BY <1>3, <1>4 DEF TextsCopied, Live, Lines
  <1>9. ASSUME NEW x \in Justs(p)
        PROVE  LET just == p.just_map[x]
                   read == q.just_map[image(x)]
               IN  /\ read.expr.says = just.expr.says
                   /\ to_serialized_name(read.expr.rule) = to_serialized_name(just.expr.rule)
                   /\ read.deps = {image(d) : d \in just.deps}
                   /\ read.sdeps = {image(d) : d \in just.sdeps}
    <2>1. /\ p.just_map[x].deps \subseteq Live(p) /\ p.just_map[x].sdeps \subseteq Live(p)
          /\ q.just_map[f[x]] = Carried(p.just_map[x], f) /\ image(x) = f[x]
      BY <1>3, <1>4 DEF TextsCopied, Live, Lines
    <2>2. \A D \in SUBSET Live(p) : Image(f, D) = {image(d) : d \in D}
      BY <1>3 DEF Image
    <2>3. p.just_map[x].expr \in Exprs
      BY <1>2, Shape DEF Steps
    <2>4. /\ Reopened(p.just_map[x].expr).says = p.just_map[x].expr.says
          /\ to_serialized_name(Reopened(p.just_map[x].expr).rule)
               = to_serialized_name(p.just_map[x].expr.rule)
      BY <2>3, ReopenedIs
    <2> QED BY <2>1, <2>2, <2>4 DEF Carried
  <1> QED BY <1>5, <1>6, <1>7, <1>8, <1>9 DEF RoundTrip

(* Whatever proof is saved and opened, at no element does the reader miss  *)
(* the subproof that the element is in, which it would panic without, and  *)
(* what it has built is well formed after each.                            *)
THEOREM ReaderNeverPanics == XmlSpec => []ReaderOK
  <1>1. XmlInit => XmlInv
    BY XmlInitInv
  <1>2. XmlInv /\ [XmlNext]_<<vars, xmlVars>> => XmlInv'
    BY XmlNextInv
  <1>3. XmlInv => ReaderOK
    BY XmlInvReader
  <1> QED BY <1>1, <1>2, <1>3, PTL DEF XmlSpec

(* Saving a proof and opening the file gives the proof back, up to keys:   *)
(* every line and subproof in its place, with the expression it had and,   *)
(* for a step, a rule that is saved by the name of the rule it had, and    *)
(* every reference to what it was to.                                      *)
THEOREM SavedProofIsOpened == XmlSpec => []RoundTrip
  <1>1. XmlInit => XmlInv
    BY XmlInitInv
  <1>2. XmlInv /\ [XmlNext]_<<vars, xmlVars>> => XmlInv'
    BY XmlNextInv
  <1>3. XmlInv => RoundTrip
    BY XmlInvRoundTrip
  <1> QED BY <1>1, <1>2, <1>3, PTL DEF XmlSpec

=============================================================================
