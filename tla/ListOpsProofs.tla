---------------------------- MODULE ListOpsProofs ----------------------------
(***************************************************************************)
(* What the list operations keep: the entries of the result, and that no   *)
(* entry occurs twice.                                                     *)
(***************************************************************************)
EXTENDS ListOps, SequenceTheorems, FiniteSetTheorems, TLAPS

(* Every rank up to the number of kept positions is the rank of exactly    *)
(* one kept position.                                                      *)
LEMMA RankBijective ==
  ASSUME NEW n \in Nat, NEW Kept \in SUBSET (1 .. n)
  PROVE  LET Rank(k) == Cardinality({m \in Kept : m <= k})
         IN  /\ Cardinality(Kept) \in Nat
             /\ \A k \in Kept : Rank(k) \in 1 .. Cardinality(Kept)
             /\ \A j, k \in Kept : Rank(j) = Rank(k) => j = k
             /\ \A i \in 1 .. Cardinality(Kept) : \E k \in Kept : Rank(k) = i
  <1> DEFINE Upto(k) == {m \in Kept : m <= k}
             Rank(k) == Cardinality(Upto(k))
             N == Cardinality(Kept)
             f == [k \in Kept |-> Rank(k)]
  <1>1. IsFiniteSet(Kept) /\ N \in Nat
    <2>1. IsFiniteSet(1 .. n)
      BY FS_Interval, 1 \in Int, n \in Int
    <2> QED BY <2>1, FS_Subset, FS_CardinalityType
  <1>2. \A k \in Kept : /\ IsFiniteSet(Upto(k))
                        /\ Rank(k) \in Nat
                        /\ Rank(k) <= N
    BY <1>1, FS_Subset, FS_CardinalityType
  <1>3. \A k \in Kept : Rank(k) >= 1
    <2> SUFFICES ASSUME NEW k \in Kept PROVE Rank(k) >= 1
      OBVIOUS
    <2>1. k \in Upto(k)
      OBVIOUS
    <2>2. Rank(k) # 0
      BY <1>2, <2>1, FS_EmptySet
    <2> QED BY <1>2, <2>2
  <1>4. \A j, k \in Kept : j < k => Rank(j) # Rank(k)
    <2> SUFFICES ASSUME NEW j \in Kept, NEW k \in Kept, j < k
                 PROVE  Rank(j) # Rank(k)
      OBVIOUS
    <2>1. Upto(j) \in SUBSET Upto(k)
      <3>1. \A m \in Kept : m \in Int
        OBVIOUS
      <3>2. \A m \in Kept : m <= j => m <= k
        BY <3>1
      <3> QED BY <3>2
    <2>2. k \in Upto(k) /\ k \notin Upto(j)
      OBVIOUS
    <2> HIDE DEF Upto
    <2>3. Cardinality(Upto(k)) = Cardinality(Upto(j)) => Upto(k) = Upto(j)
      BY <1>2, <2>1, FS_Subset
    <2> QED BY <2>2, <2>3
  <1>5. \A j, k \in Kept : Rank(j) = Rank(k) => j = k
    <2> HIDE DEF Rank
    <2> QED BY <1>4
  <1>6. f \in Injection(Kept, 1 .. N)
    <2>1. f \in [Kept -> 1 .. N]
      BY <1>1, <1>2, <1>3
    <2>2. \A j, k \in Kept : f[j] = f[k] => j = k
      BY <1>5
    <2> QED BY <2>1, <2>2 DEF Injection, IsInjective
  <1>7. IsFiniteSet(1 .. N) /\ Cardinality(1 .. N) = N
    BY <1>1, FS_Interval
  <1>8. f \in Surjection(Kept, 1 .. N)
    BY <1>6, <1>7, FS_Injection
  <1>9. \A i \in 1 .. N : \E k \in Kept : f[k] = i
    BY <1>8 DEF Surjection
  <1> QED BY <1>1, <1>2, <1>3, <1>5, <1>9

(* Without(s, S) has the entries of s that are not in S, repeats nothing   *)
(* that s does not repeat, and is a sequence over the same set.            *)
LEMMA WithoutProperties ==
  ASSUME NEW T, NEW s \in Seq(T), NEW S
  PROVE  /\ Without(s, S) \in Seq(T)
         /\ Entries(Without(s, S)) = Entries(s) \ S
         /\ NoRepeats(s) => NoRepeats(Without(s, S))
  <1> DEFINE Kept == {k \in DOMAIN s : s[k] \notin S}
             Rank(k) == Cardinality({m \in Kept : m <= k})
             N == Cardinality(Kept)
             Pos(i) == CHOOSE k \in Kept : Rank(k) = i
             w == [i \in 1 .. N |-> s[Pos(i)]]
  <1>1. Kept \in SUBSET (1 .. Len(s)) /\ Len(s) \in Nat
    OBVIOUS
  <1>2. /\ N \in Nat
        /\ \A k \in Kept : Rank(k) \in 1 .. N
        /\ \A j, k \in Kept : Rank(j) = Rank(k) => j = k
        /\ \A i \in 1 .. N : \E k \in Kept : Rank(k) = i
    <2> HIDE DEF Kept
    <2> QED BY <1>1, RankBijective
  <1>3. Without(s, S) = w
    BY DEF Without
  <1> HIDE DEF Rank, N
  <1>4. \A i \in 1 .. N : Pos(i) \in Kept /\ Rank(Pos(i)) = i
    <2> HIDE DEF Kept
    <2> QED BY <1>2
  <1>5. \A k \in Kept : Pos(Rank(k)) = k
    <2> HIDE DEF Kept
    <2> QED BY <1>2, <1>4
  <1> HIDE DEF Pos
  <1>6. w \in Seq(T)
    BY <1>2, <1>4
  <1>7. Entries(w) = Entries(s) \ S
    <2>1. ASSUME NEW x \in Entries(w) PROVE x \in Entries(s) \ S
      BY <1>4 DEF Entries
    <2>2. ASSUME NEW x \in Entries(s) \ S PROVE x \in Entries(w)
      <3>1. PICK k \in Kept : s[k] = x
        BY DEF Entries
      <3>2. Rank(k) \in DOMAIN w /\ w[Rank(k)] = x
        BY <1>2, <1>5, <3>1
      <3> QED BY <3>2 DEF Entries
    <2> QED BY <2>1, <2>2
  <1>8. NoRepeats(s) => NoRepeats(w)
    <2> SUFFICES ASSUME NoRepeats(s), NEW i \in 1 .. N, NEW j \in 1 .. N, w[i] = w[j]
                 PROVE  i = j
      BY DEF NoRepeats
    <2>1. Pos(i) = Pos(j)
      BY <1>4 DEF NoRepeats
    <2> QED BY <1>4, <2>1
  <1> QED BY <1>3, <1>6, <1>7, <1>8

(* Filtering never lengthens a list.                                       *)
LEMMA WithoutLength ==
  ASSUME NEW T, NEW s \in Seq(T), NEW S
  PROVE  Len(Without(s, S)) <= Len(s)
  <1> DEFINE Kept == {k \in DOMAIN s : s[k] \notin S}
  <1>1. Kept \in SUBSET (1 .. Len(s)) /\ Len(s) \in Nat
    OBVIOUS
  <1>2. IsFiniteSet(1 .. Len(s)) /\ Cardinality(1 .. Len(s)) = Len(s)
    BY <1>1, FS_Interval, 1 \in Int, Len(s) \in Int
  <1>3. Cardinality(Kept) \in Nat /\ Cardinality(Kept) <= Len(s)
    BY <1>1, <1>2, FS_Subset, FS_CardinalityType
  <1>4. DOMAIN Without(s, S) = 1 .. Cardinality(Kept)
    BY DEF Without
  <1>5. Without(s, S) \in Seq(T)
    BY WithoutProperties
  <1>6. Len(Without(s, S)) = Cardinality(Kept)
    BY <1>3, <1>4, <1>5, LenProperties
  <1> QED BY <1>3, <1>6

(* Where an insertion puts its value, and the entries around it.           *)
LEMMA PlacedAtValues ==
  ASSUME NEW T, NEW s \in Seq(T), NEW v \in T, NEW c \in 0 .. Len(s)
  PROVE  /\ PlacedAt(s, v, c) \in Seq(T) /\ Len(PlacedAt(s, v, c)) = Len(s) + 1
         /\ \A i \in 1 .. Len(s) + 1 :
              PlacedAt(s, v, c)[i]
                = IF i <= c THEN s[i] ELSE IF i = c + 1 THEN v ELSE s[i - 1]
  <1> DEFINE w == PlacedAt(s, v, c)
             Val(i) == IF i <= c THEN s[i] ELSE IF i = c + 1 THEN v ELSE s[i - 1]
             before == SubSeq(s, 1, c)
             behind == SubSeq(s, c + 1, Len(s))
             front == before \o <<v>>
  <1>a. /\ before \in Seq(T) /\ Len(before) = c
        /\ \A i \in 1 .. c : before[i] = s[i]
    OBVIOUS
  <1>b. /\ behind \in Seq(T) /\ Len(behind) = Len(s) - c
        /\ \A i \in 1 .. Len(s) - c : behind[i] = s[i + c]
    OBVIOUS
  <1>c. w = front \o behind
    BY DEF PlacedAt
  <1>d. /\ front \in Seq(T) /\ Len(front) = c + 1
        /\ \A i \in 1 .. c + 1 : front[i] = IF i <= c THEN s[i] ELSE v
    <2> HIDE DEF before
    <2> QED BY <1>a
  <1> HIDE DEF behind, front, w
  <1>1. w \in Seq(T) /\ Len(w) = Len(s) + 1
    BY <1>b, <1>c, <1>d
  <1>2. \A i \in 1 .. Len(s) + 1 : w[i] = Val(i)
    <2> SUFFICES ASSUME NEW i \in 1 .. Len(s) + 1 PROVE w[i] = Val(i)
      OBVIOUS
    <2>1. CASE i <= c + 1
      <3>1. w[i] = front[i]
        BY <1>b, <1>c, <1>d, <2>1
      <3> QED BY <1>d, <2>1, <3>1
    <2>2. CASE i > c + 1
      <3>1. w[i] = behind[i - (c + 1)]
        BY <1>b, <1>c, <1>d, <2>2
      <3>2. i - (c + 1) \in 1 .. Len(s) - c
        BY <2>2
      <3>3. behind[i - (c + 1)] = s[i - (c + 1) + c]
        BY <1>b, <3>2
      <3>4. i - (c + 1) + c = i - 1
        OBVIOUS
      <3> QED BY <2>2, <3>1, <3>3, <3>4
    <2> QED BY <2>1, <2>2
  <1> QED BY <1>1, <1>2 DEF w

(* An insertion adds its value to the entries, and repeats nothing when    *)
(* the value is new.                                                       *)
LEMMA PlacedAtProperties ==
  ASSUME NEW T, NEW s \in Seq(T), NEW v \in T, NEW c \in 0 .. Len(s)
  PROVE  /\ PlacedAt(s, v, c) \in Seq(T)
         /\ Entries(PlacedAt(s, v, c)) = Entries(s) \cup {v}
         /\ (NoRepeats(s) /\ v \notin Entries(s)) => NoRepeats(PlacedAt(s, v, c))
  <1> DEFINE w == PlacedAt(s, v, c)
             Val(i) == IF i <= c THEN s[i] ELSE IF i = c + 1 THEN v ELSE s[i - 1]
  <1>1. w \in Seq(T) /\ Len(w) = Len(s) + 1
    BY PlacedAtValues
  <1>2. \A i \in 1 .. Len(s) + 1 : w[i] = Val(i)
    BY PlacedAtValues
  <1> HIDE DEF w
  <1>3. Entries(w) = Entries(s) \cup {v}
    <2>1. ASSUME NEW x \in Entries(w) PROVE x \in Entries(s) \cup {v}
      <3>1. PICK i \in 1 .. Len(s) + 1 : x = Val(i)
        BY <1>1, <1>2 DEF Entries
      <3>2. CASE i <= c
        BY <3>1, <3>2 DEF Entries
      <3>3. CASE i = c + 1
        BY <3>1, <3>3
      <3>4. CASE i > c + 1
        <4>1. i - 1 \in DOMAIN s /\ x = s[i - 1]
          BY <3>1, <3>4
        <4> QED BY <4>1 DEF Entries
      <3> QED BY <3>2, <3>3, <3>4
    <2>2. v \in Entries(w)
      <3>1. c + 1 \in DOMAIN w /\ w[c + 1] = v
        BY <1>1, <1>2
      <3> QED BY <3>1 DEF Entries
    <2>3. ASSUME NEW i \in DOMAIN s PROVE s[i] \in Entries(w)
      <3>1. CASE i <= c
        <4>1. i \in DOMAIN w /\ w[i] = s[i]
          BY <1>1, <1>2, <3>1
        <4> QED BY <4>1 DEF Entries
      <3>2. CASE i > c
        <4>1. i + 1 \in DOMAIN w /\ w[i + 1] = s[i]
          BY <1>1, <1>2, <3>2
        <4> QED BY <4>1 DEF Entries
      <3> QED BY <3>1, <3>2
    <2> QED BY <2>1, <2>2, <2>3 DEF Entries
  <1>4. (NoRepeats(s) /\ v \notin Entries(s)) => NoRepeats(w)
    <2> SUFFICES ASSUME NoRepeats(s), v \notin Entries(s),
                        NEW i \in 1 .. Len(s) + 1, NEW j \in 1 .. Len(s) + 1, w[i] = w[j]
                 PROVE  i = j
      BY <1>1 DEF NoRepeats
    <2>1. Val(i) = Val(j)
      BY <1>2
    <2>2. \A k \in 1 .. Len(s) : s[k] # v
      BY DEF Entries
    <2>3. \A k, l \in 1 .. Len(s) : s[k] = s[l] => k = l
      BY DEF NoRepeats
    <2> QED BY <2>1, <2>2, <2>3
  <1> QED BY <1>1, <1>3, <1>4 DEF w

(* There is at most one place next to which insert_relative inserts.       *)
LEMMA InsertRelativeAt ==
  ASSUME NEW T, NEW s \in Seq(T), NEW rel, NEW v \in T, NEW after \in BOOLEAN,
         NEW c \in 0 .. Len(s), IsPlaceOf(s, rel, c)
  PROVE  InsertRelative(s, v, rel, after)
           = PlacedAt(s, v, IF after /\ c < Len(s) THEN c + 1 ELSE c)
  <1>1. \A d \in 0 .. Len(s) : IsPlaceOf(s, rel, d) => d = c
    BY DEF IsPlaceOf
  <1>2. (CHOOSE d \in 0 .. Len(s) : IsPlaceOf(s, rel, d)) = c
    BY <1>1
  <1> QED BY <1>2 DEF InsertRelative

(* In a list without repetitions insert_relative finds its place.          *)
LEMMA PlaceExists ==
  ASSUME NEW T, NEW s \in Seq(T), NEW rel, NoRepeats(s)
  PROVE  \E c \in 0 .. Len(s) : IsPlaceOf(s, rel, c)
  <1>1. CASE rel \in Entries(s)
    <2>1. PICK k \in 1 .. Len(s) : s[k] = rel
      BY <1>1 DEF Entries
    <2>2. IsPlaceOf(s, rel, k - 1)
      BY <2>1 DEF IsPlaceOf, NoRepeats
    <2> QED BY <2>2
  <1>2. CASE rel \notin Entries(s)
    <2>1. IsPlaceOf(s, rel, Len(s))
      BY <1>2 DEF IsPlaceOf, Entries
    <2> QED BY <2>1
  <1> QED BY <1>1, <1>2

(* It adds the value to the entries, and repeats nothing when the value is *)
(* new.                                                                    *)
LEMMA InsertRelativeProperties ==
  ASSUME NEW T, NEW s \in Seq(T), NEW rel, NEW v \in T, NEW after \in BOOLEAN,
         NoRepeats(s), v \notin Entries(s)
  PROVE  /\ InsertRelative(s, v, rel, after) \in Seq(T)
         /\ Entries(InsertRelative(s, v, rel, after)) = Entries(s) \cup {v}
         /\ NoRepeats(InsertRelative(s, v, rel, after))
  <1>2. PICK c \in 0 .. Len(s) : IsPlaceOf(s, rel, c)
    BY PlaceExists
  <1>3. (IF after /\ c < Len(s) THEN c + 1 ELSE c) \in 0 .. Len(s)
    OBVIOUS
  <1>4. InsertRelative(s, v, rel, after)
          = PlacedAt(s, v, IF after /\ c < Len(s) THEN c + 1 ELSE c)
    BY <1>2, InsertRelativeAt
  <1> QED BY <1>3, <1>4, PlacedAtProperties

(* The same for an entry pushed at the end.                                *)
LEMMA AppendEntries ==
  ASSUME NEW T, NEW s \in Seq(T), NEW v \in T
  PROVE  /\ Append(s, v) \in Seq(T)
         /\ Entries(Append(s, v)) = Entries(s) \cup {v}
         /\ (NoRepeats(s) /\ v \notin Entries(s)) => NoRepeats(Append(s, v))
  <1>1. Append(s, v) = PlacedAt(s, v, Len(s))
    BY DEF PlacedAt
  <1> QED BY <1>1, PlacedAtProperties

-----------------------------------------------------------------------------
(* Filtering, and the order of what is left.                               *)

(* The positions a filter keeps, the rank of a position among them, and    *)
(* the list of the entries at them.                                        *)
KeptAt(s, S) == {k \in DOMAIN s : s[k] \notin S}
RankIn(Kept, k) == Cardinality({m \in Kept : m <= k})
Enumerated(s, Kept) ==
  [i \in 1 .. Cardinality(Kept) |-> s[CHOOSE k \in Kept : RankIn(Kept, k) = i]]

(* Without lists the entries at the places it keeps.                       *)
LEMMA WithoutEnumerates == \A s, S : Without(s, S) = Enumerated(s, KeptAt(s, S))
  BY DEF Without, KeptAt, RankIn, Enumerated

(* What is not in the list makes no difference to a filter.                *)
LEMMA WithoutSame ==
  ASSUME NEW s, NEW A, NEW B, Entries(s) \cap A = Entries(s) \cap B
  PROVE  Without(s, A) = Without(s, B)
  <1>1. KeptAt(s, A) = KeptAt(s, B)
    BY DEF Entries, KeptAt
  <1> QED BY <1>1, WithoutEnumerates

(* Where a filter puts what it keeps: any numbering of the kept positions  *)
(* that agrees with their ranks gives the result.                          *)
LEMMA WithoutIs ==
  ASSUME NEW T, NEW s \in Seq(T), NEW S, NEW n \in Nat, NEW at,
         Cardinality(KeptAt(s, S)) = n,
         \A i \in 1 .. n : at[i] \in KeptAt(s, S) /\ RankIn(KeptAt(s, S), at[i]) = i
  PROVE  Without(s, S) = [i \in 1 .. n |-> s[at[i]]]
  <1> DEFINE Kept == KeptAt(s, S)
             Rank(k) == RankIn(Kept, k)
  <1>1. Kept \in SUBSET (1 .. Len(s)) /\ Len(s) \in Nat
    BY DEF KeptAt
  <1>2. \A j, k \in Kept : Rank(j) = Rank(k) => j = k
    <2> HIDE DEF Kept
    <2> QED BY <1>1, RankBijective DEF RankIn
  <1>4. Without(s, S) = [i \in 1 .. n |-> s[CHOOSE k \in Kept : Rank(k) = i]]
    BY WithoutEnumerates DEF Enumerated
  <1> HIDE DEF Kept, Rank
  <1>5. \A i \in 1 .. n : (CHOOSE k \in Kept : Rank(k) = i) = at[i]
    BY <1>2 DEF Kept, Rank
  <1> QED BY <1>4, <1>5

(* The numbers up to i, and those without one of them, counted.            *)
LEMMA UptoCount ==
  ASSUME NEW i \in Nat
  PROVE  /\ IsFiniteSet(1 .. i) /\ Cardinality(1 .. i) = i
         /\ \A d \in 1 .. i : Cardinality((1 .. i) \ {d}) = i - 1
  <1>1. IsFiniteSet(1 .. i) /\ Cardinality(1 .. i) = IF 1 > i THEN 0 ELSE i - 1 + 1
    BY FS_Interval, 1 \in Int, i \in Int
  <1>2. Cardinality(1 .. i) = i
    BY <1>1
  <1>3. ASSUME NEW d \in 1 .. i PROVE Cardinality((1 .. i) \ {d}) = i - 1
    <2> DEFINE I == 1 .. i
    <2>1. IsFiniteSet(I) /\ Cardinality(I) = i /\ d \in I
      BY <1>1, <1>2
    <2> HIDE DEF I
    <2>2. Cardinality(I \ {d}) = Cardinality(I) - 1
      BY <2>1, FS_RemoveElement
    <2> QED BY <2>1, <2>2 DEF I
  <1> QED BY <1>1, <1>2, <1>3

(* A filter that finds nothing changes nothing.                            *)
LEMMA WithoutNone ==
  ASSUME NEW T, NEW s \in Seq(T), NEW S, Entries(s) \cap S = {}
  PROVE  Without(s, S) = s
  <1> DEFINE n == Len(s)
             at == [i \in 1 .. n |-> i]
             Kept == KeptAt(s, S)
  <1>1. Kept = 1 .. n /\ n \in Nat
    BY DEF Entries, KeptAt
  <1> HIDE DEF Kept, n
  <1>2. ASSUME NEW i \in 1 .. n PROVE at[i] \in Kept /\ RankIn(Kept, at[i]) = i
    <2>1. {m \in Kept : m <= i} = 1 .. i /\ i \in Nat
      BY <1>1
    <2>2. RankIn(Kept, i) = i
      BY <2>1, UptoCount DEF RankIn
    <2> QED BY <1>1, <2>2
  <1>3. Cardinality(Kept) = n
    BY <1>1, UptoCount
  <1>4. Without(s, S) = [i \in 1 .. n |-> s[at[i]]]
    <2> HIDE DEF at
    <2> QED BY <1>1, <1>2, <1>3, WithoutIs DEF Kept
  <1>5. [i \in 1 .. n |-> s[at[i]]] = [i \in 1 .. n |-> s[i]]
    OBVIOUS
  <1> QED BY <1>4, <1>5 DEF n

(* Filtering out what was inserted gives back the list.                    *)
LEMMA WithoutInserted ==
  ASSUME NEW T, NEW s \in Seq(T), NEW v \in T, v \notin Entries(s), NEW c \in 0 .. Len(s)
  PROVE  Without(PlacedAt(s, v, c), {v}) = s
  <1> DEFINE n == Len(s)
             w == PlacedAt(s, v, c)
             at == [i \in 1 .. n |-> IF i <= c THEN i ELSE i + 1]
             V == {v}
             Kept == KeptAt(w, V)
             Val(i) == IF i <= c THEN s[i] ELSE IF i = c + 1 THEN v ELSE s[i - 1]
  <1>0. w \in Seq(T) /\ Len(w) = n + 1
    BY PlacedAtValues
  <1>1. \A i \in 1 .. n + 1 : w[i] = Val(i)
    BY PlacedAtValues
  <1>2. \A i \in 1 .. n : s[i] # v
    BY DEF Entries
  <1>n. n \in Nat /\ c \in 0 .. n
    OBVIOUS
  <1> HIDE DEF w, n
  <1>d. DOMAIN w = 1 .. n + 1
    BY <1>0, <1>n
  <1>3. Kept = (1 .. n + 1) \ {c + 1}
    <2>1. \A i \in 1 .. n + 1 : w[i] = v <=> i = c + 1
      <3> SUFFICES ASSUME NEW i \in 1 .. n + 1 PROVE w[i] = v <=> i = c + 1
        OBVIOUS
      <3>1. CASE i <= c
        <4>1. i \in 1 .. n /\ w[i] = s[i] /\ i # c + 1
          BY <1>1, <1>n, <3>1
        <4> QED BY <1>2, <4>1
      <3>2. CASE i = c + 1
        BY <1>1, <1>n, <3>2
      <3>3. CASE i > c + 1
        <4>1. i - 1 \in 1 .. n /\ w[i] = s[i - 1] /\ i # c + 1
          BY <1>1, <1>n, <3>3
        <4> QED BY <1>2, <4>1
      <3> QED BY <1>n, <3>1, <3>2, <3>3
    <2> QED BY <1>d, <2>1 DEF KeptAt
  <1> HIDE DEF Kept, V
  <1>4. Cardinality(Kept) = n
    <2> DEFINE m == n + 1
               d == c + 1
    <2>1. d \in 1 .. m /\ m \in Nat /\ m - 1 = n /\ Kept = (1 .. m) \ {d}
      BY <1>n, <1>3
    <2> HIDE DEF m, d
    <2> QED BY <2>1, UptoCount
  <1>5. ASSUME NEW i \in 1 .. n PROVE at[i] \in Kept /\ RankIn(Kept, at[i]) = i
    <2>1. CASE i <= c
      <3>1. at[i] = i /\ i \in Nat /\ i \in Kept /\ {m \in Kept : m <= i} = 1 .. i
        BY <1>n, <1>3, <2>1
      <3> QED BY <3>1, UptoCount DEF RankIn
    <2>2. CASE i > c
      <3>1. at[i] = i + 1 /\ i + 1 \in Kept
        BY <1>n, <1>3, <2>2
      <3>2. {m \in Kept : m <= i + 1} = (1 .. i + 1) \ {c + 1}
        BY <1>n, <1>3, <2>2
      <3>3. RankIn(Kept, i + 1) = i
        <4> DEFINE m == i + 1
                   d == c + 1
        <4>1. d \in 1 .. m /\ m \in Nat /\ m - 1 = i /\ {k \in Kept : k <= m} = (1 .. m) \ {d}
          BY <1>n, <2>2, <3>2
        <4> HIDE DEF m, d
        <4>2. RankIn(Kept, m) = i
          BY <4>1, UptoCount DEF RankIn
        <4> QED BY <4>2 DEF m
      <3> QED BY <3>1, <3>3
    <2> QED BY <1>n, <2>1, <2>2
  <1>6. ASSUME NEW i \in 1 .. n PROVE w[at[i]] = s[i]
    <2>1. CASE i <= c
      BY <1>1, <1>n, <2>1
    <2>2. CASE i > c
      <3>1. at[i] = i + 1 /\ i + 1 \in 1 .. n + 1 /\ ~(i + 1 <= c) /\ i + 1 # c + 1 /\ i + 1 - 1 = i
        BY <1>n, <2>2
      <3> QED BY <1>1, <3>1
    <2> QED BY <1>n, <2>1, <2>2
  <1> HIDE DEF at
  <1>7. Without(w, V) = [i \in 1 .. n |-> w[at[i]]]
    BY <1>0, <1>n, <1>4, <1>5, WithoutIs DEF Kept
  <1>8. Without(w, V) = [i \in 1 .. n |-> s[i]]
    BY <1>6, <1>7
  <1> QED BY <1>8 DEF w, n, V

(* So pushing or inserting a new value keeps the order of the others.      *)
LEMMA WithoutNew ==
  ASSUME NEW T, NEW s \in Seq(T), NoRepeats(s), NEW v, v \notin Entries(s)
  PROVE  /\ Without(Append(s, v), {v}) = s
         /\ \A rel : \A after \in BOOLEAN : Without(InsertRelative(s, v, rel, after), {v}) = s
  <1> DEFINE U == T \cup {v}
  <1>1. s \in Seq(U) /\ v \in U
    OBVIOUS
  <1> HIDE DEF U
  <1>2. Append(s, v) = PlacedAt(s, v, Len(s))
    BY <1>1 DEF PlacedAt
  <1>3. Len(s) \in 0 .. Len(s)
    OBVIOUS
  <1>4. ASSUME NEW rel, NEW after \in BOOLEAN
        PROVE  \E c \in 0 .. Len(s) : InsertRelative(s, v, rel, after) = PlacedAt(s, v, c)
    <2>1. PICK c \in 0 .. Len(s) : IsPlaceOf(s, rel, c)
      BY <1>1, PlaceExists
    <2>2. InsertRelative(s, v, rel, after)
            = PlacedAt(s, v, IF after /\ c < Len(s) THEN c + 1 ELSE c)
      BY <1>1, <2>1, InsertRelativeAt
    <2>3. (IF after /\ c < Len(s) THEN c + 1 ELSE c) \in 0 .. Len(s)
      OBVIOUS
    <2> QED BY <2>2, <2>3
  <1> QED BY <1>1, <1>2, <1>3, <1>4, WithoutInserted

(* An occurrence of d comes before all occurrences of x.                   *)
Ahead(s, d, x) == \E i \in DOMAIN s : s[i] = d /\ \A j \in 1 .. i : s[j] # x

(* A filter that keeps d and x keeps which of them comes first.            *)
LEMMA WithoutAhead ==
  ASSUME NEW T, NEW s \in Seq(T), NEW S, NEW d, d \notin S, NEW x, x \notin S
  PROVE  Ahead(Without(s, S), d, x) <=> Ahead(s, d, x)
  <1> DEFINE w == Without(s, S)
             Kept == KeptAt(s, S)
             Rank(k) == RankIn(Kept, k)
             N == Cardinality(Kept)
             Pos(i) == CHOOSE k \in Kept : Rank(k) = i
  <1>1. Kept \in SUBSET (1 .. Len(s)) /\ Len(s) \in Nat /\ DOMAIN s = 1 .. Len(s)
    BY DEF KeptAt
  <1>2. /\ N \in Nat /\ \A k \in Kept : Rank(k) \in 1 .. N
        /\ \A j, k \in Kept : Rank(j) = Rank(k) => j = k
        /\ \A i \in 1 .. N : \E k \in Kept : Rank(k) = i
    <2> HIDE DEF Kept
    <2> QED BY <1>1, RankBijective DEF RankIn
  <1>3. w = [i \in 1 .. N |-> s[Pos(i)]]
    BY WithoutEnumerates DEF Enumerated
  <1>4. \A k \in DOMAIN s : s[k] \in {d, x} => k \in Kept
    BY DEF KeptAt
  <1>5. \A j, k \in Kept : j <= k => Rank(j) <= Rank(k)
    <2> SUFFICES ASSUME NEW j \in Kept, NEW k \in Kept, j <= k PROVE Rank(j) <= Rank(k)
      OBVIOUS
    <2> DEFINE U(i) == {m \in Kept : m <= i}
    <2> HIDE DEF Kept
    <2>1. U(j) \in SUBSET U(k) /\ U(k) \in SUBSET (1 .. Len(s))
      <3>1. \A m \in Kept : m \in Int
        BY <1>1
      <3>2. \A m \in Kept : m <= j => m <= k
        BY <3>1
      <3> QED BY <1>1, <3>2
    <2>2. IsFiniteSet(1 .. Len(s))
      BY <1>1, FS_Interval, 1 \in Int, Len(s) \in Int
    <2> HIDE DEF U
    <2>3. Cardinality(U(j)) <= Cardinality(U(k))
      BY <2>1, <2>2, FS_Subset
    <2> QED BY <2>3 DEF U, RankIn
  <1> HIDE DEF w, Kept, Rank, N
  <1>6. \A i \in 1 .. N : Pos(i) \in Kept /\ Rank(Pos(i)) = i
    BY <1>2
  <1>7. \A k \in Kept : w[Rank(k)] = s[k]
    BY <1>2, <1>3, <1>6
  <1> HIDE DEF Pos
  <1>8. ASSUME NEW i \in DOMAIN s, s[i] = d, \A j \in 1 .. i : s[j] # x
        PROVE  Ahead(w, d, x)
    <2>1. i \in Kept
      BY <1>4, <1>8
    <2>2. Rank(i) \in DOMAIN w /\ w[Rank(i)] = d
      BY <1>2, <1>3, <1>7, <1>8, <2>1
    <2>3. ASSUME NEW m \in 1 .. Rank(i), w[m] = x PROVE FALSE
      <3>1. m \in 1 .. N
        BY <1>2, <2>1
      <3>2. Pos(m) \in Kept /\ s[Pos(m)] = x /\ Rank(Pos(m)) = m
        BY <1>3, <1>6, <2>3, <3>1
      <3>3. ~(Pos(m) \in 1 .. i)
        BY <1>8, <3>2
      <3>4. i <= Pos(m)
        BY <1>1, <2>1, <3>2, <3>3
      <3>5. Rank(i) <= m
        BY <1>5, <2>1, <3>2, <3>4
      <3>6. Rank(i) = m
        BY <1>2, <2>1, <3>5
      <3>7. Pos(m) = i
        BY <1>2, <2>1, <3>2, <3>6
      <3> QED BY <1>1, <2>1, <3>3, <3>7
    <2> QED BY <2>2, <2>3 DEF Ahead
  <1>9. ASSUME NEW i \in DOMAIN w, w[i] = d, \A j \in 1 .. i : w[j] # x
        PROVE  Ahead(s, d, x)
    <2>1. i \in 1 .. N
      BY <1>3
    <2>2. Pos(i) \in Kept /\ s[Pos(i)] = d /\ Rank(Pos(i)) = i
      BY <1>3, <1>6, <1>9, <2>1
    <2>3. ASSUME NEW j \in 1 .. Pos(i), s[j] = x PROVE FALSE
      <3>0. Pos(i) \in 1 .. Len(s)
        BY <1>1, <2>2
      <3>1. j \in DOMAIN s /\ j <= Pos(i)
        BY <1>1, <3>0
      <3>2. j \in Kept
        BY <1>4, <2>3, <3>1
      <3>3. Rank(j) <= i
        BY <1>5, <2>2, <3>1, <3>2
      <3>4. Rank(j) \in 1 .. i
        BY <1>2, <2>1, <3>2, <3>3
      <3> QED BY <1>7, <1>9, <2>3, <3>2, <3>4
    <2>4. Pos(i) \in DOMAIN s
      BY <1>1, <2>2
    <2> QED BY <2>2, <2>3, <2>4 DEF Ahead
  <1> QED BY <1>8, <1>9 DEF Ahead, w
=============================================================================
