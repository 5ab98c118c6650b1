-------------------------- MODULE ZipperVecProofs --------------------------
(***************************************************************************)
(* ZipperVec implements EditList, for every set of values and every bound: *)
(* moving the cursor is invisible in the iteration order, and each call    *)
(* does to that order what it does to a plain list.                        *)
(***************************************************************************)
EXTENDS ZipperVec, ListOpsProofs

(* A non-empty sequence is its front followed by its last entry.           *)
LEMMA FrontLast ==
  ASSUME NEW S, NEW p \in Seq(S), p # <<>>
  PROVE  /\ Front(p) \in Seq(S) /\ Last(p) \in S
         /\ Len(Front(p)) = Len(p) - 1 /\ Len(p) >= 1
         /\ p = Append(Front(p), Last(p))
  <1>1. Len(p) \in Nat /\ Len(p) >= 1
    BY EmptySeq
  <1>2. Last(p) \in S
    BY <1>1 DEF Last
  <1>3. /\ Front(p) \in Seq(S) /\ Len(Front(p)) = Len(p) - 1
        /\ \A i \in 1 .. Len(p) - 1 : Front(p)[i] = p[i]
    <2>1. \A n \in 0 .. Len(p) : /\ SubSeq(p, 1, n) \in Seq(S) /\ Len(SubSeq(p, 1, n)) = n
                                 /\ \A i \in 1 .. n : SubSeq(p, 1, n)[i] = p[i]
      OBVIOUS
    <2>2. Len(p) - 1 \in 0 .. Len(p)
      BY <1>1
    <2> QED BY <2>1, <2>2 DEF Front
  <1>4. /\ Append(Front(p), Last(p)) \in Seq(S)
        /\ Len(Append(Front(p), Last(p))) = Len(p)
        /\ \A i \in 1 .. Len(p) : Append(Front(p), Last(p))[i] = p[i]
    BY <1>1, <1>2, <1>3 DEF Last
  <1>5. p = Append(Front(p), Last(p))
    BY <1>4, SeqEqual
  <1> QED BY <1>1, <1>2, <1>3, <1>5

(* Reversal turns a push at one end into one at the other.                 *)
LEMMA ReverseAppend ==
  ASSUME NEW S, NEW s \in Seq(S), NEW x \in S
  PROVE  /\ Reverse(s) \in Seq(S) /\ Len(Reverse(s)) = Len(s)
         /\ Reverse(Append(s, x)) = <<x>> \o Reverse(s)
  BY DEF Reverse

(* Moving the entry between two sequences keeps their concatenation.       *)
LEMMA ShiftOne ==
  ASSUME NEW S, NEW p \in Seq(S), NEW r \in Seq(S), NEW x \in S
  PROVE  p \o (<<x>> \o r) = Append(p, x) \o r
  BY AppendIsConcat, ConcatAssociative

(* Moving an entry across the cursor keeps the iteration order.            *)
LEMMA CrossCursor ==
  ASSUME NEW S, NEW p \in Seq(S), NEW s \in Seq(S), NEW x \in S
  PROVE  p \o Reverse(Append(s, x)) = Append(p, x) \o Reverse(s)
  <1>1. /\ Reverse(s) \in Seq(S)
        /\ Reverse(Append(s, x)) = <<x>> \o Reverse(s)
    BY ReverseAppend
  <1>2. p \o (<<x>> \o Reverse(s)) = Append(p, x) \o Reverse(s)
    BY <1>1, ShiftOne
  <1> QED BY <1>1, <1>2

(* dec_cursor and inc_cursor keep the iteration order.                     *)
LEMMA DecKeepsIter ==
  ASSUME NEW S, NEW p \in Seq(S), NEW s \in Seq(S), p # <<>>
  PROVE  Front(p) \o Reverse(Append(s, Last(p))) = p \o Reverse(s)
  <1>1. /\ Front(p) \in Seq(S) /\ Last(p) \in S
        /\ p = Append(Front(p), Last(p))
    BY FrontLast
  <1>2. Front(p) \o Reverse(Append(s, Last(p))) = Append(Front(p), Last(p)) \o Reverse(s)
    BY <1>1, CrossCursor
  <1> QED BY <1>1, <1>2

(* Moving the cursor forward keeps the iteration order.                    *)
LEMMA IncKeepsIter ==
  ASSUME NEW S, NEW p \in Seq(S), NEW s \in Seq(S), s # <<>>
  PROVE  Append(p, Last(s)) \o Reverse(Front(s)) = p \o Reverse(s)
  <1>1. /\ Front(s) \in Seq(S) /\ Last(s) \in S
        /\ s = Append(Front(s), Last(s))
    BY FrontLast
  <1>2. p \o Reverse(Append(Front(s), Last(s))) = Append(p, Last(s)) \o Reverse(Front(s))
    BY <1>1, CrossCursor
  <1> QED BY <1>1, <1>2

(* The iteration order has the entries of the prefix first, and the top of *)
(* the suffix right after them.                                            *)
LEMMA IterIndex ==
  ASSUME NEW S, NEW p \in Seq(S), NEW s \in Seq(S)
  PROVE  /\ Len(p \o Reverse(s)) = Len(p) + Len(s)
         /\ p \o Reverse(s) \in Seq(S)
         /\ \A i \in 1 .. Len(p) : (p \o Reverse(s))[i] = p[i]
         /\ s # <<>> => (p \o Reverse(s))[Len(p) + 1] = Last(s) /\ Last(s) \in S
  BY DEF Last, Reverse

(* Pushing onto the prefix places the value at the cursor.                 *)
LEMMA PushPrefixPlaces ==
  ASSUME NEW S, NEW p \in Seq(S), NEW s \in Seq(S), NEW v \in S
  PROVE  Append(p, v) \o Reverse(s) = PlacedAt(p \o Reverse(s), v, Len(p))
  <1>1. Reverse(s) \in Seq(S)
    BY DEF Reverse
  <1>2. ASSUME NEW t \in Seq(S)
        PROVE  /\ SubSeq(p \o t, 1, Len(p)) = p
               /\ SubSeq(p \o t, Len(p) + 1, Len(p \o t)) = t
               /\ Append(p, v) = p \o <<v>>
    OBVIOUS
  <1> QED BY <1>1, <1>2 DEF PlacedAt

(* Pushing onto the suffix also places the value at the cursor.            *)
LEMMA PushSuffixPlaces ==
  ASSUME NEW S, NEW p \in Seq(S), NEW s \in Seq(S), NEW v \in S
  PROVE  p \o Reverse(Append(s, v)) = PlacedAt(p \o Reverse(s), v, Len(p))
  <1>1. p \o Reverse(Append(s, v)) = Append(p, v) \o Reverse(s)
    BY CrossCursor
  <1>2. Append(p, v) \o Reverse(s) = PlacedAt(p \o Reverse(s), v, Len(p))
    BY PushPrefixPlaces
  <1> QED BY <1>1, <1>2

(* Popping the suffix removes the entry at the cursor.                     *)
LEMMA PopSuffixRemoves ==
  ASSUME NEW S, NEW p \in Seq(S), NEW s \in Seq(S), s # <<>>
  PROVE  LET t == p \o Reverse(s)
         IN  p \o Reverse(Front(s)) = SubSeq(t, 1, Len(p)) \o SubSeq(t, Len(p) + 2, Len(t))
  <1> DEFINE r == Reverse(Front(s))
             x == Last(s)
  <1>1. r \in Seq(S) /\ x \in S /\ Reverse(s) = <<x>> \o r
    BY DEF Front, Last, Reverse
  <1> HIDE DEF r, x
  <1>2. /\ SubSeq(p \o (<<x>> \o r), 1, Len(p)) = p
        /\ SubSeq(p \o (<<x>> \o r), Len(p) + 2, Len(p \o (<<x>> \o r))) = r
    BY <1>1
  <1> QED BY <1>1, <1>2 DEF r

-----------------------------------------------------------------------------

USE DEF Idle, PushCalls, PopCalls, MoveCalls, InsertCalls, FilterCalls,
        Plain!Idle, Plain!PushCalls, Plain!PopCalls, Plain!MoveCalls,
        Plain!InsertCalls, Plain!FilterCalls, Plain!Calls, Plain!Grows

(* The list operations EditList uses are the ones ZipperVec uses.          *)
LEMMA PlainOps ==
  /\ \A s \in Seq(Values) : \A S : Plain!Without(s, S) = Without(s, S)
  /\ \A s, v, rel, after :
       Plain!InsertRelative(s, v, rel, after) = InsertRelative(s, v, rel, after)
  <1>1. \A S : Plain!Cardinality(S) = Cardinality(S)
    BY DEF Plain!Cardinality, Cardinality
  <1>2. ASSUME NEW s \in Seq(Values), NEW S
        PROVE  Plain!Without(s, S) = Without(s, S)
    <2> DEFINE Kept == {k \in DOMAIN s : s[k] \notin S}
               Rank(k) == Cardinality({m \in Kept : m <= k})
               PlainRank(k) == Plain!Cardinality({m \in Kept : m <= k})
               N == Cardinality(Kept)
               Pos(i) == CHOOSE k \in Kept : Rank(k) = i
               PlainPos(i) == CHOOSE k \in Kept : PlainRank(k) = i
    <2>1. Kept \in SUBSET (1 .. Len(s)) /\ Len(s) \in Nat
      OBVIOUS
    <2>2. /\ \A j, k \in Kept : Rank(j) = Rank(k) => j = k
          /\ \A i \in 1 .. N : \E k \in Kept : Rank(k) = i
      <3> HIDE DEF Kept
      <3> QED BY <2>1, RankBijective
    <2>3. \A k : PlainRank(k) = Rank(k)
      <3> HIDE DEF Kept
      <3> QED BY <1>1
    <2>4. /\ Without(s, S) = [i \in 1 .. N |-> s[Pos(i)]]
          /\ Plain!Without(s, S) = [i \in 1 .. Plain!Cardinality(Kept) |-> s[PlainPos(i)]]
      BY DEF Without, Plain!Without
    <2>5. Plain!Cardinality(Kept) = N
      BY <1>1
    <2> HIDE DEF Kept, Rank, PlainRank, N
    <2>6. \A i \in 1 .. N : Pos(i) = PlainPos(i)
      BY <2>2, <2>3
    <2> HIDE DEF Pos, PlainPos
    <2> QED BY <2>4, <2>5, <2>6
  <1>3. \A s, v, rel, after :
          Plain!InsertRelative(s, v, rel, after) = InsertRelative(s, v, rel, after)
    BY DEF Plain!InsertRelative, InsertRelative,
           Plain!IsPlaceOf, IsPlaceOf, Plain!PlacedAt, PlacedAt
  <1> QED BY <1>2, <1>3

Inv == TypeOK /\ ScanInv

(* One step of a cursor loop, in either direction: the types stay and the  *)
(* iteration order does not change.                                        *)
LEMMA CursorStep ==
  ASSUME prefix \in Seq(Values), suffix_r \in Seq(Values), dec_cursor \/ inc_cursor
  PROVE  /\ prefix' \in Seq(Values) /\ suffix_r' \in Seq(Values)
         /\ len' = len
         /\ iter' = iter
  <1>1. CASE dec_cursor
    <2>1. /\ Front(prefix) \in Seq(Values) /\ Last(prefix) \in Values
          /\ Len(Front(prefix)) = Len(prefix) - 1
      BY <1>1, FrontLast DEF dec_cursor
    <2>2. Front(prefix) \o Reverse(Append(suffix_r, Last(prefix))) = iter
      BY <1>1, DecKeepsIter DEF dec_cursor, iter
    <2> QED BY <1>1, <2>1, <2>2 DEF dec_cursor, iter, len
  <1>2. CASE inc_cursor
    <2>1. /\ Front(suffix_r) \in Seq(Values) /\ Last(suffix_r) \in Values
          /\ Len(Front(suffix_r)) = Len(suffix_r) - 1
      BY <1>2, FrontLast DEF inc_cursor
    <2>2. Append(prefix, Last(suffix_r)) \o Reverse(Front(suffix_r)) = iter
      BY <1>2, IncKeepsIter DEF inc_cursor, iter
    <2> QED BY <1>2, <2>1, <2>2 DEF inc_cursor, iter, len
  <1> QED BY <1>1, <1>2

(* No call is under way at the start.                                      *)
LEMMA InitInv == Init => Inv
  BY MaxLenAssumption DEF Init, Inv, TypeOK, ScanInv, len, Phases

(* Every step keeps the invariant.                                         *)
LEMMA NextInv == Inv /\ [Next]_vars => Inv'
  <1> SUFFICES ASSUME Inv, [Next]_vars PROVE Inv'
    OBVIOUS
  <1> USE MaxLenAssumption, NoneAssumption
  <1>t. TypeOK /\ ScanInv
    BY DEF Inv
  <1>0. len \in Nat /\ Len(prefix) \in Nat /\ Len(suffix_r) \in Nat
    BY <1>t DEF TypeOK, len
  <1>1. ASSUME NEW c \in Plain!Calls, Invoke(c) PROVE Inv'
    BY <1>t, <1>0, <1>1 DEF TypeOK, ScanInv, Inv, Invoke, len, Phases
  <1>2. CASE move_cursor
    <2>1. /\ prefix' \in Seq(Values) /\ suffix_r' \in Seq(Values)
          /\ len' = len
      BY <1>t, <1>2, CursorStep DEF TypeOK, move_cursor
    <2>2. UNCHANGED <<call, phase, ret>> /\ phase = "move"
      BY <1>2 DEF move_cursor
    <2> QED BY <1>t, <1>0, <2>1, <2>2 DEF TypeOK, ScanInv, Inv
  <1>3. CASE PushDone
    <2>1. call \in PushCalls /\ Len(prefix') = Len(prefix) + 1
      BY <1>t, <1>3 DEF TypeOK, PushDone
    <2>2. prefix' \in Seq(Values) /\ suffix_r' \in Seq(Values)
      BY <1>t, <1>3 DEF TypeOK, PushDone
    <2>3. call' = Idle /\ phase' = "idle" /\ ret' = None
      BY <1>3 DEF PushDone, Answer
    <2>4. len' <= MaxLen
      BY <1>t, <1>0, <1>3, <2>1 DEF ScanInv, PushDone, len
    <2> QED BY <2>2, <2>3, <2>4 DEF TypeOK, ScanInv, Inv, Phases
  <1>4. CASE MoveDone
    BY <1>t, <1>0, <1>4 DEF TypeOK, ScanInv, Inv, MoveDone, Answer, len, Phases
  <1>5. CASE PopDone
    <2>1. CASE call.at < len
      <3>1. suffix_r # <<>>
        BY <1>t, <1>0, <1>5, <2>1 DEF TypeOK, PopDone, Moved, target, len, cursor_pos
      <3>2. /\ Front(suffix_r) \in Seq(Values) /\ Last(suffix_r) \in Values
            /\ Len(Front(suffix_r)) = Len(suffix_r) - 1
        BY <1>t, <3>1, FrontLast DEF TypeOK
      <3>3. /\ prefix' = prefix /\ suffix_r' = Front(suffix_r)
            /\ call' = Idle /\ phase' = "idle" /\ ret' = Last(suffix_r)
        BY <1>5, <2>1 DEF PopDone, Answer
      <3> QED BY <1>t, <1>0, <3>2, <3>3 DEF TypeOK, ScanInv, Inv, len, Phases
    <2>2. CASE ~(call.at < len)
      <3>3. /\ prefix' = prefix /\ suffix_r' = suffix_r
            /\ call' = Idle /\ phase' = "idle" /\ ret' = None
        BY <1>5, <2>2 DEF PopDone, Answer
      <3> QED BY <1>t, <1>0, <3>3 DEF TypeOK, ScanInv, Inv, len, Phases
    <2> QED BY <2>1, <2>2
  <1>6. CASE Rewind
    <2>1. CASE prefix = <<>>
      BY <1>t, <1>0, <1>6, <2>1 DEF TypeOK, ScanInv, Inv, Rewind, len, Phases
    <2>2. CASE prefix # <<>>
      <3>1. dec_cursor /\ UNCHANGED <<call, phase, ret>> /\ phase = "rewind"
        BY <1>6, <2>2 DEF Rewind
      <3>2. /\ prefix' \in Seq(Values) /\ suffix_r' \in Seq(Values)
            /\ len' = len
        BY <1>t, <3>1, CursorStep DEF TypeOK
      <3> QED BY <1>t, <1>0, <3>1, <3>2 DEF TypeOK, ScanInv, Inv
    <2> QED BY <2>1, <2>2
  <1>7. CASE Scan
    <2>1. /\ prefix' \in Seq(Values) /\ suffix_r' \in Seq(Values)
          /\ len' = len
      BY <1>t, <1>7, CursorStep DEF TypeOK, Scan
    <2>2. UNCHANGED <<call, phase, ret>> /\ phase = "scan"
      BY <1>7 DEF Scan
    <2>3. prefix' = Append(prefix, Last(suffix_r)) /\ Last(suffix_r) # call.rel
      BY <1>7 DEF Scan, inc_cursor
    <2>4. \A i \in 1 .. Len(prefix') : prefix'[i] # call.rel
      BY <1>t, <1>0, <2>2, <2>3 DEF TypeOK, ScanInv
    <2> QED BY <1>t, <1>0, <2>1, <2>2, <2>4 DEF TypeOK, ScanInv, Inv
  <1>8. CASE InsertDone
    <2>1. call \in InsertCalls
      BY <1>t, <1>8 DEF TypeOK, InsertDone
    <2>2. len < MaxLen
      BY <1>t, <2>1 DEF ScanInv
    <2>3. /\ prefix' \in Seq(Values) /\ suffix_r' \in Seq(Values)
          /\ len' = len + 1
      <3>1. suffix_r # <<>> => /\ Front(suffix_r) \in Seq(Values) /\ Last(suffix_r) \in Values
                               /\ Len(Front(suffix_r)) = Len(suffix_r) - 1
        BY <1>t, FrontLast DEF TypeOK
      <3>2. call.val \in Values
        BY <2>1
      <3>3. \/ prefix' = prefix /\ suffix_r' = <<call.val>> /\ suffix_r = <<>>
            \/ /\ prefix' = Append(prefix, Last(suffix_r)) /\ suffix_r # <<>>
               /\ suffix_r' = Append(Front(suffix_r), call.val)
            \/ prefix' = Append(prefix, call.val) /\ suffix_r' = suffix_r
        BY <1>8 DEF InsertDone
      <3>4. CASE prefix' = prefix /\ suffix_r' = <<call.val>> /\ suffix_r = <<>>
        BY <1>t, <3>2, <3>4 DEF TypeOK, len
      <3>5. CASE /\ prefix' = Append(prefix, Last(suffix_r)) /\ suffix_r # <<>>
                 /\ suffix_r' = Append(Front(suffix_r), call.val)
        <4>1. /\ Front(suffix_r) \in Seq(Values) /\ Last(suffix_r) \in Values
              /\ Len(Front(suffix_r)) = Len(suffix_r) - 1
          BY <3>1, <3>5
        <4>2. prefix' \in Seq(Values) /\ Len(prefix') = Len(prefix) + 1
          BY <1>t, <3>5, <4>1 DEF TypeOK
        <4>3. suffix_r' \in Seq(Values) /\ Len(suffix_r') = Len(Front(suffix_r)) + 1
          BY <3>2, <3>5, <4>1
        <4> QED BY <1>0, <4>1, <4>2, <4>3 DEF len
      <3>6. CASE prefix' = Append(prefix, call.val) /\ suffix_r' = suffix_r
        BY <1>t, <1>0, <3>2, <3>6 DEF TypeOK, len
      <3> QED BY <3>3, <3>4, <3>5, <3>6
    <2>4. call' = Idle /\ phase' = "idle" /\ ret' = None
      BY <1>8 DEF InsertDone, Answer
    <2> QED BY <1>0, <2>2, <2>3, <2>4 DEF TypeOK, ScanInv, Inv, Phases
  <1>9. CASE InsertIntoEmpty
    <2>1. call \in InsertCalls /\ Len(prefix') = Len(prefix) + 1
      BY <1>t, <1>9 DEF TypeOK, InsertIntoEmpty
    <2>2. prefix' \in Seq(Values) /\ suffix_r' \in Seq(Values)
      BY <1>t, <1>9 DEF TypeOK, InsertIntoEmpty
    <2>3. call' = Idle /\ phase' = "idle" /\ ret' = None
      BY <1>9 DEF InsertIntoEmpty, Answer
    <2>4. len' <= MaxLen
      BY <1>t, <1>0, <1>9, <2>1 DEF ScanInv, InsertIntoEmpty, len
    <2> QED BY <2>2, <2>3, <2>4 DEF TypeOK, ScanInv, Inv, Phases
  <1>10. CASE FilterDone
    <2>1. iter \in Seq(Values) /\ Len(iter) = len
      BY <1>t, IterIndex DEF TypeOK, iter, len
    <2>2. /\ Without(iter, {call.val}) \in Seq(Values)
          /\ Len(Without(iter, {call.val})) <= Len(iter)
      BY <2>1, WithoutProperties, WithoutLength
    <2>3. /\ prefix' = Without(iter, {call.val}) /\ suffix_r' = <<>>
          /\ call' = Idle /\ phase' = "idle" /\ ret' = None
      BY <1>10 DEF FilterDone, Answer
    <2>4. len' <= MaxLen
      BY <1>t, <1>0, <2>1, <2>2, <2>3 DEF TypeOK, len
    <2> QED BY <2>2, <2>3, <2>4 DEF TypeOK, ScanInv, Inv, Phases
  <1>11. CASE UNCHANGED vars
    BY <1>t, <1>11 DEF TypeOK, ScanInv, Inv, vars, len
  <1> QED
    BY <1>1, <1>2, <1>3, <1>4, <1>5, <1>6, <1>7, <1>8, <1>9, <1>10, <1>11 DEF Next, Step

(* The representation is well typed in every state.                        *)
THEOREM ZipperTypeCorrect == Spec => []TypeOK
  BY InitInv, NextInv, PTL DEF Spec, Inv

(* The scan of insert_relative has never passed the element it looks for.  *)
THEOREM ZipperScans == Spec => []ScanInv
  BY InitInv, NextInv, PTL DEF Spec, Inv

(* Every step is a step of the plain list, or leaves it as it is.          *)
LEMMA NextRefines == Inv /\ [Next]_vars => [Plain!Next]_(Plain!listVars)
  <1> SUFFICES ASSUME Inv, [Next]_vars PROVE [Plain!Next]_(Plain!listVars)
    OBVIOUS
  <1> USE MaxLenAssumption, NoneAssumption
  <1>t. TypeOK /\ ScanInv
    BY DEF Inv
  <1>0. /\ len \in Nat /\ Len(prefix) \in Nat /\ Len(suffix_r) \in Nat
        /\ Len(iter) = len /\ iter \in Seq(Values)
        /\ \A i \in 1 .. Len(prefix) : iter[i] = prefix[i]
        /\ suffix_r # <<>> => iter[Len(prefix) + 1] = Last(suffix_r)
    BY <1>t, IterIndex DEF TypeOK, len, iter
  <1>1. ASSUME NEW c \in Plain!Calls, Invoke(c) PROVE Plain!Next
    <2>1. Plain!Invoke(c)
      BY <1>0, <1>1 DEF Invoke, Plain!Invoke, iter
    <2> QED BY <2>1 DEF Plain!Next
  <1>2. CASE move_cursor
    BY <1>t, <1>2, CursorStep DEF TypeOK, move_cursor, Plain!listVars
  <1>3. CASE PushDone
    <2>1. call \in PushCalls /\ suffix_r = <<>>
      BY <1>t, <1>0, <1>3 DEF TypeOK, PushDone, Moved, target, cursor_pos, len
    <2>2. iter = prefix /\ iter' = Append(prefix, call.val)
      BY <1>t, <1>3, <2>1 DEF TypeOK, PushDone, iter, Reverse
    <2> QED BY <1>3, <2>1, <2>2 DEF PushDone, Answer, Plain!Push, Plain!Answer, Plain!Next
  <1>4. CASE MoveDone
    BY <1>4 DEF MoveDone, Answer, iter, Plain!MoveCursor, Plain!Answer, Plain!Next
  <1>5. CASE PopDone
    <2>0. call \in PopCalls
      BY <1>5 DEF PopDone
    <2>1. CASE call.at < len
      <3>1. call.at = Len(prefix) /\ suffix_r # <<>>
        BY <1>t, <1>0, <1>5, <2>1 DEF TypeOK, PopDone, Moved, target, len, cursor_pos
      <3>2. prefix \o Reverse(Front(suffix_r))
              = SubSeq(iter, 1, Len(prefix)) \o SubSeq(iter, Len(prefix) + 2, Len(iter))
        BY <1>t, <3>1, PopSuffixRemoves DEF TypeOK, iter
      <3>3. iter' = SubSeq(iter, 1, call.at) \o SubSeq(iter, call.at + 2, Len(iter))
        BY <1>5, <2>1, <3>1, <3>2 DEF PopDone, iter
      <3>4. call' = Idle /\ ret' = iter[call.at + 1]
        BY <1>0, <1>5, <2>1, <3>1 DEF PopDone, Answer
      <3> QED BY <1>0, <2>0, <2>1, <3>3, <3>4 DEF Plain!Pop, Plain!Answer, Plain!Next
    <2>2. CASE ~(call.at < len)
      BY <1>0, <1>5, <2>0, <2>2 DEF PopDone, Answer, iter, Plain!Pop, Plain!Answer, Plain!Next
    <2> QED BY <2>1, <2>2
  <1>6. CASE Rewind
    <2>1. CASE prefix = <<>>
      BY <1>6, <2>1 DEF Rewind, iter, Plain!listVars
    <2>2. CASE prefix # <<>>
      BY <1>t, <1>6, <2>2, CursorStep DEF TypeOK, Rewind, Plain!listVars
    <2> QED BY <2>1, <2>2
  <1>7. CASE Scan
    BY <1>t, <1>7, CursorStep DEF TypeOK, Scan, Plain!listVars
  <1>8. CASE InsertDone
    <2>1. call \in InsertCalls /\ call.val \in Values /\ call.after \in BOOLEAN
      BY <1>t, <1>8 DEF TypeOK, InsertDone
    <2>2. Len(prefix) \in 0 .. Len(iter) /\ IsPlaceOf(iter, call.rel, Len(prefix))
      <3>1. \A i \in 1 .. Len(prefix) : prefix[i] # call.rel
        BY <1>t, <1>8 DEF ScanInv, InsertDone
      <3>2. Len(prefix) < Len(iter) => suffix_r # <<>>
        BY <1>t, <1>0 DEF TypeOK, len
      <3>3. suffix_r # <<>> => Last(suffix_r) = call.rel
        BY <1>8 DEF InsertDone
      <3> QED BY <1>0, <3>1, <3>2, <3>3 DEF IsPlaceOf, len
    <2>3. InsertRelative(iter, call.val, call.rel, call.after)
            = PlacedAt(iter, call.val,
                       IF call.after /\ Len(prefix) < Len(iter) THEN Len(prefix) + 1
                                                               ELSE Len(prefix))
      BY <1>0, <2>1, <2>2, InsertRelativeAt
    <2>4. iter' = InsertRelative(iter, call.val, call.rel, call.after)
      <3>1. CASE call.after /\ suffix_r = <<>>
        <4>1. prefix' = prefix /\ suffix_r' = Append(suffix_r, call.val)
          BY <1>8, <3>1 DEF InsertDone
        <4>2. iter' = PlacedAt(iter, call.val, Len(prefix))
          BY <1>t, <2>1, <4>1, PushSuffixPlaces DEF TypeOK, iter
        <4>3. ~(Len(prefix) < Len(iter))
          BY <1>0, <3>1 DEF len
        <4> QED BY <2>3, <4>2, <4>3
      <3>2. CASE call.after /\ suffix_r # <<>>
        <4>1. /\ prefix' = Append(prefix, Last(suffix_r))
              /\ suffix_r' = Append(Front(suffix_r), call.val)
          BY <1>8, <3>2 DEF InsertDone
        <4>2. /\ Front(suffix_r) \in Seq(Values) /\ Last(suffix_r) \in Values
              /\ Len(suffix_r) >= 1
          BY <1>t, <3>2, FrontLast DEF TypeOK
        <4>3. /\ Append(prefix, Last(suffix_r)) \in Seq(Values)
              /\ Len(Append(prefix, Last(suffix_r))) = Len(prefix) + 1
          BY <1>t, <4>2 DEF TypeOK
        <4>4. Append(prefix, Last(suffix_r)) \o Reverse(Front(suffix_r)) = iter
          BY <1>t, <3>2, IncKeepsIter DEF TypeOK, iter
        <4>5. iter' = PlacedAt(iter, call.val, Len(prefix) + 1)
          <5> DEFINE p == Append(prefix, Last(suffix_r))
                     q == Front(suffix_r)
          <5>1. p \in Seq(Values) /\ q \in Seq(Values) /\ p \o Reverse(q) = iter
            BY <4>2, <4>3, <4>4
          <5>2. iter' = p \o Reverse(Append(q, call.val))
            BY <4>1 DEF iter
          <5>3. Len(p) = Len(prefix) + 1
            BY <4>3
          <5> HIDE DEF p, q
          <5>4. p \o Reverse(Append(q, call.val)) = PlacedAt(p \o Reverse(q), call.val, Len(p))
            BY <2>1, <5>1, PushSuffixPlaces
          <5> QED BY <5>1, <5>2, <5>3, <5>4
        <4>6. Len(prefix) < Len(iter)
          BY <1>0, <4>2 DEF len
        <4> QED BY <2>3, <3>2, <4>5, <4>6
      <3>3. CASE ~call.after
        <4>1. prefix' = Append(prefix, call.val) /\ suffix_r' = suffix_r
          BY <1>8, <3>3 DEF InsertDone
        <4>2. iter' = PlacedAt(iter, call.val, Len(prefix))
          BY <1>t, <2>1, <4>1, PushPrefixPlaces DEF TypeOK, iter
        <4> QED BY <2>3, <3>3, <4>2
      <3> QED BY <3>1, <3>2, <3>3
    <2>5. call' = Idle /\ ret' = None
      BY <1>8 DEF InsertDone, Answer
    <2>6. Plain!Insert
      BY <2>1, <2>4, <2>5, PlainOps DEF Plain!Insert, Plain!Answer
    <2> QED BY <2>6 DEF Plain!Next
  <1>9. CASE InsertIntoEmpty
    <2>1. call \in InsertCalls /\ call.val \in Values /\ call.after \in BOOLEAN
      BY <1>9 DEF InsertIntoEmpty
    <2>2. len = 0
      BY <1>t, <1>9 DEF ScanInv, InsertIntoEmpty, Moved
    <2>3. Len(prefix) = 0 /\ Len(iter) = 0 /\ IsPlaceOf(iter, call.rel, 0)
      BY <1>0, <2>2 DEF len, IsPlaceOf
    <2>4. InsertRelative(iter, call.val, call.rel, call.after) = PlacedAt(iter, call.val, 0)
      <3> DEFINE s == iter
                 c == Len(iter)
      <3>1. s \in Seq(Values) /\ c \in 0 .. Len(s) /\ ~(c < Len(s)) /\ c = 0
        BY <1>0, <2>3
      <3>2. IsPlaceOf(s, call.rel, c)
        BY <2>3, <3>1
      <3> HIDE DEF s, c
      <3>3. InsertRelative(s, call.val, call.rel, call.after)
              = PlacedAt(s, call.val, IF call.after /\ c < Len(s) THEN c + 1 ELSE c)
        BY <2>1, <3>1, <3>2, InsertRelativeAt
      <3> QED BY <3>1, <3>3 DEF s
    <2>5. iter' = PlacedAt(iter, call.val, 0)
      <3>1. iter' = Append(prefix, call.val) \o Reverse(suffix_r)
        BY <1>9 DEF InsertIntoEmpty, iter
      <3>2. Append(prefix, call.val) \o Reverse(suffix_r) = PlacedAt(iter, call.val, Len(prefix))
        BY <1>t, <2>1, PushPrefixPlaces DEF TypeOK, iter
      <3> QED BY <2>3, <3>1, <3>2
    <2>6. call' = Idle /\ ret' = None
      BY <1>9 DEF InsertIntoEmpty, Answer
    <2>7. Plain!Insert
      BY <2>1, <2>4, <2>5, <2>6, PlainOps DEF Plain!Insert, Plain!Answer
    <2> QED BY <2>7 DEF Plain!Next
  <1>10. CASE FilterDone
    <2>1. Without(iter, {call.val}) \in Seq(Values)
      BY <1>0, WithoutProperties
    <2>2. iter' = Without(iter, {call.val})
      BY <1>10, <2>1 DEF FilterDone, iter, Reverse
    <2>3. call \in FilterCalls /\ call' = Idle /\ ret' = None
      BY <1>10 DEF FilterDone, Answer
    <2>4. Plain!Filter
      BY <1>0, <2>2, <2>3, PlainOps DEF Plain!Filter, Plain!Answer
    <2> QED BY <2>4 DEF Plain!Next
  <1>11. CASE UNCHANGED vars
    BY <1>11 DEF vars, iter, Plain!listVars
  <1> QED
    BY <1>1, <1>2, <1>3, <1>4, <1>5, <1>6, <1>7, <1>8, <1>9, <1>10, <1>11 DEF Next, Step

(* The initial states are those of the plain list.                         *)
LEMMA InitRefines == Init => Plain!Init
  BY DEF Init, Plain!Init, iter, Reverse

(* ZipperVec implements the plain list, wherever its cursor stands and     *)
(* whatever calls moved it there.                                          *)
THEOREM ZipperRefinesPlainList == Spec => RefinesPlainList
  BY InitInv, NextInv, InitRefines, NextRefines, PTL
     DEF Spec, RefinesPlainList, Plain!Spec

-----------------------------------------------------------------------------
(* The loops end.  inc_cursor and dec_cursor do nothing when there is      *)
(* nothing to move, and the loops around them would then turn for ever.    *)

(* How many iterations of its loops a call has left at most; of            *)
(* move_cursor exactly, as the comment of ZipperVec promises: from         *)
(* position i to position j in |i-j| iterations.                           *)
Left ==
  IF phase = "move" THEN (IF target >= cursor_pos THEN target - cursor_pos ELSE cursor_pos - target)
  ELSE IF phase = "rewind" THEN cursor_pos + (len + 1)
  ELSE Len(suffix_r)

(* A call returns, or goes on with one iteration less to do.               *)
CallAdvances ==
  call # Idle => call' = Idle \/ (call' = call /\ Left >= 1 /\ Left' = Left - 1)

(* Each iteration has something to move, and the pop something to take.    *)
NothingIsMissing ==
  /\ phase = "move" =>
       /\ target > cursor_pos => suffix_r # <<>>
       /\ target < cursor_pos => prefix # <<>>
       /\ call \in PopCalls /\ call.at < len /\ target = cursor_pos => suffix_r # <<>>
  /\ Left \in Nat

(* The end of a move is a position of the list.                            *)
LEMMA TargetInList == Inv => target \in 0 .. len /\ cursor_pos \in 0 .. len /\ Left \in Nat
  <1> SUFFICES ASSUME Inv PROVE target \in 0 .. len /\ cursor_pos \in 0 .. len /\ Left \in Nat
    OBVIOUS
  <1>t. TypeOK /\ ScanInv
    BY DEF Inv
  <1>1. /\ len \in Nat /\ Len(prefix) \in Nat /\ Len(suffix_r) \in Nat
        /\ cursor_pos \in 0 .. len
    BY <1>t DEF TypeOK, len, cursor_pos
  <1>2. target \in 0 .. len
    BY <1>t, <1>1, MaxLenAssumption DEF TypeOK, ScanInv, target
  <1>3. Left \in Nat
    <2> HIDE DEF target
    <2> QED BY <1>1, <1>2 DEF Left
  <1> QED BY <1>1, <1>2, <1>3

(* In a state of the representation, no iteration finds its side empty.    *)
LEMMA NothingMissing == Inv => NothingIsMissing
  <1> SUFFICES ASSUME Inv PROVE NothingIsMissing
    OBVIOUS
  <1>1. target \in 0 .. len /\ Left \in Nat
    BY TargetInList
  <1>2. prefix \in Seq(Values) /\ suffix_r \in Seq(Values)
    BY DEF Inv, TypeOK
  <1>3. target > cursor_pos => suffix_r # <<>>
    BY <1>1, <1>2 DEF len, cursor_pos
  <1>4. target < cursor_pos => prefix # <<>>
    BY <1>1, <1>2 DEF len, cursor_pos
  <1>5. call \in PopCalls /\ call.at < len /\ target = cursor_pos => suffix_r # <<>>
    <2> SUFFICES ASSUME call \in PopCalls, call.at < len, target = cursor_pos
                 PROVE  suffix_r # <<>>
      OBVIOUS
    <2>1. target = call.at
      BY DEF target
    <2> QED BY <1>1, <1>2, <2>1 DEF len, cursor_pos
  <1> QED BY <1>1, <1>3, <1>4, <1>5 DEF NothingIsMissing

(* Every step of a call answers it or is an iteration of one of its loops. *)
LEMMA NextAdvances == Inv /\ Inv' /\ [Next]_vars => [CallAdvances]_vars
  <1> SUFFICES ASSUME Inv, Inv', Next, call # Idle
               PROVE  call' = Idle \/ (call' = call /\ Left >= 1 /\ Left' = Left - 1)
    BY DEF CallAdvances
  <1>t. prefix \in Seq(Values) /\ suffix_r \in Seq(Values)
    BY DEF Inv, TypeOK
  <1>0. /\ len \in Nat /\ Len(prefix) \in Nat /\ Len(suffix_r) \in Nat
        /\ len = Len(prefix) + Len(suffix_r) /\ cursor_pos = Len(prefix)
        /\ target \in 0 .. len
    BY <1>t, TargetInList DEF len, cursor_pos
  <1>i. inc_cursor => Len(prefix') = Len(prefix) + 1 /\ Len(suffix_r') = Len(suffix_r) - 1
                        /\ Len(suffix_r) >= 1
    <2> SUFFICES ASSUME inc_cursor
                 PROVE  /\ Len(prefix') = Len(prefix) + 1
                        /\ Len(suffix_r') = Len(suffix_r) - 1 /\ Len(suffix_r) >= 1
      OBVIOUS
    <2>1. Last(suffix_r) \in Values /\ Len(Front(suffix_r)) = Len(suffix_r) - 1 /\ Len(suffix_r) >= 1
      BY <1>t, FrontLast DEF inc_cursor
    <2> QED BY <1>t, <2>1 DEF inc_cursor
  <1>d. dec_cursor => Len(prefix') = Len(prefix) - 1 /\ Len(suffix_r') = Len(suffix_r) + 1
                        /\ Len(prefix) >= 1
    <2> SUFFICES ASSUME dec_cursor
                 PROVE  /\ Len(prefix') = Len(prefix) - 1
                        /\ Len(suffix_r') = Len(suffix_r) + 1 /\ Len(prefix) >= 1
      OBVIOUS
    <2>1. Last(prefix) \in Values /\ Len(Front(prefix)) = Len(prefix) - 1 /\ Len(prefix) >= 1
      BY <1>t, FrontLast DEF dec_cursor
    <2> QED BY <1>t, <2>1 DEF dec_cursor
  <1>l. dec_cursor \/ inc_cursor =>
          len' = len /\ len' = Len(prefix') + Len(suffix_r') /\ cursor_pos' = Len(prefix')
    BY <1>t, CursorStep DEF len, cursor_pos
  <1>1. CASE move_cursor
    <2>1. phase = "move" /\ phase' = "move" /\ call' = call
      BY <1>1 DEF move_cursor
    <2>2. target # cursor_pos /\ (dec_cursor \/ inc_cursor)
      BY <1>0, <1>1 DEF move_cursor
    <2>3. target' = target
      BY <1>0, <1>l, <2>1, <2>2 DEF target
    <2>4. Left = IF target >= cursor_pos THEN target - cursor_pos ELSE cursor_pos - target
      BY <2>1 DEF Left
    <2>5. Left' = IF target >= cursor_pos' THEN target - cursor_pos' ELSE cursor_pos' - target
      BY <2>1, <2>3 DEF Left
    <2>6. \/ target > cursor_pos /\ cursor_pos' = cursor_pos + 1
          \/ target < cursor_pos /\ cursor_pos' = cursor_pos - 1
      BY <1>0, <1>1, <1>i, <1>d, <1>l DEF move_cursor
    <2> HIDE DEF Left, target, cursor_pos, len
    <2> QED BY <1>0, <2>1, <2>4, <2>5, <2>6
  <1>2. CASE Rewind
    <2>1. phase = "rewind" /\ call' = call
      BY <1>2 DEF Rewind
    <2>2. Left = cursor_pos + (len + 1)
      BY <2>1 DEF Left
    <2>3. CASE prefix = <<>>
      <3>1. phase' = "scan" /\ suffix_r' = suffix_r
        BY <1>2, <2>3 DEF Rewind
      <3>2. Left' = Len(suffix_r)
        BY <3>1 DEF Left
      <3>3. Len(prefix) = 0
        BY <2>3
      <3> HIDE DEF Left
      <3> QED BY <1>0, <2>1, <2>2, <3>2, <3>3
    <2>4. CASE prefix # <<>>
      <3>1. phase' = "rewind" /\ dec_cursor
        BY <1>2, <2>1, <2>4 DEF Rewind
      <3>2. Left' = cursor_pos' + (len' + 1)
        BY <3>1 DEF Left
      <3>3. len' = len /\ cursor_pos' = cursor_pos - 1 /\ cursor_pos >= 1
        BY <1>0, <1>d, <1>l, <3>1
      <3> HIDE DEF Left, len, cursor_pos
      <3> QED BY <1>0, <2>1, <2>2, <3>2, <3>3
    <2> QED BY <2>3, <2>4
  <1>3. CASE Scan
    <2>1. phase = "scan" /\ phase' = "scan" /\ call' = call /\ inc_cursor
      BY <1>3 DEF Scan
    <2>2. Left = Len(suffix_r) /\ Left' = Len(suffix_r')
      BY <2>1 DEF Left
    <2> QED BY <1>0, <1>i, <2>1, <2>2
  <1>4. CASE PushDone \/ MoveDone \/ PopDone \/ InsertDone \/ InsertIntoEmpty \/ FilterDone
    BY <1>4 DEF PushDone, MoveDone, PopDone, InsertDone, InsertIntoEmpty, FilterDone, Answer
  <1>5. ASSUME NEW c \in Plain!Calls, Invoke(c) PROVE FALSE
    BY <1>5 DEF Invoke
  <1> QED BY <1>1, <1>2, <1>3, <1>4, <1>5 DEF Next, Step

(* No loop turns without moving the cursor, and no pop finds nothing.      *)
THEOREM LoopsAlwaysMove == Spec => []NothingIsMissing
  BY InitInv, NextInv, NothingMissing, PTL DEF Spec

(* Each step of a call answers it or leaves it one iteration less to do.   *)
THEOREM LoopsCountDown == Spec => [][CallAdvances]_vars
  BY InitInv, NextInv, NextAdvances, PTL DEF Spec
=============================================================================
