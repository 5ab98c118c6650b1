------------------------------- MODULE ListOps -------------------------------
(***************************************************************************)
(* What the list operations of aris/src/zipper_vec.rs do to the iteration  *)
(* order, as functions on sequences.                                       *)
(***************************************************************************)
EXTENDS Naturals, Sequences, FiniteSets

(* The entries of s, and the absence of repetitions.                       *)
Entries(s) == {s[i] : i \in DOMAIN s}
NoRepeats(s) == \A i, j \in DOMAIN s : s[i] = s[j] => i = j

(* s without the entries that are in S, in the same order: the entries     *)
(* kept are enumerated by their rank.                                      *)
Without(s, S) ==
  LET Kept == {k \in DOMAIN s : s[k] \notin S}
      Rank(k) == Cardinality({m \in Kept : m <= k})
  IN  [i \in 1 .. Cardinality(Kept) |-> s[CHOOSE k \in Kept : Rank(k) = i]]

(* c entries of s precede its first occurrence of rel, all of s when rel   *)
(* does not occur.                                                         *)
IsPlaceOf(s, rel, c) ==
  /\ c \in 0 .. Len(s)
  /\ \A i \in 1 .. c : s[i] # rel
  /\ c < Len(s) => s[c + 1] = rel

(* s with v inserted so that c entries precede it.                         *)
PlacedAt(s, v, c) == SubSeq(s, 1, c) \o <<v>> \o SubSeq(s, c + 1, Len(s))

(* insert_relative: v next to the first occurrence of rel, at the end when *)
(* rel does not occur.                                                     *)
InsertRelative(s, v, rel, after) ==
  LET c == CHOOSE c \in 0 .. Len(s) : IsPlaceOf(s, rel, c)
  IN  PlacedAt(s, v, IF after /\ c < Len(s) THEN c + 1 ELSE c)
=============================================================================
