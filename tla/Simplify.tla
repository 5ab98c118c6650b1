------------------------------ MODULE Simplify ------------------------------
(***************************************************************************)
(* The normal forms that are computed by rebuilding an expression from its *)
(* operands (aris/src/expr.rs): idempotence, absorption, reduction,        *)
(* adjacency, complement, half De Morgan, and binary operators. A BTreeSet *)
(* is a set that is read in the derived order; a HashSet is a set that is  *)
(* read in any order.                                                      *)
(***************************************************************************)
EXTENDS Normalize

Elements(e) == {e.exprs[i] : i \in 1..Len(e.exprs)}
OneOr(op, exprs) == IF Len(exprs) = 1 THEN exprs[1] ELSE Assoc(op, exprs)
Dual(op, e) == op \in {"And", "Or"} /\ IsAssoc(e, DualOp(op))

-----------------------------------------------------------------------------
(* normalize_idempotence and collect_unique_exprs_idempotence *)
RECURSIVE NormalizeIdempotence(_), UniqueOperands(_, _)
UniqueOperands(op, e) ==
    IF IsAssoc(e, op) THEN UNION {UniqueOperands(op, x) : x \in Elements(e)}
    ELSE {NormalizeIdempotence(e)}
NormalizeIdempotence(e) ==
    IF Is(e, "Assoc")
    THEN OneOr(e.op, InOrder(UNION {UniqueOperands(e.op, NormalizeIdempotence(x))
                                        : x \in Elements(e)}))
    ELSE e

-----------------------------------------------------------------------------
(* normalize_absorption: the operands are added one after the other. *)
Absorbs(op, simple, x) == Dual(op, x) /\ simple \in Elements(x)

AbsorbSimple(op, set, e) == {x \in set \cup {e} : ~Absorbs(op, e, x)}

RECURSIVE CollectAbsorption(_, _, _)
CollectAbsorption(op, set, e) ==
    IF IsAssoc(e, op)
    THEN FoldLeft(LAMBDA z, x : CollectAbsorption(op, z, x), set, e.exprs)
    ELSE IF Dual(op, e)
    THEN IF Elements(e) \cap set # {} THEN set ELSE set \cup {e}
    ELSE AbsorbSimple(op, set, e)

Absorbed(op, operands) == FoldLeft(LAMBDA z, c : CollectAbsorption(op, z, c), {}, operands)
SortOperands(c) == IF Is(c, "Assoc") THEN Assoc(c.op, Sorted(c.exprs)) ELSE c
SortBool(e) == Transform("sort_bool", e)
OneOrSorted(op, exprs) == IF Len(exprs) = 1 THEN exprs[1] ELSE SortBool(Assoc(op, exprs))

RECURSIVE NormalizeAbsorption(_)
NormalizeAbsorption(e) ==
    IF Is(e, "Assoc")
    THEN OneOrSorted(e.op, Map(SortOperands, InOrder(
             Absorbed(e.op, Map(LAMBDA c : SortBool(NormalizeAbsorption(c)), e.exprs)))))
    ELSE e

-----------------------------------------------------------------------------
(* normalize_reduction: an operand of the dual operator loses the terms    *)
(* that an earlier operand decides; what is left of it is added term by    *)
(* term.                                                                   *)
SubsetOf(e, set) == IF IsAssoc(e, "And") THEN Elements(e) \subseteq set ELSE e \in set
Decided(set, x) == IF Is(x, "Not") THEN SubsetOf(x.operand, set) ELSE Not(x) \in set

RECURSIVE NormalizeReduction(_), CollectReduction(_, _, _)
CollectReduction(op, set, e) ==
    IF IsAssoc(e, op)
    THEN FoldLeft(LAMBDA z, x : CollectReduction(op, z, x), set, e.exprs)
    ELSE IF Dual(op, e) /\ \E x \in Elements(e) : Decided(set, x)
    THEN set \cup {x \in Elements(e) : ~Decided(set, x)}
    ELSE IF Is(e, "Quant")
    THEN set \cup {Quant(e.kind, e.name, NormalizeReduction(e.body))}
    ELSE set \cup {e}

NormalizeReduction(e) ==
    IF Is(e, "Assoc")
    THEN LET reduced == InOrder(FoldLeft(
                            LAMBDA z, c : CollectReduction(e.op, z, NormalizeReduction(c)),
                            {}, e.exprs))
         IN  IF e.op = "And" /\ Len(reduced) = 2 /\ Is(reduced[2], "Quant")
             THEN Assoc("Or", reduced)
             ELSE Assoc(e.op, reduced)
    ELSE IF Is(e, "Quant") THEN Quant(e.kind, e.name, NormalizeReduction(e.body))
    ELSE IF Is(e, "Not") /\ Is(e.operand, "Quant") THEN NormalizeReduction(e.operand)
    ELSE IF Is(e, "Not") THEN Not(NormalizeReduction(e.operand))
    ELSE e

-----------------------------------------------------------------------------
(* normalize_adjacency: two operands that agree but for one complementary  *)
(* term become what they agree on; start again after each such merge.      *)
Without(exprs, set) == SelectSeq(exprs, LAMBDA e : e \notin set)
Complementary(s, t) ==
    /\ Len(s) = 1 /\ Len(t) = 1
    /\ s[1] = Not(t[1]) \/ t[1] = Not(s[1])

Mergeable(a, b) ==
    /\ Is(a, "Assoc") /\ Is(b, "Assoc") /\ a.op = b.op
    /\ LET common == Elements(a) \cap Elements(b)
       IN  common # {} /\ Complementary(Without(a.exprs, common), Without(b.exprs, common))
Merged(a, b) == OneOr(a.op, InOrder(Elements(a) \cap Elements(b)))

SwapRemove(s, j) == Front([s EXCEPT ![j] = s[Len(s)]])

RECURSIVE MergeAll(_, _)
MergeAll(op, s) ==
    LET pairs == {<<i, j>> \in (1..Len(s)) \X (1..Len(s)) :
                      i < j /\ op \in {"And", "Or"} /\ Mergeable(s[i], s[j])}
        first == CHOOSE p \in pairs :
                     \A q \in pairs : p[1] < q[1] \/ (p[1] = q[1] /\ p[2] >= q[2])
    IN  IF pairs = {} THEN InOrder({s[i] : i \in 1..Len(s)})
        ELSE MergeAll(op, SwapRemove([s EXCEPT ![first[1]] = Merged(@, s[first[2]])], first[2]))

RECURSIVE NormalizeAdjacency(_)
NormalizeAdjacency(e) ==
    IF Is(e, "Assoc")
    THEN OneOr(e.op, MergeAll(e.op, Flattened(e.op, Map(NormalizeAdjacency, e.exprs))))
    ELSE IF Is(e, "Quant") THEN Quant(e.kind, e.name, NormalizeAdjacency(e.body))
    ELSE e

-----------------------------------------------------------------------------
(* normalize_complement: the outcomes, one for each order in which the     *)
(* hash set of remaining operands may be read. st is that set, with        *)
(* whether two operands cancelled.                                         *)
UniversalTautology(e) == IsQuant(e, "Forall") /\ e.body = Var(e.name)

Cancel(st, e) == [set |-> st.set \ {e}, found |-> TRUE]

RECURSIVE CollectComplement(_, _, _)
CollectComplement(op, st, e) ==
    IF IsAssoc(e, op)
    THEN FoldLeft(LAMBDA z, x : CollectComplement(op, z, x), st, e.exprs)
    ELSE IF Is(e, "Not") /\ UniversalTautology(e.operand) THEN [st EXCEPT !.found = TRUE]
    ELSE IF Is(e, "Not") /\ e.operand \in st.set THEN Cancel(st, e.operand)
    ELSE IF UniversalTautology(e) THEN st
    ELSE IF ~Is(e, "Not") /\ Not(e) \in st.set THEN Cancel(st, Not(e))
    ELSE [st EXCEPT !.set = @ \cup {e}]

Verdict(op) == IF op = "Or" THEN Taut ELSE Contra

RECURSIVE NormalizeComplement(_)
NormalizeComplement(e) ==
    IF IsAssoc(e, "And") \/ IsAssoc(e, "Or")
    THEN UNION {LET st == FoldLeft(LAMBDA z, c : CollectComplement(e.op, z, c),
                                   [set |-> {}, found |-> FALSE], operands)
                    rest == {x \in st.set : ~UniversalTautology(x)}
                IN  {OneOr(e.op, IF st.found THEN Append(s, Verdict(e.op)) ELSE s)
                        : s \in SetToSeqs(rest)}
                : operands \in Product(Map(NormalizeComplement, e.exprs))}
    ELSE {e}

-----------------------------------------------------------------------------
(* normalize_halfdemorgans: the list of possibilities, as a set. A negated *)
(* disjunction gives its negated operands when it has two or more.         *)
RECURSIVE NormalizeHalfDeMorgans(_)
NormalizeHalfDeMorgans(e) ==
    IF Is(e, "Not") /\ IsAssoc(e.operand, "Or")
    THEN IF Len(e.operand.exprs) < 2 THEN {} ELSE {Not(x) : x \in Elements(e.operand)}
    ELSE IF Is(e, "Assoc")
    THEN {Assoc(e.op, s) : s \in Product(Map(NormalizeHalfDeMorgans, e.exprs))}
    ELSE {e}

-----------------------------------------------------------------------------
(* normalize_assoc_to_binary and its left-nested variant. *)
RECURSIVE ToBinary(_)
ToBinary(e) ==
    IF Is(e, "Assoc") /\ Len(e.exprs) > 2
    THEN Assoc(e.op, <<ToBinary(e.exprs[1]), ToBinary(Assoc(e.op, Tail(e.exprs)))>>)
    ELSE WithChildren(e, Map(ToBinary, Children(e)))

RECURSIVE ToBinaryLeft(_)
ToBinaryLeft(e) ==
    LET cs == Map(ToBinaryLeft, Children(e))
    IN  IF Is(e, "Assoc") /\ Len(cs) > 2
        THEN FoldLeft(LAMBDA z, c : Assoc(e.op, <<z, c>>), cs[1], Tail(cs))
        ELSE WithChildren(e, cs)
=============================================================================
