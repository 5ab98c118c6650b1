------------------------------- MODULE Exprs -------------------------------
(***************************************************************************)
(* Logical expressions (aris/src/expr.rs): the syntax tree, its derived    *)
(* order, free variables and substitution, and, as the reference that the  *)
(* other modules compare the code with, what an expression means.          *)
(*                                                                         *)
(* A name is a sequence of characters, a digit being 0..9 and a letter a   *)
(* larger number, because gen_var appends digits to names and sorting      *)
(* compares them: "x" is <<33>> and "x0" is <<33, 0>>.                     *)
(***************************************************************************)
EXTENDS Naturals, Integers, FiniteSets, Sequences, SequencesExt

(* The nodes. *)
Contra == [node |-> "Contra"]
Taut == [node |-> "Taut"]
Var(name) == [node |-> "Var", name |-> name]
Apply(func, args) == [node |-> "Apply", func |-> func, args |-> args]
Not(operand) == [node |-> "Not", operand |-> operand]
Impl(left, right) == [node |-> "Impl", left |-> left, right |-> right]
Assoc(op, exprs) == [node |-> "Assoc", op |-> op, exprs |-> exprs]
Quant(kind, name, body) ==
    [node |-> "Quant", kind |-> kind, name |-> name, body |-> body]

And(a, b) == Assoc("And", <<a, b>>)
Or(a, b) == Assoc("Or", <<a, b>>)
Bicon(a, b) == Assoc("Bicon", <<a, b>>)
Forall(name, body) == Quant("Forall", name, body)
Exists(name, body) == Quant("Exists", name, body)

Is(e, node) == e.node = node
IsAssoc(e, op) == e.node = "Assoc" /\ e.op = op
IsQuant(e, kind) == e.node = "Quant" /\ e.kind = kind

(* The expressions directly below a node, and the node over other ones. *)
Children(e) ==
    CASE Is(e, "Apply") -> <<e.func>> \o e.args
      [] Is(e, "Not") -> <<e.operand>>
      [] Is(e, "Impl") -> <<e.left, e.right>>
      [] Is(e, "Assoc") -> e.exprs
      [] Is(e, "Quant") -> <<e.body>>
      [] OTHER -> <<>>

WithChildren(e, cs) ==
    CASE Is(e, "Apply") -> Apply(cs[1], Tail(cs))
      [] Is(e, "Not") -> Not(cs[1])
      [] Is(e, "Impl") -> Impl(cs[1], cs[2])
      [] Is(e, "Assoc") -> Assoc(e.op, cs)
      [] Is(e, "Quant") -> Quant(e.kind, e.name, cs[1])
      [] OTHER -> e

(* F applied to every element of a sequence. (The concatenation makes TLC  *)
(* evaluate each element once.)                                            *)
Map(F(_), s) == <<>> \o [i \in 1..Len(s) |-> F(s[i])]

(* All sequences that take their i-th element from the i-th set. *)
Product(sets) ==
    LET all == UNION {sets[i] : i \in 1..Len(sets)}
    IN  {s \in [1..Len(sets) -> all] : \A i \in 1..Len(sets) : s[i] \in sets[i]}

-----------------------------------------------------------------------------
(* The derived order: the variant first, then its fields in turn. *)

Variants == <<"Contra", "Taut", "Var", "Apply", "Not", "Impl", "Assoc", "Quant">>
Ops == <<"And", "Or", "Bicon", "Equiv", "Add", "Mult">>
Kinds == <<"Forall", "Exists">>
RankIn(s, x) == CHOOSE i \in 1..Len(s) : s[i] = x

(* Lexicographic order of two sequences, for an order of their elements. *)
LexLess(Lt(_, _), s, t) ==
    \E i \in 1..Len(t) :
        /\ \A j \in 1..(i - 1) : j <= Len(s) /\ s[j] = t[j]
        /\ i > Len(s) \/ Lt(s[i], t[i])

NumLess(i, j) == i < j
NameLess(m, n) == LexLess(NumLess, m, n)

Header(e) ==
    <<RankIn(Variants, e.node)>> \o
        CASE Is(e, "Var") -> e.name
          [] Is(e, "Assoc") -> <<RankIn(Ops, e.op)>>
          [] Is(e, "Quant") -> <<RankIn(Kinds, e.kind)>> \o e.name
          [] OTHER -> <<>>

RECURSIVE Less(_, _)
Less(a, b) ==
    IF Header(a) # Header(b) THEN NameLess(Header(a), Header(b))
    ELSE LexLess(Less, Children(a), Children(b))

(* exprs.sort(), and the order in which a BTreeSet is iterated. *)
Sorted(s) == SortSeq(s, Less)
InOrder(set) ==
    [i \in 1..Cardinality(set) |->
        CHOOSE e \in set : Cardinality({f \in set : Less(f, e)}) = i - 1]

-----------------------------------------------------------------------------
(* Free variables and substitution. *)

RECURSIVE FreeVars(_)
FreeVars(e) ==
    CASE Is(e, "Var") -> {e.name}
      [] Is(e, "Quant") -> FreeVars(e.body) \ {e.name}
      [] OTHER -> UNION {FreeVars(Children(e)[i]) : i \in 1..Len(Children(e))}

(* The largest number gen_var appends in this model. *)
MaxSuffix == 9

GenVar(prefix, avoid) ==
    IF prefix \notin avoid THEN prefix
    ELSE LET free == {i \in 0..MaxSuffix : Append(prefix, i) \notin avoid}
         IN  Append(prefix, CHOOSE i \in free : \A j \in free : i <= j)

RECURSIVE Subst(_, _, _)
Subst(e, v, r) ==
    CASE Is(e, "Var") -> IF e.name = v THEN r ELSE e
      [] Is(e, "Quant") ->
            IF e.name = v THEN e
            ELSE LET name == GenVar(e.name, FreeVars(r))
                     body == Subst(e.body, e.name, Var(name))
                 IN  Quant(e.kind, name, Subst(body, v, r))
      [] OTHER -> LET S(c) == Subst(c, v, r) IN WithChildren(e, Map(S, Children(e)))

(* Substitution::apply: the pairs in order. *)
ApplySubstitution(e, pairs) == FoldLeft(LAMBDA z, p : Subst(z, p[1], p[2]), e, pairs)

-----------------------------------------------------------------------------
(* Reference: alpha-equivalence. ma and mb list the names bound around a   *)
(* and b, innermost first.                                                 *)
Level(bound, n) ==
    LET at == {i \in 1..Len(bound) : bound[i] = n}
    IN  IF at = {} THEN 0 ELSE CHOOSE i \in at : \A j \in at : i <= j

RECURSIVE SameUnder(_, _, _, _)
SameUnder(a, b, ma, mb) ==
    /\ a.node = b.node
    /\ CASE Is(a, "Var") -> /\ Level(ma, a.name) = Level(mb, b.name)
                            /\ Level(ma, a.name) = 0 => a.name = b.name
         [] Is(a, "Quant") -> /\ a.kind = b.kind
                              /\ SameUnder(a.body, b.body, <<a.name>> \o ma, <<b.name>> \o mb)
         [] OTHER -> /\ Is(a, "Assoc") => a.op = b.op
                     /\ Len(Children(a)) = Len(Children(b))
                     /\ \A i \in 1..Len(Children(a)) :
                            SameUnder(Children(a)[i], Children(b)[i], ma, mb)

AlphaEqual(a, b) == SameUnder(a, b, <<>>, <<>>)

-----------------------------------------------------------------------------
(* Reference: truth. A structure says what the names mean: prop the truth  *)
(* of propositions, obj the objects that names in argument position stand  *)
(* for, fun functions on tuples of them, pred the tuples a predicate holds *)
(* of; dom is the set of objects.                                          *)

RECURSIVE Object(_, _)
Object(e, m) ==
    IF Is(e, "Var") THEN m.obj[e.name]
    ELSE m.fun[e.func.name][[i \in 1..Len(e.args) |-> Object(e.args[i], m)]]

RECURSIVE Truth(_, _)
Truth(e, m) ==
    CASE Is(e, "Contra") -> FALSE
      [] Is(e, "Taut") -> TRUE
      [] Is(e, "Var") -> m.prop[e.name]
      [] Is(e, "Apply") -> [i \in 1..Len(e.args) |-> Object(e.args[i], m)]
                               \in m.pred[e.func.name]
      [] Is(e, "Not") -> ~Truth(e.operand, m)
      [] Is(e, "Impl") -> Truth(e.left, m) => Truth(e.right, m)
      [] IsAssoc(e, "And") -> \A i \in 1..Len(e.exprs) : Truth(e.exprs[i], m)
      [] IsAssoc(e, "Or") -> \E i \in 1..Len(e.exprs) : Truth(e.exprs[i], m)
      [] IsAssoc(e, "Bicon") ->
            Cardinality({i \in 1..Len(e.exprs) : ~Truth(e.exprs[i], m)}) % 2 = 0
      [] IsAssoc(e, "Equiv") ->
            Cardinality({Truth(e.exprs[i], m) : i \in 1..Len(e.exprs)}) <= 1
      [] IsQuant(e, "Forall") ->
            \A d \in m.dom : Truth(e.body, [m EXCEPT !.obj = (e.name :> d) @@ @])
      [] IsQuant(e, "Exists") ->
            \E d \in m.dom : Truth(e.body, [m EXCEPT !.obj = (e.name :> d) @@ @])

(* The structures of propositional logic over a set of names. *)
Valuations(names) ==
    {[dom |-> {}, obj |-> <<>>, fun |-> <<>>, pred |-> <<>>, prop |-> p] : p \in [names -> BOOLEAN]}
=============================================================================
