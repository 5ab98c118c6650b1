----------------------------- MODULE XmlInterop -----------------------------
(***************************************************************************)
(* aris/src/proofs/xml_interop.rs: a proof that is edited in the widget is *)
(* saved, and the file is opened again.                                    *)
(*                                                                         *)
(* A file is the sequence of its assumption and step elements, each with   *)
(* the id of the proof element it is in.  References are line numbers, and *)
(* a subproof has the number of its first line: whether a number means a   *)
(* line, a subproof or both depends on what was read before it.            *)
(***************************************************************************)
EXTENDS ProofWidget

CONSTANTS Names,          \* the names of rules in a file
          Reiteration,    \* the rule a name stands for that no rule has
          declared_rules  \* declare_rules!: each rule and its name, in order

ASSUME RulesAssumption ==
  /\ Reiteration \in Rules
  /\ declared_rules \in Seq([id : Rules, name : Names])
  /\ \A r \in Rules : \E i \in DOMAIN declared_rules : declared_rules[i].id = r
  /\ \A i, k \in DOMAIN declared_rules : declared_rules[i].id = declared_rules[k].id => i = k

VARIABLES phase,     \* editing, writing, reading or opened
          file,      \* the elements written so far, then the ones to be read
          queue,     \* the proof elements to be written: id and subproof
          sproofid,  \* the id of the next subproof
          opened,    \* the proof that is read
          ids,       \* subproofs: what an id stands for (Root for 0)
          line_refs,     \* the line that a number stands for
          lines_to_subs  \* the subproof that a number stands for

writerVars == <<file, queue, sproofid>>
readerVars == <<opened, ids, line_refs, lines_to_subs>>
xmlVars == <<phase, writerVars, readerVars>>

-----------------------------------------------------------------------------
(* The names of rules.                                                     *)

to_serialized_name(rule) ==
  declared_rules[CHOOSE i \in DOMAIN declared_rules : declared_rules[i].id = rule].name

WithName(name) == {i \in DOMAIN declared_rules : declared_rules[i].name = name}

(* AndIntro and Conjunction have the same name: the first with it is meant.*)
from_serialized_name(name) ==
  IF WithName(name) = {}
  THEN Reiteration
  ELSE declared_rules[CHOOSE i \in WithName(name) : \A k \in WithName(name) : i <= k].id

-----------------------------------------------------------------------------
(* Writing. That the text of an expression parses to it again is taken as  *)
(* given; the one empty text that does not parse is read as EmptyExpr.     *)

(* allocate_identifiers.  A subproof takes the number of its first line.   *)
deps_map(x) == LinesBefore(proof, x)

Numbers(S) == {deps_map(x) : x \in S}

Assumption(id, x) ==
  [in |-> id, is |-> "assumption", num |-> deps_map(x), raw |-> proof.prem_map[x].says]

StepElement(id, x) ==
  LET just == proof.just_map[x]
  IN  [in |-> id, is |-> "step", num |-> deps_map(x), raw |-> just.expr.says,
       rule |-> to_serialized_name(just.expr.rule),
       premises |-> Numbers(just.deps) \cup Numbers(just.sdeps)]

SubproofElement(id, x, sub) == [in |-> id, is |-> "subproof", num |-> deps_map(x), id |-> sub]

(* Fault: the id is taken after it was counted up.                         *)
IdAfter(list, i) == sproofid + Cardinality({k \in 1 .. i : list[k] \in Subs(proof)})

(* The id of the subproof at place i of list.                              *)
IdAt(list, i) == sproofid + Cardinality({k \in 1 .. i - 1 : list[k] \in Subs(proof)})

(* The proof element of subproof s, as aux writes it.                      *)
ProofElement(id, s) ==
  LET prems == proof.premise_list[s]
      list == proof.line_list[s]
  IN  [i \in DOMAIN prems |-> Assumption(id, prems[i])]
        \o [i \in DOMAIN list |->
              IF list[i] \in Subs(proof)
              THEN SubproofElement(id, list[i], IdAt(list, i))
              ELSE StepElement(id, list[i])]

(* What aux puts on the queue.                                             *)
Queued(s) ==
  LET list == proof.line_list[s]
      inner == Without(list, Justs(proof))
  IN  [i \in DOMAIN inner |-> <<sproofid + i - 1, inner[i]>>]

XmlInit ==
  /\ WidgetInit
  /\ phase = "editing"
  /\ file = <<>> /\ queue = <<>> /\ sproofid = 1
  /\ opened = new /\ ids = <<>> /\ line_refs = <<>> /\ lines_to_subs = <<>>

Edit == phase = "editing" /\ WidgetNext /\ UNCHANGED xmlVars

Save ==
  /\ phase = "editing"
  /\ phase' = "writing"
  /\ file' = <<>>
  /\ queue' = <<<<0, Root>>>>
  /\ sproofid' = 1
  /\ UNCHANGED <<vars, readerVars>>

(* Fault: the first subproof that was queued is written next.              *)
WriteProofInOrder ==
  /\ phase = "writing" /\ queue # <<>>
  /\ LET entry == queue[1]
         s == entry[2]
     IN  /\ file' = file \o ProofElement(entry[1], s)
         /\ queue' = Tail(queue) \o Queued(s)
         /\ sproofid' = sproofid + Len(Queued(s))
  /\ UNCHANGED <<vars, phase, readerVars>>

(* The last subproof that was queued is written next.                      *)
WriteProof ==
  /\ phase = "writing" /\ queue # <<>>
  /\ LET entry == queue[Len(queue)]
         s == entry[2]
     IN  /\ file' = file \o ProofElement(entry[1], s)
         /\ queue' = SubSeq(queue, 1, Len(queue) - 1) \o Queued(s)
         /\ sproofid' = sproofid + Len(Queued(s))
  /\ UNCHANGED <<vars, phase, readerVars>>

-----------------------------------------------------------------------------
(* Reading.                                                                *)

Open ==
  /\ phase = "writing" /\ queue = <<>>
  /\ phase' = "reading"
  /\ opened' = new
  /\ ids' = [id \in {0} |-> Root]
  /\ line_refs' = <<>>
  /\ lines_to_subs' = <<>>
  /\ UNCHANGED <<vars, writerVars>>

(* References to numbers that were not read yet are dropped silently.      *)
Resolved(numbers) ==
  [deps |-> {line_refs[n] : n \in numbers \cap DOMAIN line_refs},
   sdeps |-> {lines_to_subs[n] : n \in numbers \cap DOMAIN lines_to_subs}]

ReadAssumption(el) ==
  /\ el.is = "assumption"
  /\ opened' = add_premise(opened, ids[el.in], premise(el.raw))
  /\ line_refs' = Put(line_refs, el.num, next_premkey(opened))
  /\ UNCHANGED <<ids, lines_to_subs>>

ReadSubproof(el) ==
  /\ el.is = "subproof"
  /\ opened' = add_subproof(opened, ids[el.in])
  /\ ids' = Put(ids, el.id, next_subkey(opened))
  /\ lines_to_subs' = Put(lines_to_subs, el.num, next_subkey(opened))
  /\ UNCHANGED line_refs

ReadStep(el) ==
  /\ el.is = "step"
  /\ LET refs == Resolved(el.premises)
         e == [says |-> el.raw, rule |-> from_serialized_name(el.rule)]
         just == [expr |-> e, deps |-> refs.deps, sdeps |-> refs.sdeps]
     IN  opened' = add_step(opened, ids[el.in], just)
  /\ line_refs' = Put(line_refs, el.num, next_justkey(opened))
  /\ UNCHANGED <<ids, lines_to_subs>>

ReadElement ==
  /\ phase = "reading" /\ file # <<>>
  /\ ReadAssumption(file[1]) \/ ReadSubproof(file[1]) \/ ReadStep(file[1])
  /\ file' = Tail(file)
  /\ UNCHANGED <<vars, phase, queue, sproofid>>

EndDocument ==
  /\ phase = "reading" /\ file = <<>>
  /\ phase' = "opened"
  /\ UNCHANGED <<vars, writerVars, readerVars>>

(* The tab of the opened proof is closed, and editing goes on.             *)
Close ==
  /\ phase = "opened"
  /\ phase' = "editing"
  /\ sproofid' = 1
  /\ opened' = new /\ ids' = <<>> /\ line_refs' = <<>> /\ lines_to_subs' = <<>>
  /\ UNCHANGED <<vars, file, queue>>

XmlNext == Edit \/ Save \/ WriteProof \/ Open \/ ReadElement \/ EndDocument \/ Close

XmlSpec == XmlInit /\ [][XmlNext]_<<vars, xmlVars>>

-----------------------------------------------------------------------------

(* The reader finds the subproof that an element is in, which it would     *)
(* panic without, and what it has built so far is a well-formed proof.     *)
ReaderOK ==
  /\ phase \in {"editing", "writing", "reading", "opened"}
  /\ ProofType(opened) /\ ListedOnce(opened) /\ NoDanglingRefs(opened) /\ NestingEnds(opened)
  /\ phase = "reading" /\ file # <<>> => file[1].in \in DOMAIN ids

(* What x of the saved proof has become: lines by number, subproofs by the *)
(* assumption each has.                                                    *)
image(x) ==
  CASE x = Root -> Root
    [] x \in Lines(proof) -> line_refs[deps_map(x)]
    [] x \in Subs(proof) -> parent_of(opened, line_refs[deps_map(proof.premise_list[x][1])])

(* Opening a saved proof gives the same lines in the same order and        *)
(* nesting, and every reference is to what it was to, although the file    *)
(* does not tell a subproof from its first line. Each step has a rule that *)
(* is saved by the same name: the same rule, unless the table has another  *)
(* of that name before it.                                                 *)
RoundTrip ==
  phase = "opened" =>
    /\ {image(x) : x \in Live(proof)} = Live(opened)
    /\ \A x, y \in Live(proof) : image(x) = image(y) => x = y
    /\ \A s \in Subs(proof) \cup {Root} :
         LET carried(list) == [i \in DOMAIN list |-> image(list[i])]
         IN  /\ opened.premise_list[image(s)] = carried(proof.premise_list[s])
             /\ opened.line_list[image(s)] = carried(proof.line_list[s])
    /\ \A x \in Prems(proof) : opened.prem_map[image(x)].says = proof.prem_map[x].says
    /\ \A x \in Justs(proof) :
         LET just == proof.just_map[x]
             read == opened.just_map[image(x)]
         IN  /\ read.expr.says = just.expr.says
             /\ to_serialized_name(read.expr.rule) = to_serialized_name(just.expr.rule)
             /\ read.deps = {image(d) : d \in just.deps}
             /\ read.sdeps = {image(d) : d \in just.sdeps}
=============================================================================
