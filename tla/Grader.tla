------------------------------- MODULE Grader -------------------------------
(***************************************************************************)
(* auto-grader/src/main.rs: reads a student's proof, compares its premises *)
(* with the instructor's, and follows each goal from the first top-level   *)
(* step that states it down to the premises.                               *)
(*                                                                         *)
(* Reading (aris/src/proofs/xml_interop.rs) only adds to the proof, and a  *)
(* step can only name lines that were read before it; but the lines of a   *)
(* subproof are read after the lines around it, so that need not be        *)
(* earlier lines of the proof.                                             *)
(***************************************************************************)
EXTENDS PooledProof

CONSTANTS Statements,          \* the expressions of the two files
          InstructorPremises,  \* the premises of the assignment
          Goals                \* its goals, in order

(* What a line says is its statement and, for a step, whether its rule     *)
(* accepts it (Rule::check, of which only the walk of the quantifier rules *)
(* over the references is modelled here).                                  *)
ASSUME ExprsAssumption == Exprs \subseteq [says : Statements, ok : BOOLEAN]
ASSUME GoalsAssumption == Goals \in Seq(Statements) /\ InstructorPremises \subseteq Statements

VARIABLES phase,   \* what main is doing
          goal,    \* how many goals have been dealt with
          q,       \* the lines validate_recursive has yet to look at
          visited  \* history: the lines it has found valid for this goal

vars == <<proof, phase, goal, q, visited>>

Phases == {"reading", "goals", "validating", "stuck", "accepted", "rejected"}

-----------------------------------------------------------------------------

Says(p, r) == IF r \in Prems(p) THEN p.prem_map[r].says ELSE p.just_map[r].expr.says

(* Fault: references are not checked to be in scope.                       *)
verify_rule_only(p, r) == r \in Prems(p) \/ p.just_map[r].expr.ok

verify_line(p, r) ==
  \/ r \in Prems(p)
  \/ r \in Justs(p) /\ RefsInScope(p, r) /\ p.just_map[r].expr.ok

(* The steps directly in a subproof, or at the top level.                  *)
direct_lines(p, s) == Entries(p.line_list[s]) \cap Justs(p)

(* What validate_recursive looks at after line r.  The order of q, and how *)
(* often it names a line, make no difference: a line is verified against   *)
(* the same proof each time.                                               *)
Pushed(p, r) ==
  IF r \in Prems(p) THEN {}
  ELSE p.just_map[r].deps \cup UNION {direct_lines(p, s) : s \in p.just_map[r].sdeps}

(* A walk of transitive_dependencies that looks at x can go on for ever:   *)
(* each thing it looks at leads it to another of the same.                 *)
GoesRound(p, x) ==
  \E S \in SUBSET (Justs(p) \cup Subs(p)) :
    x \in S /\ \A y \in S : walked(p, y) \cap S # {}

(* The top-level steps that state the goal; find takes the first of them.  *)
Matches(p, g) == {i \in DOMAIN p.line_list[Root] :
                    /\ p.line_list[Root][i] \in Justs(p)
                    /\ Says(p, p.line_list[Root][i]) = g}
IsFirstMatch(p, g, i) == i \in Matches(p, g) /\ \A k \in Matches(p, g) : i <= k

student_set(p) == {Says(p, r) : r \in Entries(p.premise_list[Root])}

-----------------------------------------------------------------------------

GraderInit ==
  /\ Init
  /\ phase = "reading"
  /\ goal = 0
  /\ q = {}
  /\ visited = {}

(* One element of the student's file.  A premise has no rule to fail.      *)
Read ==
  /\ phase = "reading"
  /\ \E s \in Subs(proof) \cup {Root} :
       \/ \E e \in Exprs : e.ok /\ AddPremise(s, e)
       \/ AddSubproof(s)
       \/ \E just \in Justifications(proof) : AddStep(s, just)
  /\ UNCHANGED <<phase, goal, q, visited>>

ComparePremises ==
  /\ phase = "reading"
  /\ phase' = IF student_set(proof) = InstructorPremises THEN "goals" ELSE "rejected"
  /\ UNCHANGED <<proof, goal, q, visited>>

StartGoal ==
  /\ phase = "goals" /\ goal < Len(Goals)
  /\ phase' = "validating"
  /\ \E i \in DOMAIN proof.line_list[Root] :
       IsFirstMatch(proof, Goals[goal + 1], i) /\ q' = {proof.line_list[Root][i]}
  /\ visited' = {}
  /\ UNCHANGED <<proof, goal>>

GoalNotFound ==
  /\ phase = "goals" /\ goal < Len(Goals)
  /\ Matches(proof, Goals[goal + 1]) = {}
  /\ phase' = "rejected"
  /\ UNCHANGED <<proof, goal, q, visited>>

(* Fault: subproof dependencies are not followed.                          *)
VisitSkippingSubproofs(r) ==
  /\ phase = "validating" /\ r \in q
  /\ IF verify_line(proof, r)
     THEN /\ q' = (q \ {r}) \cup (IF r \in Justs(proof) THEN proof.just_map[r].deps ELSE {})
          /\ visited' = visited \cup {r}
          /\ UNCHANGED phase
     ELSE /\ phase' = "rejected"
          /\ UNCHANGED <<q, visited>>
  /\ UNCHANGED <<proof, goal>>

(* Fault: the line looked at stays in q.                                   *)
VisitKeeping(r) ==
  /\ phase = "validating" /\ r \in q
  /\ IF verify_line(proof, r)
     THEN /\ q' = q \cup Pushed(proof, r)
          /\ visited' = visited \cup {r}
          /\ UNCHANGED phase
     ELSE /\ phase' = "rejected"
          /\ UNCHANGED <<q, visited>>
  /\ UNCHANGED <<proof, goal>>

(* Fault: a line seen before is taken for a circle.                        *)
VisitOnce(r) ==
  /\ phase = "validating" /\ r \in q
  /\ IF verify_line(proof, r) /\ r \notin visited
     THEN /\ q' = (q \ {r}) \cup Pushed(proof, r)
          /\ visited' = visited \cup {r}
          /\ UNCHANGED phase
     ELSE /\ phase' = "rejected"
          /\ UNCHANGED <<q, visited>>
  /\ UNCHANGED <<proof, goal>>

(* One iteration of the loop of validate_recursive.                        *)
Visit(r) ==
  /\ phase = "validating" /\ r \in q
  /\ IF verify_line(proof, r)
     THEN /\ q' = (q \ {r}) \cup Pushed(proof, r)
          /\ visited' = visited \cup {r}
          /\ UNCHANGED phase
     ELSE /\ phase' = "rejected"
          /\ UNCHANGED <<q, visited>>
  /\ UNCHANGED <<proof, goal>>

(* An iteration that never ends: a rule that cites a subproof may walk the *)
(* dependencies of the lines in it (ForallIntro and ExistsElim do), which  *)
(* nothing has verified yet.                                               *)
GetStuck(r) ==
  /\ phase = "validating" /\ r \in q
  /\ r \in Justs(proof) /\ RefsInScope(proof, r)
  /\ \E s \in proof.just_map[r].sdeps :
       \E l \in direct_lines(proof, s) : GoesRound(proof, l)
  /\ phase' = "stuck"
  /\ UNCHANGED <<proof, goal, q, visited>>

GoalDone ==
  /\ phase = "validating" /\ q = {}
  /\ phase' = "goals"
  /\ goal' = goal + 1
  /\ UNCHANGED <<proof, q, visited>>

Accept ==
  /\ phase = "goals" /\ goal = Len(Goals)
  /\ phase' = "accepted"
  /\ UNCHANGED <<proof, goal, q, visited>>

GraderNext ==
  \/ Read \/ ComparePremises
  \/ StartGoal \/ GoalNotFound \/ GoalDone \/ Accept
  \/ \E r \in q : Visit(r) \/ GetStuck(r)

GraderSpec == GraderInit /\ [][GraderNext]_vars

(* The program is one thread, and a file ends.                             *)
FairGraderSpec == GraderSpec /\ WF_vars(GraderNext)

-----------------------------------------------------------------------------

(* Every line of S is valid, and what validation of a line in S looks at   *)
(* next is in S.                                                           *)
ValidDown(p, S) == \A r \in S : verify_line(p, r) /\ Pushed(p, r) \subseteq S

(* S supports goal g all the way down: a top-level step in S states g.     *)
Supports(p, S, g) ==
  /\ \E i \in Matches(p, g) : p.line_list[Root][i] \in S
  /\ ValidDown(p, S)

(* The steps of S can be put in an order in which each comes after all the *)
(* lines its validity rests on: no argument goes in a circle.              *)
Grounded(p, S) ==
  \A C \in SUBSET (S \cap Justs(p)) : C # {} => \E j \in C : Pushed(p, j) \cap C = {}

(* The lines looked at so far are valid, and what they need is looked at   *)
(* or still to come; a goal dealt with is supported by some set of lines.  *)
Progress ==
  /\ phase \in Phases /\ goal \in 0 .. Len(Goals)
  /\ q \subseteq Lines(proof) /\ visited \subseteq Lines(proof)
  /\ phase \notin {"reading", "rejected"} => student_set(proof) = InstructorPremises
  /\ phase = "reading" => goal = 0 /\ q = {} /\ visited = {}
  /\ phase = "validating" =>
       /\ goal < Len(Goals)
       /\ \E i \in Matches(proof, Goals[goal + 1]) :
            proof.line_list[Root][i] \in q \cup visited
       /\ \A r \in visited : verify_line(proof, r) /\ Pushed(proof, r) \subseteq q \cup visited
  /\ \A k \in 1 .. goal : \E S \in SUBSET Lines(proof) : Supports(proof, S, Goals[k])
  /\ phase = "accepted" => goal = Len(Goals)

(* Take the statements of T for true.  A rule that is sound for them:      *)
(* when what step j cites is true, then so is what j says.  A subproof     *)
(* that is cited says that its steps are true if its assumptions are.      *)
SubproofTrue(p, s, T) ==
  (\A a \in Entries(p.premise_list[s]) : Says(p, a) \in T)
    => \A l \in direct_lines(p, s) : Says(p, l) \in T

SoundStep(p, j, T) ==
  /\ \A d \in p.just_map[j].deps : Says(p, d) \in T
  /\ \A s \in p.just_map[j].sdeps : SubproofTrue(p, s, T)
  => Says(p, j) \in T

(* If the rules accept only sound steps, then the goals of an accepted     *)
(* proof follow from the premises of the assignment: no use of a reference *)
(* or of a subproof smuggles in anything else.                             *)
AcceptedFollows ==
  phase = "accepted" =>
    \A T \in SUBSET Statements :
      /\ InstructorPremises \subseteq T
      /\ \A j \in Justs(proof) : proof.just_map[j].expr.ok => SoundStep(proof, j, T)
      => \A k \in 1 .. Len(Goals) : Goals[k] \in T

(* Whatever a goal is validated by does not go in a circle, although the   *)
(* loop keeps no record of the lines it has seen.                          *)
ValidatedIsGrounded == Grounded(proof, visited)

(* The step a goal is judged by is valid all the way to the premises.      *)
HasValidFirstMatch(p, g) ==
  \E i \in Matches(p, g) :
    /\ IsFirstMatch(p, g, i)
    /\ \E S \in SUBSET Lines(p) : p.line_list[Root][i] \in S /\ ValidDown(p, S)

(* The proofs that deserve to be accepted.                                 *)
RightProof(p) ==
  /\ student_set(p) = InstructorPremises
  /\ \A k \in 1 .. Len(Goals) : HasValidFirstMatch(p, Goals[k])

Promise == INSTANCE Verdict WITH
  doc <- proof,
  verdict <- IF phase \in {"accepted", "rejected"} THEN phase ELSE "none",
  Right <- RightProof

(* The grader judges the proof once, after it was read, and rightly in     *)
(* both directions: it accepts the proofs in which the first step stating  *)
(* a goal is valid down to the premises, for every goal, and rejects all   *)
(* others. Where it gets stuck there is no verdict.                        *)
GivesRightVerdict == Promise!Spec

(* The grader comes to a verdict on every file, unless it checks a rule    *)
(* that walks over references which go in a circle: its own loop, which    *)
(* keeps no record of the lines it has seen either, never goes round one.  *)
Terminates ==
  <>(phase \in {"accepted", "rejected"} \/ (phase = "stuck" /\ ~WalkEnds(proof)))

(* The goals are compared with some conclusion of the student: a proof     *)
(* with the right premises is rejected only when no step that states the   *)
(* goal is valid.                                                          *)
RejectedHasNoValidGoal ==
  phase = "rejected" /\ student_set(proof) = InstructorPremises =>
    \E k \in 1 .. Len(Goals) :
      ~\E S \in SUBSET Lines(proof) : Supports(proof, S, Goals[k])
=============================================================================
