---------------------------- MODULE GraderProofs ----------------------------
(***************************************************************************)
(* For every assignment and every student's proof within the bounds: the   *)
(* loop of validate_recursive ends, the verdict is the right one in both   *)
(* directions, and what is accepted follows from the premises.             *)
(***************************************************************************)
EXTENDS Grader, PooledReasoningProofs

GraderInv == Progress /\ WellFormed(proof)

(* In a well-formed proof validation only looks at lines of the proof.     *)
LEMMA PushedAreLines ==
  ASSUME NEW p, WellFormed(p), NEW r \in Lines(p)
  PROVE  Pushed(p, r) \subseteq Lines(p)
  <1>1. CASE r \in Prems(p)
    BY <1>1 DEF Pushed
  <1>2. CASE r \notin Prems(p)
    <2>1. r \in Justs(p)
      BY <1>2 DEF Lines
    <2>2. p.just_map[r].deps \subseteq Lines(p)
      BY <2>1 DEF WellFormed, NoDanglingRefs
    <2> QED BY <1>2, <2>2 DEF Pushed, direct_lines, Lines
  <1> QED BY <1>1, <1>2

(* Reading keeps the proof well formed.                                    *)
LEMMA ReadWF == WellFormed(proof) /\ Read => WellFormed(proof)'
  <1> SUFFICES ASSUME WellFormed(proof), Read PROVE WellFormed(proof)'
    OBVIOUS
  <1>1. Next
    BY DEF Read, Next
  <1> QED BY <1>1, NextWF

(* Nothing is visited or queued at the start.                              *)
LEMMA GraderInitInv == GraderInit => GraderInv
  <1> SUFFICES ASSUME GraderInit PROVE GraderInv
    OBVIOUS
  <1>1. WellFormed(proof)
    BY InitWF DEF GraderInit
  <1>2. Len(Goals) \in Nat
    BY GoalsAssumption
  <1>3. Progress
    BY <1>2 DEF GraderInit, Progress, Phases
  <1> QED BY <1>1, <1>3 DEF GraderInv

(* One step per action of the grader.                                      *)
LEMMA GraderNextInv == GraderInv /\ [GraderNext]_vars => GraderInv'
  <1> SUFFICES ASSUME GraderInv, [GraderNext]_vars PROVE GraderInv'
    OBVIOUS
  <1>g. Len(Goals) \in Nat
    BY GoalsAssumption
  <1>t. Progress /\ WellFormed(proof)
    BY DEF GraderInv
  <1>w. WellFormed(proof)'
    <2>1. CASE Read
      BY <1>t, <2>1, ReadWF
    <2>2. CASE UNCHANGED proof
      BY <1>t, <2>2
    <2>3. Read \/ UNCHANGED proof
      BY DEF GraderNext, vars, ComparePremises, StartGoal, GoalNotFound, GoalDone, Accept, Visit,
             GetStuck
    <2> QED BY <2>1, <2>2, <2>3
  <1> SUFFICES Progress'
    BY <1>w DEF GraderInv
  <1>1. CASE Read
    BY <1>g, <1>t, <1>1 DEF Read, Progress
  <1>2. CASE ComparePremises
    BY <1>g, <1>t, <1>2 DEF ComparePremises, Progress, Phases
  <1>3. CASE StartGoal
    <2>1. PICK i \in DOMAIN proof.line_list[Root] :
            IsFirstMatch(proof, Goals[goal + 1], i) /\ q' = {proof.line_list[Root][i]}
      BY <1>3 DEF StartGoal
    <2>2. /\ phase = "goals" /\ goal < Len(Goals) /\ phase' = "validating" /\ visited' = {}
          /\ proof' = proof /\ goal' = goal
      BY <1>3 DEF StartGoal
    <2>3. i \in Matches(proof, Goals[goal + 1]) /\ proof.line_list[Root][i] \in Lines(proof)
      BY <2>1 DEF IsFirstMatch, Matches, Lines
    <2> QED BY <1>t, <2>1, <2>2, <2>3 DEF Progress, Phases
  <1>4. CASE GoalNotFound
    BY <1>t, <1>4 DEF GoalNotFound, Progress, Phases
  <1>5. ASSUME NEW r \in q, Visit(r) PROVE Progress'
    <2>1. r \in Lines(proof) /\ phase = "validating" /\ proof' = proof /\ goal' = goal
      BY <1>t, <1>5 DEF Progress, Visit
    <2>2. CASE verify_line(proof, r)
      <3>1. /\ q' = (q \ {r}) \cup Pushed(proof, r)
            /\ visited' = visited \cup {r} /\ phase' = phase
        BY <1>5, <2>2 DEF Visit
      <3>2. Pushed(proof, r) \subseteq Lines(proof)
        BY <1>t, <2>1, PushedAreLines
      <3>3. q \cup visited \subseteq q' \cup visited' /\ Pushed(proof, r) \subseteq q' \cup visited'
        BY <3>1
      <3>4. \A x \in visited' :
              verify_line(proof, x) /\ Pushed(proof, x) \subseteq q' \cup visited'
        BY <1>t, <2>1, <2>2, <3>1, <3>3 DEF Progress
      <3>5. \E i \in Matches(proof, Goals[goal + 1]) :
              proof.line_list[Root][i] \in q' \cup visited'
        BY <1>t, <2>1, <3>3 DEF Progress
      <3> QED BY <1>t, <2>1, <3>1, <3>2, <3>4, <3>5 DEF Progress
    <2>3. CASE ~verify_line(proof, r)
      BY <1>t, <1>5, <2>1, <2>3 DEF Visit, Progress, Phases
    <2> QED BY <2>2, <2>3
  <1>6. CASE GoalDone
    <2>1. /\ phase = "validating" /\ q = {} /\ phase' = "goals" /\ goal' = goal + 1
          /\ proof' = proof /\ q' = q /\ visited' = visited
      BY <1>6 DEF GoalDone
    <2>2. goal \in Nat /\ goal < Len(Goals) /\ goal + 1 \in 0 .. Len(Goals)
      BY <1>g, <1>t, <2>1 DEF Progress
    <2>3. Supports(proof, visited, Goals[goal + 1]) /\ visited \in SUBSET Lines(proof)
      BY <1>t, <2>1 DEF Progress, Supports, ValidDown
    <2>4. \A k \in 1 .. goal + 1 : \E S \in SUBSET Lines(proof) : Supports(proof, S, Goals[k])
      <3> SUFFICES ASSUME NEW k \in 1 .. goal + 1
                   PROVE  \E S \in SUBSET Lines(proof) : Supports(proof, S, Goals[k])
        OBVIOUS
      <3>1. CASE k \in 1 .. goal
        BY <1>t, <3>1 DEF Progress
      <3>2. CASE k = goal + 1
        BY <2>3, <3>2
      <3> QED BY <2>2, <3>1, <3>2
    <2> QED BY <1>t, <2>1, <2>2, <2>4 DEF Progress, Phases
  <1>7. CASE Accept
    BY <1>t, <1>7 DEF Accept, Progress, Phases
  <1>8. CASE UNCHANGED vars
    BY <1>t, <1>8 DEF vars, Progress
  <1>9. ASSUME NEW r \in q, GetStuck(r) PROVE Progress'
    BY <1>t, <1>9 DEF GetStuck, Progress, Phases
  <1> QED BY <1>1, <1>2, <1>3, <1>4, <1>5, <1>6, <1>7, <1>8, <1>9 DEF GraderNext

(* While a goal is validated, what the lines looked at need is looked at   *)
(* or still to come; and each goal dealt with is supported.                *)
THEOREM GraderProgress == GraderSpec => []Progress
  BY GraderInitInv, GraderNextInv, PTL DEF GraderSpec, GraderInv

-----------------------------------------------------------------------------
(* The argument against circles needs that the lines looked at are valid   *)
(* in every phase, also after the goal they were looked at for.            *)

VisitedValid == \A r \in visited : verify_line(proof, r)

(* A line is looked at only if verify_line accepts it, and then the proof  *)
(* no longer changes.                                                      *)
LEMMA VisitedStaysValid == GraderInv /\ VisitedValid /\ [GraderNext]_vars => VisitedValid'
  <1> SUFFICES ASSUME GraderInv, VisitedValid, [GraderNext]_vars PROVE VisitedValid'
    OBVIOUS
  <1>1. CASE Read
    <2>1. visited = {} /\ visited' = visited
      BY <1>1 DEF Read, GraderInv, Progress
    <2> QED BY <2>1 DEF VisitedValid
  <1>2. CASE StartGoal
    BY <1>2 DEF StartGoal, VisitedValid
  <1>3. ASSUME NEW r \in q, Visit(r) PROVE VisitedValid'
    BY <1>3 DEF Visit, VisitedValid
  <1>4. CASE ComparePremises \/ GoalNotFound \/ GoalDone \/ Accept \/ UNCHANGED vars
    BY <1>4 DEF ComparePremises, GoalNotFound, GoalDone, Accept, vars, VisitedValid
  <1>5. ASSUME NEW r \in q, GetStuck(r) PROVE VisitedValid'
    BY <1>5 DEF GetStuck, VisitedValid
  <1> QED BY <1>1, <1>2, <1>3, <1>4, <1>5 DEF GraderNext

(* A step of reading a proof is an edit of PooledProof; no other step      *)
(* changes the proof.                                                      *)
LEMMA ReadingIsEditing == [GraderNext]_vars => [Next]_proof
  <1> SUFFICES ASSUME [GraderNext]_vars PROVE [Next]_proof
    OBVIOUS
  <1>1. CASE Read
    BY <1>1 DEF Read, Next
  <1>2. CASE UNCHANGED proof
    BY <1>2
  <1>3. Read \/ UNCHANGED proof
    BY DEF GraderNext, vars, ComparePremises, StartGoal, GoalNotFound, GoalDone, Accept, Visit,
             GetStuck
  <1> QED BY <1>1, <1>2, <1>3

(* The grader's proof is one that the trait may produce: all that is shown *)
(* of PooledProof holds of it.                                             *)
THEOREM GraderEditsProof == GraderSpec => Spec
  <1>1. GraderInit => Init
    BY DEF GraderInit
  <1> QED BY <1>1, ReadingIsEditing, PTL DEF GraderSpec, Spec

(* Reading adds at most one subproof at a time.                            *)
LEMMA GraderKeepsFew ==
  WellFormed(proof) /\ FewSubproofs(proof) /\ [GraderNext]_vars => FewSubproofs(proof)'
  BY ReadingIsEditing, NextFew

(* What validation looks at after a step is among what that step rests on. *)
LEMMA PushedIsRestedOn ==
  ASSUME NEW p, WellFormed(p), NEW j \in Justs(p)
  PROVE  Pushed(p, j) \subseteq RestsOn(p, j)
  <1>k. Prems(p) \cap Justs(p) = {}
    BY KindsDisjoint DEF WellFormed, ProofType
  <1>1. \A s \in p.just_map[j].sdeps : direct_lines(p, s) \subseteq contained_justifications(p, s)
    <2> SUFFICES ASSUME NEW s \in p.just_map[j].sdeps
                 PROVE  direct_lines(p, s) \subseteq contained_justifications(p, s)
      OBVIOUS
    <2>1. s \in Subs(p)
      BY DEF WellFormed, NoDanglingRefs
    <2>2. s \in nested_subproofs(p, s)
      BY <2>1, NestedSubproofs
    <2> QED BY <2>2 DEF direct_lines, contained_justifications
  <1> QED BY <1>k, <1>1 DEF Pushed, RestsOn

(* The valid lines of a proof are not in a circle: a set of steps in scope *)
(* has one that rests on no other.                                         *)
LEMMA ValidIsGrounded ==
  ASSUME NEW p, WellFormed(p), FewSubproofs(p), NEW S, \A r \in S : verify_line(p, r)
  PROVE  Grounded(p, S)
  <1> SUFFICES ASSUME NEW C \in SUBSET (S \cap Justs(p)), C # {}
               PROVE  \E j \in C : Pushed(p, j) \cap C = {}
    BY DEF Grounded
  <1>k. Prems(p) \cap Justs(p) = {}
    BY KindsDisjoint DEF WellFormed, ProofType
  <1>1. \A j \in C : RefsInScope(p, j)
    BY <1>k DEF verify_line
  <1>2. PICK j \in C : RestsOn(p, j) \cap C = {}
    BY <1>1, ReasoningIsOrdered DEF NoCircularReasoning
  <1>3. Pushed(p, j) \subseteq RestsOn(p, j)
    BY PushedIsRestedOn
  <1> QED BY <1>2, <1>3

(* The lines the grader has found valid never support each other in a      *)
(* circle, so validate_recursive, which keeps no record of the lines it    *)
(* has seen, does not go round in one.                                     *)
THEOREM GraderValidatedIsGrounded == GraderSpec => []ValidatedIsGrounded
  <1> DEFINE Inv == GraderInv /\ FewSubproofs(proof) /\ VisitedValid
  <1>1. GraderInit => Inv
    <2> SUFFICES ASSUME GraderInit PROVE FewSubproofs(proof) /\ VisitedValid
      BY GraderInitInv
    <2>1. Subs(proof) = {} /\ visited = {}
      BY DEF GraderInit, Init, new, Subs
    <2> QED BY <2>1, FS_EmptySet DEF FewSubproofs, VisitedValid
  <1>2. Inv /\ [GraderNext]_vars => Inv'
    BY GraderNextInv, GraderKeepsFew, VisitedStaysValid DEF GraderInv
  <1>3. Inv => ValidatedIsGrounded
    BY ValidIsGrounded DEF ValidatedIsGrounded, VisitedValid, GraderInv
  <1> QED BY <1>1, <1>2, <1>3, PTL DEF GraderSpec

-----------------------------------------------------------------------------
(* The verdict.  While a goal is validated, a set of lines that is valid   *)
(* all the way down and has the step the goal is judged by has all lines   *)
(* looked at and still to come; so an invalid one among them shows that    *)
(* there is no such set, and when none is left they are one.               *)

Judged ==
  /\ \A k \in 1 .. goal : HasValidFirstMatch(proof, Goals[k])
  /\ phase = "validating" =>
       \E i \in Matches(proof, Goals[goal + 1]) :
         /\ IsFirstMatch(proof, Goals[goal + 1], i)
         /\ proof.line_list[Root][i] \in q \cup visited
         /\ \A S \in SUBSET Lines(proof) :
              proof.line_list[Root][i] \in S /\ ValidDown(proof, S) => q \cup visited \subseteq S
  /\ phase = "accepted" => RightProof(proof)
  /\ phase = "rejected" => ~RightProof(proof)

(* There is only one first step that states a goal.                        *)
LEMMA FirstMatchIsUnique ==
  ASSUME NEW p, WellFormed(p), NEW g,
         NEW i, IsFirstMatch(p, g, i), NEW j, IsFirstMatch(p, g, j)
  PROVE  i = j
  <1>1. i \in DOMAIN p.line_list[Root] /\ j \in DOMAIN p.line_list[Root] /\ i <= j /\ j <= i
    BY DEF IsFirstMatch, Matches
  <1>2. p.line_list[Root] \in Seq(Justs(p) \cup Subs(p))
    BY DEF WellFormed, ProofType
  <1>3. i \in Nat /\ j \in Nat
    BY <1>1, <1>2
  <1> QED BY <1>1, <1>3

(* The grader keeps Judged.                                                *)
LEMMA JudgedStays == GraderInv /\ Judged /\ [GraderNext]_vars => Judged'
  <1> SUFFICES ASSUME GraderInv, Judged, [GraderNext]_vars PROVE Judged'
    OBVIOUS
  <1>g. Len(Goals) \in Nat
    BY GoalsAssumption
  <1>t. Progress /\ WellFormed(proof)
    BY DEF GraderInv
  <1>1. CASE Read
    <2>1. phase = "reading" /\ phase' = "reading" /\ goal = 0 /\ goal' = 0
      BY <1>t, <1>1 DEF Read, Progress
    <2> QED BY <2>1 DEF Judged
  <1>2. CASE ComparePremises
    <2>1. /\ phase = "reading" /\ goal' = goal /\ proof' = proof
          /\ phase' = IF student_set(proof) = InstructorPremises THEN "goals" ELSE "rejected"
      BY <1>2 DEF ComparePremises
    <2>2. goal = 0
      BY <1>t, <2>1 DEF Progress
    <2>3. phase' = "rejected" => ~RightProof(proof)
      BY <2>1 DEF RightProof
    <2> QED BY <2>1, <2>2, <2>3 DEF Judged
  <1>3. CASE StartGoal
    <2>1. PICK i \in DOMAIN proof.line_list[Root] :
            IsFirstMatch(proof, Goals[goal + 1], i) /\ q' = {proof.line_list[Root][i]}
      BY <1>3 DEF StartGoal
    <2>2. phase' = "validating" /\ visited' = {} /\ proof' = proof /\ goal' = goal
      BY <1>3 DEF StartGoal
    <2>3. i \in Matches(proof, Goals[goal + 1])
      BY <2>1 DEF IsFirstMatch
    <2>4. q' \cup visited' = {proof.line_list[Root][i]}
      BY <2>1, <2>2
    <2> QED BY <2>1, <2>2, <2>3, <2>4 DEF Judged
  <1>4. CASE GoalNotFound
    <2>1. /\ goal < Len(Goals) /\ Matches(proof, Goals[goal + 1]) = {}
          /\ phase' = "rejected" /\ proof' = proof /\ goal' = goal
      BY <1>4 DEF GoalNotFound
    <2>2. goal + 1 \in 1 .. Len(Goals)
      BY <1>g, <1>t, <2>1 DEF Progress
    <2>3. ~RightProof(proof)
      BY <2>1, <2>2 DEF RightProof, HasValidFirstMatch
    <2> QED BY <2>1, <2>3 DEF Judged
  <1>5. ASSUME NEW r \in q, Visit(r) PROVE Judged'
    <2>1. phase = "validating" /\ proof' = proof /\ goal' = goal
      BY <1>5 DEF Visit
    <2>2. PICK i \in Matches(proof, Goals[goal + 1]) :
            /\ IsFirstMatch(proof, Goals[goal + 1], i)
            /\ proof.line_list[Root][i] \in q \cup visited
            /\ \A S \in SUBSET Lines(proof) :
                 proof.line_list[Root][i] \in S /\ ValidDown(proof, S) => q \cup visited \subseteq S
      BY <2>1 DEF Judged
    <2>3. CASE verify_line(proof, r)
      <3>1. /\ q' = (q \ {r}) \cup Pushed(proof, r)
            /\ visited' = visited \cup {r} /\ phase' = phase
        BY <1>5, <2>3 DEF Visit
      <3>2. proof.line_list[Root][i] \in q' \cup visited'
        BY <2>2, <3>1
      <3>3. ASSUME NEW S \in SUBSET Lines(proof),
                   proof.line_list[Root][i] \in S, ValidDown(proof, S)
            PROVE  q' \cup visited' \subseteq S
        <4>1. q \cup visited \subseteq S
          BY <2>2, <3>3
        <4>2. Pushed(proof, r) \subseteq S
          BY <3>3, <4>1 DEF ValidDown
        <4> QED BY <3>1, <4>1, <4>2
      <3> QED BY <2>1, <2>2, <3>1, <3>2, <3>3 DEF Judged
    <2>4. CASE ~verify_line(proof, r)
      <3>1. phase' = "rejected"
        BY <1>5, <2>4 DEF Visit
      <3>2. goal + 1 \in 1 .. Len(Goals)
        BY <1>g, <1>t, <2>1 DEF Progress
      <3>3. ~HasValidFirstMatch(proof, Goals[goal + 1])
        <4> SUFFICES ASSUME NEW j \in Matches(proof, Goals[goal + 1]),
                            IsFirstMatch(proof, Goals[goal + 1], j),
                            NEW S \in SUBSET Lines(proof),
                            proof.line_list[Root][j] \in S, ValidDown(proof, S)
                     PROVE  FALSE
          BY DEF HasValidFirstMatch
        <4>1. i = j
          BY <1>t, <2>2, FirstMatchIsUnique
        <4>2. r \in S
          BY <2>2, <4>1
        <4> QED BY <2>4, <4>2 DEF ValidDown
      <3>4. ~RightProof(proof)
        BY <3>2, <3>3 DEF RightProof
      <3> QED BY <2>1, <3>1, <3>4 DEF Judged
    <2> QED BY <2>3, <2>4
  <1>6. CASE GoalDone
    <2>1. /\ phase = "validating" /\ q = {} /\ phase' = "goals" /\ goal' = goal + 1
          /\ proof' = proof
      BY <1>6 DEF GoalDone
    <2>2. goal \in Nat
      BY <1>t DEF Progress
    <2>3. visited \in SUBSET Lines(proof) /\ ValidDown(proof, visited)
      BY <1>t, <2>1 DEF Progress, ValidDown
    <2>4. HasValidFirstMatch(proof, Goals[goal + 1])
      BY <2>1, <2>3 DEF Judged, HasValidFirstMatch
    <2>5. \A k \in 1 .. goal + 1 : k \in 1 .. goal \/ k = goal + 1
      BY <2>2
    <2>6. \A k \in 1 .. goal + 1 : HasValidFirstMatch(proof, Goals[k])
      BY <2>4, <2>5 DEF Judged
    <2> QED BY <2>1, <2>6 DEF Judged
  <1>7. CASE Accept
    <2>1. /\ phase = "goals" /\ goal = Len(Goals) /\ phase' = "accepted"
          /\ proof' = proof /\ goal' = goal
      BY <1>7 DEF Accept
    <2>2. RightProof(proof)
      BY <1>t, <2>1 DEF Judged, Progress, RightProof
    <2> QED BY <2>1, <2>2 DEF Judged
  <1>8. CASE UNCHANGED vars
    BY <1>8 DEF vars, Judged
  <1>9. ASSUME NEW r \in q, GetStuck(r) PROVE Judged'
    BY <1>9 DEF GetStuck, Judged
  <1> QED BY <1>1, <1>2, <1>3, <1>4, <1>5, <1>6, <1>7, <1>8, <1>9 DEF GraderNext

(* The grader judges the proof once, after reading it, and accepts it just *)
(* if its premises are those of the assignment and the first step stating  *)
(* each goal is valid down to them.                                        *)
THEOREM GraderGivesRightVerdict == GraderSpec => GivesRightVerdict
  <1> DEFINE verdict == IF phase \in {"accepted", "rejected"} THEN phase ELSE "none"
  <1>1. GraderInit => GraderInv /\ Judged /\ Promise!Init
    <2> SUFFICES ASSUME GraderInit PROVE Judged /\ Promise!Init
      BY GraderInitInv
    <2> QED BY DEF GraderInit, Judged, Promise!Init
  <1>2. GraderInv /\ Judged /\ [GraderNext]_vars => (GraderInv /\ Judged)'
    BY GraderNextInv, JudgedStays
  <1>3. /\ GraderInv /\ GraderInv' /\ Judged /\ Judged' /\ [GraderNext]_vars
        => [Promise!Write \/ Promise!Decide]_<<proof, verdict>>
    <2> SUFFICES ASSUME GraderInv, GraderInv', Judged, Judged', [GraderNext]_vars
                 PROVE  [Promise!Write \/ Promise!Decide]_<<proof, verdict>>
      OBVIOUS
    <2>1. CASE phase' \notin {"accepted", "rejected"}
      <3>1. phase \notin {"accepted", "rejected"}
        BY <2>1 DEF GraderNext, vars, Read, ComparePremises, StartGoal, GoalNotFound, GoalDone,
                    Accept, Visit, GetStuck
      <3> QED BY <2>1, <3>1 DEF Promise!Write
    <2>2. CASE phase' \in {"accepted", "rejected"}
      <3>1. proof' = proof
        BY <2>2 DEF GraderNext, vars, Read, ComparePremises, StartGoal, GoalNotFound, GoalDone,
                    Accept, Visit, GetStuck
      <3>2. CASE phase \in {"accepted", "rejected"}
        <4>1. phase' = phase
          BY <3>2 DEF GraderNext, vars, Read, ComparePremises, StartGoal, GoalNotFound, GoalDone,
                      Accept, Visit, GetStuck
        <4> QED BY <3>1, <4>1
      <3>3. CASE phase \notin {"accepted", "rejected"}
        <4>1. /\ phase' = "accepted" => RightProof(proof)
              /\ phase' = "rejected" => ~RightProof(proof)
          BY <3>1 DEF Judged
        <4> QED BY <2>2, <3>1, <3>3, <4>1 DEF Promise!Decide
      <3> QED BY <3>2, <3>3
    <2> QED BY <2>1, <2>2
  <1> QED BY <1>1, <1>2, <1>3, PTL DEF GraderSpec, GivesRightVerdict, Promise!Spec

-----------------------------------------------------------------------------
(* The goals of an accepted proof follow from the premises.  Of the valid  *)
(* steps that say something untrue where all assumptions around them are   *)
(* true, one rests on none of the others; but what it cites is in its own  *)
(* scope, and so is true, and its rule is sound.                           *)

(* The premises of the proof and the assumptions around x are true.        *)
AssumptionsTrue(p, x, T) ==
  \A a \in Prems(p) : parent_of(p, a) \in {Root} \cup transitive_parents(p, x) => Says(p, a) \in T

(* What is earlier than a line or than a subproof around it is in no       *)
(* subproof that the line is not in.                                       *)
LEMMA CitedIsAround ==
  ASSUME NEW p, WellFormed(p), NEW j \in Justs(p), RefsInScope(p, j),
         NEW d \in p.just_map[j].deps \cup p.just_map[j].sdeps
  PROVE  /\ parent_of(p, d) \in {Root} \cup transitive_parents(p, j)
         /\ transitive_parents(p, d) \subseteq transitive_parents(p, j)
  <1>1. PICK w \in {j} \cup transitive_parents(p, j) : d \in Earlier(p, w)
    BY DEF RefsInScope, can_reference_dep, possible_deps_for_line
  <1>2. parent_of(p, d) = parent_of(p, w)
    BY <1>1, EarlierIsListed
  <1>3. transitive_parents(p, d) = transitive_parents(p, w)
    BY <1>2 DEF transitive_parents
  <1>4. transitive_parents(p, w) \subseteq transitive_parents(p, j)
    BY <1>1, AroundTrans
  <1>5. parent_of(p, w) # Root => parent_of(p, w) \in transitive_parents(p, w)
    BY AroundIs
  <1> QED BY <1>2, <1>3, <1>4, <1>5

(* In a set that is valid all the way down, a step says something true     *)
(* wherever the assumptions around it are true.                            *)
LEMMA ValidIsTrue ==
  ASSUME NEW p, WellFormed(p), FewSubproofs(p), NEW T,
         NEW S \in SUBSET Lines(p), ValidDown(p, S),
         \A j \in Justs(p) : p.just_map[j].expr.ok => SoundStep(p, j, T)
  PROVE  \A j \in S \cap Justs(p) : AssumptionsTrue(p, j, T) => Says(p, j) \in T
  <1> DEFINE C == {j \in S \cap Justs(p) : AssumptionsTrue(p, j, T) /\ Says(p, j) \notin T}
  <1> SUFFICES ASSUME C # {} PROVE FALSE
    OBVIOUS
  <1>k. Prems(p) \cap Justs(p) = {}
    BY KindsDisjoint DEF WellFormed, ProofType
  <1>1. PICK j \in C : Pushed(p, j) \cap C = {}
    <2>1. Grounded(p, S)
      BY ValidIsGrounded DEF ValidDown
    <2>2. C \in SUBSET (S \cap Justs(p))
      OBVIOUS
    <2> QED BY <2>1, <2>2 DEF Grounded
  <1>2. /\ j \in S /\ j \in Justs(p) /\ j \notin Prems(p)
        /\ AssumptionsTrue(p, j, T) /\ Says(p, j) \notin T
    BY <1>1, <1>k
  <1>3. RefsInScope(p, j) /\ p.just_map[j].expr.ok /\ Pushed(p, j) \subseteq S
    BY <1>2 DEF ValidDown, verify_line
  <1>4. \A x \in S \cap Justs(p) : x \notin C /\ AssumptionsTrue(p, x, T) => Says(p, x) \in T
    OBVIOUS
  <1> HIDE DEF C
  <1>5. ASSUME NEW d \in p.just_map[j].deps PROVE Says(p, d) \in T
    <2>1. /\ parent_of(p, d) \in {Root} \cup transitive_parents(p, j)
          /\ transitive_parents(p, d) \subseteq transitive_parents(p, j)
      BY <1>2, <1>3, CitedIsAround
    <2>2. d \in Pushed(p, j)
      BY <1>2 DEF Pushed
    <2>3. d \in S /\ d \notin C /\ d \in Lines(p)
      BY <1>1, <1>3, <2>2
    <2>4. CASE d \in Prems(p)
      BY <1>2, <2>1, <2>4 DEF AssumptionsTrue
    <2>5. CASE d \in Justs(p)
      <3>1. AssumptionsTrue(p, d, T)
        BY <1>2, <2>1 DEF AssumptionsTrue
      <3> QED BY <1>4, <2>3, <2>5, <3>1
    <2> QED BY <2>3, <2>4, <2>5 DEF Lines
  <1>6. ASSUME NEW s \in p.just_map[j].sdeps, NEW l \in direct_lines(p, s),
               \A a \in Entries(p.premise_list[s]) : Says(p, a) \in T
        PROVE  Says(p, l) \in T
    <2>1. s \in Subs(p) /\ s # Root
      BY <1>2 DEF WellFormed, NoDanglingRefs, Subs
    <2>2. transitive_parents(p, s) \subseteq transitive_parents(p, j)
      BY <1>2, <1>3, CitedIsAround
    <2>3. l \in Justs(p) /\ parent_of(p, l) = s
      BY <2>1 DEF direct_lines, WellFormed, ListedOnce
    <2>4. l \in Pushed(p, j)
      BY <1>2 DEF Pushed
    <2>5. l \in S /\ l \notin C
      BY <1>1, <1>3, <2>4
    <2>6. transitive_parents(p, l) = {s} \cup transitive_parents(p, s)
      BY <2>1, <2>3, AroundIs
    <2>7. \A a \in Prems(p) : parent_of(p, a) = s => a \in Entries(p.premise_list[s])
      BY <2>1 DEF WellFormed, ListedOnce
    <2>8. AssumptionsTrue(p, l, T)
      BY <1>2, <1>6, <2>2, <2>6, <2>7 DEF AssumptionsTrue
    <2> QED BY <1>4, <2>3, <2>5, <2>8
  <1>7. SoundStep(p, j, T)
    BY <1>2, <1>3
  <1>8. \A s \in p.just_map[j].sdeps : SubproofTrue(p, s, T)
    BY <1>6 DEF SubproofTrue
  <1> QED BY <1>2, <1>5, <1>7, <1>8 DEF SoundStep

(* If the rules of its steps are sound, a proof that deserves to be        *)
(* accepted has goals that follow from its premises.                       *)
LEMMA RightFollows ==
  ASSUME NEW p, WellFormed(p), FewSubproofs(p), RightProof(p), NEW T, InstructorPremises \subseteq T,
         \A j \in Justs(p) : p.just_map[j].expr.ok => SoundStep(p, j, T), NEW k \in 1 .. Len(Goals)
  PROVE  Goals[k] \in T
  <1>1. PICK i \in Matches(p, Goals[k]) :
          \E S \in SUBSET Lines(p) : p.line_list[Root][i] \in S /\ ValidDown(p, S)
    BY DEF RightProof, HasValidFirstMatch
  <1>2. PICK S \in SUBSET Lines(p) : p.line_list[Root][i] \in S /\ ValidDown(p, S)
    BY <1>1
  <1> DEFINE j == p.line_list[Root][i]
  <1>3. i \in DOMAIN p.line_list[Root] /\ j \in Justs(p) /\ Says(p, j) = Goals[k]
    BY DEF Matches
  <1>4. parent_of(p, j) = Root
    <2>1. j \in Entries(p.line_list[Root])
      BY <1>3 DEF Entries
    <2> QED BY <2>1 DEF WellFormed, ListedOnce
  <1>5. transitive_parents(p, j) = {}
    BY <1>4, AroundIs
  <1>6. ASSUME NEW a \in Prems(p), parent_of(p, a) = Root PROVE Says(p, a) \in T
    <2>1. a \in Entries(p.premise_list[Root])
      BY <1>6 DEF WellFormed, ListedOnce
    <2>2. Says(p, a) \in student_set(p)
      BY <2>1 DEF student_set
    <2> QED BY <2>2 DEF RightProof
  <1>7. AssumptionsTrue(p, j, T)
    BY <1>5, <1>6 DEF AssumptionsTrue
  <1>8. j \in S \cap Justs(p) /\ S \in SUBSET Lines(p) /\ ValidDown(p, S)
    BY <1>2, <1>3
  <1> HIDE DEF j
  <1>9. Says(p, j) \in T
    BY <1>7, <1>8, ValidIsTrue
  <1> QED BY <1>3, <1>9

(* If its rules accept only sound steps, the grader accepts only proofs    *)
(* whose goals follow from the premises of the assignment.                 *)
THEOREM GraderIsSound == GraderSpec => []AcceptedFollows
  <1> DEFINE Inv == GraderInv /\ FewSubproofs(proof) /\ Judged
  <1>1. GraderInit => Inv
    <2> SUFFICES ASSUME GraderInit PROVE FewSubproofs(proof) /\ Judged
      BY GraderInitInv
    <2>1. Subs(proof) = {}
      BY DEF GraderInit, Init, new, Subs
    <2> QED BY <2>1, FS_EmptySet DEF FewSubproofs, GraderInit, Judged
  <1>2. Inv /\ [GraderNext]_vars => Inv'
    BY GraderNextInv, GraderKeepsFew, JudgedStays DEF GraderInv
  <1>3. Inv => AcceptedFollows
    <2> SUFFICES ASSUME Inv, phase = "accepted", NEW T \in SUBSET Statements,
                        InstructorPremises \subseteq T,
                        \A j \in Justs(proof) : proof.just_map[j].expr.ok => SoundStep(proof, j, T),
                        NEW k \in 1 .. Len(Goals)
                 PROVE  Goals[k] \in T
      BY DEF AcceptedFollows
    <2>1. WellFormed(proof) /\ FewSubproofs(proof) /\ RightProof(proof)
      BY DEF GraderInv, Judged
    <2> QED BY <2>1, RightFollows
  <1> QED BY <1>1, <1>2, <1>3, PTL DEF GraderSpec

-----------------------------------------------------------------------------
(* The loop of validate_recursive ends.  Each of its iterations takes out  *)
(* a line and puts in lines that are read before it only.                  *)

(* What an iteration that goes on does to the lines still to come.         *)
Descends ==
  phase = "validating" /\ phase' = "validating" =>
    \E r \in q : r \notin q' /\ \A x \in q' \ q : Before(proof, x, r)

(* The loop can go on for ever on proof p: v are the lines popped, and c   *)
(* how often q, a Vec, names each line.  A line may be pushed any number   *)
(* of times at once, since a step may name it more than once.              *)
EndlessLoop(p, v, c) ==
  /\ v \in [Nat -> Lines(p)]
  /\ c \in [Nat -> [Lines(p) -> Nat]]
  /\ \A n \in Nat :
       /\ verify_line(p, v[n])
       /\ c[n][v[n]] > 0
       /\ \A x \in Lines(p) \ Pushed(p, v[n]) :
            c[n + 1][x] = IF x = v[n] THEN c[n][x] - 1 ELSE c[n][x]

LoopEnds == ~\E v, c : EndlessLoop(proof, v, c)

(* What validation looks at after a valid line is read before it.          *)
LEMMA PushedIsEarlier ==
  ASSUME NEW p, WellFormed(p), NEW r \in Lines(p), verify_line(p, r), NEW x \in Pushed(p, r)
  PROVE  x \in Lines(p) /\ Before(p, x, r)
  <1>1. r \notin Prems(p) /\ r \in Justs(p) /\ RefsInScope(p, r)
    BY DEF Pushed, verify_line
  <1>2. x \in RestsOn(p, r)
    BY <1>1, PushedIsRestedOn
  <1> QED BY <1>1, <1>2, RestsOnEarlier

(* A finite set of naturals, each the number of a member of W, has a       *)
(* highest.                                                                *)
LEMMA HighestNumber ==
  ASSUME NEW W, W # {}, NEW N \in Nat, NEW num \in [W -> 0 .. N]
  PROVE  \E x \in W : \A y \in W : num[y] <= num[x]
  <1> DEFINE T == {N - num[x] : x \in W}
  <1>1. T \in SUBSET Nat /\ T # {}
    OBVIOUS
  <1>2. PICK x \in W : \A y \in W : N - num[x] <= N - num[y]
    <2>1. PICK n \in T : \A m \in T : n <= m
      BY <1>1, LeastNat
    <2> QED BY <2>1
  <1> QED BY <1>2

(* From n0 on, v stays in W and comes back to all that is in W.            *)
RecursIn(v, W, n0) ==
  /\ \A m \in Nat : n0 <= m => v[m] \in W
  /\ \A x \in W : \A n \in Nat : \E m \in Nat : n <= m /\ v[m] = x

(* An infinite sequence in a finite set L ends in a part of it in which    *)
(* everything comes back again and again.                                  *)
LEMMA ComesBack ==
  ASSUME NEW L, IsFiniteSet(L), NEW v \in [Nat -> L]
  PROVE  \E W \in SUBSET L, n0 \in Nat : RecursIn(v, W, n0)
  <1> DEFINE T == {W \in SUBSET L : \E n0 \in Nat : \A m \in Nat : n0 <= m => v[m] \in W}
             C == {Cardinality(W) : W \in T}
  <1>1. \A W \in T : IsFiniteSet(W) /\ Cardinality(W) \in Nat
    BY FS_Subset, FS_CardinalityType
  <1>2. L \in T
    BY 0 \in Nat
  <1>3. C \in SUBSET Nat /\ C # {}
    BY <1>1, <1>2
  <1>4. PICK W \in T : \A V \in T : Cardinality(W) <= Cardinality(V)
    <2>1. PICK k \in C : \A m \in C : k <= m
      BY <1>3, LeastNat
    <2> QED BY <2>1
  <1>5. PICK n0 \in Nat : \A m \in Nat : n0 <= m => v[m] \in W
    BY <1>4
  <1>6. ASSUME NEW x \in W, NEW n \in Nat, \A m \in Nat : n <= m => v[m] # x
        PROVE  FALSE
    <2> DEFINE V == W \ {x}
               k == IF n0 <= n THEN n ELSE n0
    <2>1. k \in Nat /\ n0 <= k /\ n <= k
      OBVIOUS
    <2> HIDE DEF k
    <2>2. \A m \in Nat : k <= m => v[m] \in V
      BY <1>5, <1>6, <2>1
    <2>3. V \in T
      BY <1>4, <2>1, <2>2
    <2>4. IsFiniteSet(W) /\ Cardinality(W) \in Nat
      BY <1>1
    <2>5. Cardinality(V) = Cardinality(W) - 1
      BY <2>4, FS_RemoveElement
    <2>6. Cardinality(W) <= Cardinality(V)
      BY <1>4, <2>3
    <2> QED BY <2>4, <2>5, <2>6
  <1> QED BY <1>4, <1>5, <1>6 DEF RecursIn

(* A number that never rises, and falls again and again, is not natural.   *)
LEMMA CannotKeepFalling ==
  ASSUME NEW h \in [Nat -> Nat], NEW n0 \in Nat,
         \A m \in Nat : n0 <= m => h[m + 1] <= h[m],
         \A n \in Nat : \E m \in Nat : n <= m /\ h[m + 1] < h[m]
  PROVE  FALSE
  <1> DEFINE T == {h[m] : m \in {k \in Nat : n0 <= k}}
  <1>1. T \in SUBSET Nat /\ T # {}
    OBVIOUS
  <1>2. PICK a \in Nat : n0 <= a /\ \A m \in Nat : n0 <= m => h[a] <= h[m]
    <2>1. PICK k \in T : \A m \in T : k <= m
      BY <1>1, LeastNat
    <2> QED BY <2>1
  <1>3. \A m \in Nat : a <= m => h[m] <= h[a]
    <2> DEFINE B == {m \in Nat : a <= m /\ ~(h[m] <= h[a])}
    <2> SUFFICES ASSUME B # {} PROVE FALSE
      OBVIOUS
    <2>1. B \in SUBSET Nat
      OBVIOUS
    <2>2. PICK m \in B : \A k \in B : m <= k
      BY <2>1, LeastNat
    <2>3. m # a /\ m - 1 \in Nat /\ a <= m - 1 /\ m - 1 \notin B
      BY <2>2
    <2>4. h[m - 1] <= h[a]
      BY <2>3
    <2>5. n0 <= m - 1 /\ (m - 1) + 1 = m
      BY <1>2, <2>2, <2>3
    <2>6. h[m] <= h[m - 1]
      BY <2>3, <2>5
    <2> QED BY <2>2, <2>3, <2>4, <2>6
  <1>4. PICK m \in Nat : a <= m /\ h[m + 1] < h[m]
    OBVIOUS
  <1>5. m + 1 \in Nat /\ n0 <= m + 1
    BY <1>2, <1>4
  <1>6. h[a] <= h[m + 1] /\ h[m] <= h[a] /\ h[m] \in Nat /\ h[m + 1] \in Nat /\ h[a] \in Nat
    BY <1>2, <1>3, <1>4, <1>5
  <1> QED BY <1>4, <1>6

(* The loop does not go on for ever: of the lines it would come back to    *)
(* again and again, the one read last is put in by none of the others.     *)
LEMMA LoopEndsOn ==
  ASSUME NEW p, WellFormed(p), IsFiniteSet(Lines(p)), NEW v, NEW c, EndlessLoop(p, v, c)
  PROVE  FALSE
  <1> DEFINE L == Lines(p)
             num == [x \in L |-> LinesBefore(p, x)]
             N == Cardinality(L)
  <1>1. /\ v \in [Nat -> L]
        /\ c \in [Nat -> [L -> Nat]]
        /\ \A n \in Nat :
             /\ verify_line(p, v[n])
             /\ c[n][v[n]] > 0
             /\ \A x \in L \ Pushed(p, v[n]) :
                  c[n + 1][x] = IF x = v[n] THEN c[n][x] - 1 ELSE c[n][x]
    BY DEF EndlessLoop
  <1>2. N \in Nat /\ \A x \in L : num[x] \in 0 .. N
    <2>1. N \in Nat
      BY FS_CardinalityType
    <2>2. ASSUME NEW x \in L PROVE LinesBefore(p, x) \in 0 .. N
      <3> DEFINE X == {y \in Lines(p) : Before(p, y, x)}
      <3>1. X \in SUBSET L
        OBVIOUS
      <3>2. LinesBefore(p, x) = Cardinality(X)
        BY DEF LinesBefore
      <3> HIDE DEF X
      <3>3. IsFiniteSet(X) /\ Cardinality(X) <= Cardinality(L)
        BY <3>1, FS_Subset
      <3>4. Cardinality(X) \in Nat
        BY <3>3, FS_CardinalityType
      <3> QED BY <2>1, <3>2, <3>3, <3>4
    <2> QED BY <2>1, <2>2
  <1>3. \A x, y \in L : Before(p, x, y) => num[x] < num[y]
    BY NumbersFollowOrder
  <1>4. \A n \in Nat : \A x \in Pushed(p, v[n]) : Before(p, x, v[n])
    BY <1>1, PushedIsEarlier
  <1>f. IsFiniteSet(L)
    OBVIOUS
  <1> HIDE DEF L, num, N
  <1>5. PICK W \in SUBSET L, n0 \in Nat : RecursIn(v, W, n0)
    <2>1. v \in [Nat -> L]
      BY <1>1
    <2> QED BY <1>f, <2>1, ComesBack
  <1>6. /\ \A m \in Nat : n0 <= m => v[m] \in W
        /\ \A x \in W : \A n \in Nat : \E m \in Nat : n <= m /\ v[m] = x
    BY <1>5 DEF RecursIn
  <1>7. PICK x \in W : \A y \in W : num[y] <= num[x]
    <2> DEFINE numW == [y \in W |-> num[y]]
    <2>1. numW \in [W -> 0 .. N]
      BY <1>2, <1>5
    <2>2. W # {}
      BY <1>6
    <2>3. \A y \in W : numW[y] = num[y]
      OBVIOUS
    <2> HIDE DEF numW
    <2>4. \E x \in W : \A y \in W : numW[y] <= numW[x]
      BY <1>2, <2>1, <2>2, HighestNumber
    <2> QED BY <2>3, <2>4
  <1>8. \A m \in Nat : n0 <= m => x \notin Pushed(p, v[m])
    <2> SUFFICES ASSUME NEW m \in Nat, n0 <= m, x \in Pushed(p, v[m]) PROVE FALSE
      OBVIOUS
    <2>1. v[m] \in W /\ v[m] \in L /\ x \in L
      BY <1>5, <1>6, <1>7
    <2>2. num[x] < num[v[m]] /\ num[v[m]] <= num[x] /\ num[x] \in Nat /\ num[v[m]] \in Nat
      BY <1>2, <1>3, <1>4, <1>7, <2>1
    <2> QED BY <2>2
  <1> DEFINE h == [n \in Nat |-> c[n][x]]
  <1>9. h \in [Nat -> Nat] /\ x \in L
    BY <1>1, <1>5, <1>7
  <1>10. \A m \in Nat : n0 <= m => h[m + 1] = IF x = v[m] THEN h[m] - 1 ELSE h[m]
    BY <1>1, <1>8, <1>9
  <1> HIDE DEF h
  <1>11. \A m \in Nat : n0 <= m => h[m + 1] <= h[m]
    BY <1>9, <1>10
  <1>12. ASSUME NEW n \in Nat PROVE \E m \in Nat : n <= m /\ h[m + 1] < h[m]
    <2> DEFINE k == IF n0 <= n THEN n ELSE n0
    <2>1. k \in Nat /\ n0 <= k /\ n <= k
      OBVIOUS
    <2> HIDE DEF k
    <2>2. PICK m \in Nat : k <= m /\ v[m] = x
      BY <1>6, <1>7, <2>1
    <2>3. n0 <= m /\ n <= m
      BY <2>1, <2>2
    <2>4. h[m + 1] = h[m] - 1 /\ h[m] \in Nat
      BY <1>9, <1>10, <2>2, <2>3
    <2> QED BY <2>2, <2>3, <2>4
  <1> QED BY <1>9, <1>11, <1>12, CannotKeepFalling

(* Reading adds at most one line at a time.                                *)
LEMMA GraderKeepsLinesFew ==
  WellFormed(proof) /\ IsFiniteSet(Lines(proof)) /\ [GraderNext]_vars => IsFiniteSet(Lines(proof)')
  <1> SUFFICES ASSUME WellFormed(proof), IsFiniteSet(Lines(proof)), [GraderNext]_vars
               PROVE  IsFiniteSet(Lines(proof)')
    OBVIOUS
  <1> DEFINE More == (Lines(proof) \cup {next_premkey(proof)}) \cup {next_justkey(proof)}
  <1>1. IsFiniteSet(More)
    BY FS_AddElement
  <1>2. /\ \A s, e : Lines(add_premise(proof, s, e)) \subseteq More
        /\ \A s : Lines(add_subproof(proof, s)) \subseteq More
        /\ \A s, just : Lines(add_step(proof, s, just)) \subseteq More
    BY DEF add_premise, add_subproof, add_step, WithPremise, WithSubproof, WithStep, Lines, Prems,
           Justs, Put
  <1>3. Lines(proof)' \in SUBSET More
    <2>1. CASE Read
      BY <1>2, <2>1 DEF Read, AddPremise, AddSubproof, AddStep
    <2>2. CASE UNCHANGED proof
      BY <2>2
    <2>3. Read \/ UNCHANGED proof
      BY DEF GraderNext, vars, ComparePremises, StartGoal, GoalNotFound, GoalDone, Accept, Visit,
             GetStuck
    <2> QED BY <2>1, <2>2, <2>3
  <1> HIDE DEF More
  <1> QED BY <1>1, <1>3, FS_Subset

(* Each iteration of the loop takes out a line and puts in lines that are  *)
(* read before it only.                                                    *)
THEOREM GraderLoopDescends == GraderSpec => [][Descends]_vars
  <1>1. GraderInv /\ [GraderNext]_vars => Descends \/ UNCHANGED vars
    <2> SUFFICES ASSUME GraderInv, GraderNext, phase = "validating", phase' = "validating"
                 PROVE  \E r \in q : r \notin q' /\ \A x \in q' \ q : Before(proof, x, r)
      BY DEF Descends
    <2>1. PICK r \in q : Visit(r)
      BY DEF GraderNext, Read, ComparePremises, StartGoal, GoalNotFound, GoalDone, Accept, GetStuck
    <2>2. verify_line(proof, r) /\ q' = (q \ {r}) \cup Pushed(proof, r)
      BY <2>1 DEF Visit
    <2>3. WellFormed(proof) /\ r \in Lines(proof)
      BY DEF GraderInv, Progress
    <2>4. \A x \in Pushed(proof, r) : Before(proof, x, r)
      BY <2>2, <2>3, PushedIsEarlier
    <2>5. r \notin Pushed(proof, r)
      BY <2>3, <2>4, BeforeIsStrict
    <2> QED BY <2>2, <2>4, <2>5
  <1> QED BY <1>1, GraderInitInv, GraderNextInv, PTL DEF GraderSpec

(* Whatever was read, the loop of validate_recursive runs a finite number  *)
(* of iterations, however often its q names a line. Whether the check of   *)
(* one rule ends is another question (GetStuck).                           *)
THEOREM GraderLoopEnds == GraderSpec => []LoopEnds
  <1> DEFINE Inv == WellFormed(proof) /\ IsFiniteSet(Lines(proof))
  <1>1. GraderInit => Inv
    <2> SUFFICES ASSUME GraderInit PROVE Inv
      OBVIOUS
    <2>1. WellFormed(proof)
      BY InitWF DEF GraderInit
    <2>2. Lines(proof) = {}
      BY DEF GraderInit, Init, new, Lines, Prems, Justs
    <2> QED BY <2>1, <2>2, FS_EmptySet
  <1>2. Inv /\ [GraderNext]_vars => Inv'
    <2>1. WellFormed(proof) /\ [GraderNext]_vars => WellFormed(proof)'
      BY ReadingIsEditing, NextWF
    <2> QED BY <2>1, GraderKeepsLinesFew
  <1>3. Inv => LoopEnds
    BY LoopEndsOn DEF LoopEnds
  <1> QED BY <1>1, <1>2, <1>3, PTL DEF GraderSpec
=============================================================================
