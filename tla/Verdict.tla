------------------------------ MODULE Verdict -------------------------------
(***************************************************************************)
(* What a grader promises: a document is written, then judged once and for *)
(* all, and the verdict is what is right for the document judged.          *)
(***************************************************************************)
CONSTANT Right(_)  \* which documents deserve to be accepted

VARIABLES doc,     \* what was handed in
          verdict  \* "none" until there is one

Init == verdict = "none"

Write ==
  /\ verdict = "none"
  /\ UNCHANGED verdict

Decide ==
  /\ verdict = "none"
  /\ verdict' = IF Right(doc) THEN "accepted" ELSE "rejected"
  /\ UNCHANGED doc

Spec == Init /\ [][Write \/ Decide]_<<doc, verdict>>
=============================================================================
