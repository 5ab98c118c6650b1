SPECIFICATION FairGraderSpec
CONSTANTS
  g = g
  h = h
  Statements <- MCStatements
  Exprs <- MCExprs
  InstructorPremises <- MCPremises
  Goals <- MCTwoGoals
  MaxPrems = 2
  MaxSteps = 2
  MaxSubs = 1
  MaxRefs = 2
INVARIANTS AcceptedFollows Progress ValidatedIsGrounded
PROPERTIES Terminates GivesRightVerdict
CHECK_DEADLOCK FALSE
