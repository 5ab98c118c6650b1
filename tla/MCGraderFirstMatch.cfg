SPECIFICATION GraderSpec
CONSTANTS
  g = g
  h = h
  Statements <- MCStatements
  Exprs <- MCExprs
  InstructorPremises <- MCPremises
  Goals <- MCGoals
  MaxPrems = 1
  MaxSteps = 2
  MaxSubs = 1
  MaxRefs = 2
INVARIANTS RejectedHasNoValidGoal
CHECK_DEADLOCK FALSE
