SPECIFICATION CheckerSpec
CONSTANTS
  Equations <- OrderEquations
  Terms <- NoInputs
  Inputs <- NoInputs
  Structures <- NoStructures
  Exercises <- NoExercises
INVARIANTS ReturnedUnifies
CHECK_DEADLOCK FALSE
