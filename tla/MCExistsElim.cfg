SPECIFICATION CheckerSpec
CONSTANTS
  Equations <- NoInputs
  Terms <- NoInputs
  Inputs <- NoInputs
  Structures <- NoStructures
  Exercises <- Skolem
INVARIANTS SkolemIsFresh
CHECK_DEADLOCK FALSE
