SPECIFICATION CheckerSpec
CONSTANTS
  Equations <- MCEquations
  Terms <- MCTerms
  Inputs <- MCInputs
  Structures <- MCStructures
  Exercises <- MCExercises
INVARIANTS SolvedUnifies FailsOnlyIfUnsolvable AlphaEqualSolved MeaningKept SortedIsCanonical ComparesUpToAlpha StopsSoon Sound OrderIrrelevant
PROPERTIES Returns
CHECK_DEADLOCK FALSE
