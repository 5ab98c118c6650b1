SPECIFICATION Spec
CONSTANTS
  Values = {a, b, c}
  None = None
  MaxLen = 4
INVARIANT GetAgreesWithIter
