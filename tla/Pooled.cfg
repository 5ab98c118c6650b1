SPECIFICATION Spec
CONSTANTS
  Exprs = {e1}
  MaxPrems = 2
  MaxSteps = 2
  MaxSubs = 2
  MaxRefs = 1
INVARIANTS TypeOK Structure References Reasoning
PROPERTIES EditsKeepOrder
