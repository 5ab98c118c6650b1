SPECIFICATION FairSpec
CONSTANTS
  Values = {a, b, c}
  None = None
  MaxLen = 4
INVARIANTS TypeOK ScanInv
PROPERTIES RefinesPlainList CallsReturn
