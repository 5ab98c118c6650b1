SPECIFICATION WidgetSpec
CONSTANTS
  empty = empty
  A = A
  txtA = txtA
  blank = blank
  None = None
  EmptyRule = EmptyRule
  Formulas = {empty, A}
  Rules = {EmptyRule}
  MenuRules = {EmptyRule}
  Exprs <- MCExprs
  EmptyExpr = empty
  Inputs = {blank, txtA}
  NoInput = blank
  ParseOf <- MCParseOf
  MaxPrems = 2
  MaxSteps = 2
  MaxSubs = 1
  MaxRefs = 0
INVARIANT TextIsOfItsLine
