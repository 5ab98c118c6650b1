SPECIFICATION WidgetSpec
CONSTANTS
  empty = empty
  A = A
  txtA = txtA
  blank = blank
  None = None
  EmptyRule = EmptyRule
  Formulas = {empty, A}
  Rules = {EmptyRule}
  MenuRules = {EmptyRule}
  Exprs <- MCExprs
  EmptyExpr = empty
  Inputs = {blank, txtA}
  NoInput = blank
  ParseOf <- MCParseOf
  MaxPrems = 3
  MaxSteps = 2
  MaxSubs = 2
  MaxRefs = 2
INVARIANTS WidgetTypeOK SelectedIsLive OneAssumption RefsPointBack DependencyWalkEnds
PROPERTIES EditsKeepTexts
CONSTRAINT OneText
VIEW WithTexts
