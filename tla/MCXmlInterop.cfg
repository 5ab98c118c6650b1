SPECIFICATION XmlSpec
CONSTANTS
  empty = empty
  blank = blank
  None = None
  AndIntro = AndIntro
  Conjunction = Conjunction
  Reiteration = Reiteration
  EmptyRule = EmptyRule
  CONJUNCTION = CONJUNCTION
  REITERATION = REITERATION
  EMPTY_RULE = EMPTY_RULE
  Formulas = {empty}
  Rules = {AndIntro, Reiteration, Conjunction, EmptyRule}
  MenuRules = {Conjunction}
  Exprs <- MCExprs
  Names = {CONJUNCTION, REITERATION, EMPTY_RULE}
  declared_rules <- MCDeclaredRules
  EmptyExpr = empty
  Inputs = {blank}
  NoInput = blank
  ParseOf <- MCParseOf
  MaxPrems = 3
  MaxSteps = 2
  MaxSubs = 2
  MaxRefs = 1
INVARIANTS ReaderOK RoundTrip
VIEW WithoutUi
