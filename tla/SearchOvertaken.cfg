\* Nothing fails and nobody writes; answers may overtake each other.
CONSTANTS
  c1 = c1  c2 = c2  any = any  some = some  None = None
  Companies <- TwoCompanies
  Rank <- ByName
  Keywords <- TwoKeywords
  Any = any
  Matches <- Narrowing
  Limit = 1
  MaxCalls = 5
  MaxFailures = 0
  MaxWrites = 0
  InOrder = FALSE
CHECK_DEADLOCK FALSE
SPECIFICATION Spec
INVARIANTS SearchLandsOnPage
