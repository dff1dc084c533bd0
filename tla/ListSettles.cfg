\* Answers in order: what the page settles on, and what turning the pages shows.
CONSTANTS
  c1 = c1  c2 = c2  any = any  some = some  None = None
  Companies <- TwoCompanies
  Rank <- ByName
  Keywords <- TwoKeywords
  Any = any
  Matches <- Narrowing
  Limit = 1
  MaxCalls = 4
  MaxFailures = 1
  MaxWrites = 1
  InOrder = TRUE
CHECK_DEADLOCK FALSE
SPECIFICATION Spec
INVARIANTS ListTypeOK SettledIsCurrent PagesPartition LoadingBacked TotalMatchesPage SearchFindsMatches
