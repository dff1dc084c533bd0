\* Every fault at any time, no assumption about speed: what holds regardless.
CONSTANTS
  w1 = w1  w2 = w2  j1 = j1  m1 = m1  m2 = m2
  c1 = c1  o1 = o1  None = None
  Workers <- TwoWorkers
  Jobs <- OneJob
  Messages <- TwoMessages
  Companies <- OneCompany
  Orgs <- OneOrg
  CompanyOrg <- Owner
  Lease = 1
  Visibility = 1
  AttemptTimeout = 1
  MaxRetries = 1
  Prompt = FALSE
  Faults <- AllFaults
  MaxFaults = 1
  FaultsRecur = TRUE
SYMMETRY Symmetry
SPECIFICATION Spec
INVARIANTS TypeOK OneAnalysisPerJob CompletedHasAnalysis PendingKeepsMessage
PROPERTIES AnalysesPermanent LedgerSpec
