\* Minutes, AI_MAX_RETRIES = 1: a provider call of at most 4 fits the lease of 5.
CONSTANTS
  w1 = w1  w2 = w2  j1 = j1  m1 = m1  m2 = m2
  c1 = c1  o1 = o1  None = None
  Workers <- TwoWorkers
  Jobs <- OneJob
  Messages <- TwoMessages
  Companies <- OneCompany
  Orgs <- OneOrg
  CompanyOrg <- Owner
  Lease = 5
  Visibility = 5
  AttemptTimeout = 2
  MaxRetries = 1
  Prompt = TRUE
  Faults <- DefiniteFaults
  MaxFaults = 1
  FaultsRecur = TRUE
SYMMETRY Symmetry
SPECIFICATION Spec
INVARIANTS LeaseExclusive
PROPERTIES CompletedIsTerminal
