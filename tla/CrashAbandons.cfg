\* Minutes: a worker dies holding a claim.
CONSTANTS
  w1 = w1  w2 = w2  j1 = j1  m1 = m1  m2 = m2
  c1 = c1  o1 = o1  None = None
  Workers <- TwoWorkers
  Jobs <- OneJob
  Messages <- TwoMessages
  Companies <- OneCompany
  Orgs <- OneOrg
  CompanyOrg <- Owner
  Lease = 5
  Visibility = 5
  AttemptTimeout = 2
  MaxRetries = 2
  Prompt = TRUE
  Faults <- CrashFaults
  MaxFaults = 1
  FaultsRecur = TRUE
SPECIFICATION Spec
INVARIANTS AbandonedClaimRedriven
