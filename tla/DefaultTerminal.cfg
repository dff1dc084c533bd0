\* Minutes, the default AI_MAX_RETRIES = 2: a call may last 6.
CONSTANTS
  w1 = w1  w2 = w2  j1 = j1  m1 = m1  m2 = m2
  c1 = c1  o1 = o1  None = None
  Workers <- TwoWorkers
  Jobs <- OneJob
  Messages <- TwoMessages
  Companies <- OneCompany
  Orgs <- OneOrg
  CompanyOrg <- Owner
  Lease = 5
  Visibility = 5
  AttemptTimeout = 2
  MaxRetries = 2
  Prompt = TRUE
  Faults <- ProviderFaults
  MaxFaults = 1
  FaultsRecur = TRUE
SPECIFICATION Spec
PROPERTIES CompletedIsTerminal
