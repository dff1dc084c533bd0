\* No worker dies and the provider fails finitely often; two tenants, and rows that
\* name the other one's company.
CONSTANTS
  w1 = w1  w2 = w2  j1 = j1  m1 = m1  m2 = m2
  c1 = c1  c2 = c2  o1 = o1  o2 = o2  None = None
  Workers <- TwoWorkers
  Jobs <- OneJob
  Messages <- TwoMessages
  Companies <- TwoCompanies
  Orgs <- TwoOrgs
  CompanyOrg <- Owner
  Lease = 5
  Visibility = 5
  AttemptTimeout = 2
  MaxRetries = 1
  Prompt = TRUE
  Faults <- CalmFaults
  MaxFaults = 3
  FaultsRecur = FALSE
  Backends <- AllBackends
SPECIFICATION CallFairSpec
INVARIANTS TenantIsolation RetryableFailureRedriven CallKeepsMessage CallTypeOK
PROPERTIES EventuallySettled PermanentFailureNotRerun PipelineSpec
