\* Two submits, or one and somebody else's, with two polls each; the list holds
\* two of three analyses.
CONSTANTS
  j1 = j1  j2 = j2  j3 = j3  w1 = w1  None = None
  Company = c1  Org = o1  Workers <- OneWorker
  Jobs <- ThreeJobs
  PollAttempts = 2
  PageSize = 2
CHECK_DEADLOCK FALSE
SPECIFICATION FairSpec
INVARIANTS AnalysesTypeOK PendingIsSubmit
PROPERTIES OutcomeTold QuietAfterLeaving PollEnds PageMovesOn
