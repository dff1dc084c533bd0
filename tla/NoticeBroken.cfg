\* One submit whose job the worker finishes after the last poll.
CONSTANTS
  j1 = j1  j2 = j2  j3 = j3  w1 = w1  None = None
  Company = c1  Org = o1  Workers <- OneWorker
  Jobs <- OneJob
  PollAttempts = 2
  PageSize = 2
CHECK_DEADLOCK FALSE
SPECIFICATION FairSpec
PROPERTIES NoticeKept
