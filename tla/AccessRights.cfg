\* Two requests on one user's session while it and the membership change.
CONSTANTS
  r1 = r1  r2 = r2  s1 = s1  u1 = u1  o1 = o1  o2 = o2  c1 = c1  lower = lower  upper = upper  None = None
  Keys <- AllKeys
  SessionKeys <- OneSession
  Entries <- AllEntries
  Readers <- TwoRequests
  TTL = 1
  MaxLag = 1
  MaxDrops = 1
  RedisFails = TRUE
  DbFails = FALSE
  Users <- OneUser
  Orgs <- OneOrg
  Roles <- EditorAndViewer
  Companies <- OneCompany
  Owner <- OwnerOf
  Ids <- InBothCases
  Named <- NamedC1
  Listed <- InLowerCase
  Asked <- DeleteOnly
  MaxWrites = 1
  AuditFails = FALSE
SYMMETRY Symmetry
SPECIFICATION AccessSpec
INVARIANTS AccessTypeOK StaleAtMostTTL ChangesAudited AnswersHonest AnswersDocumented
PROPERTIES RightsHeldLately CacheSpec
