\* Two organizations, a user who may be in both, and a company of one of them.
CONSTANTS
  r1 = r1  r2 = r2  s1 = s1  u1 = u1  o1 = o1  o2 = o2  c1 = c1  lower = lower  upper = upper  None = None
  Keys <- AllKeys
  SessionKeys <- OneSession
  Entries <- AllEntries
  Readers <- OneRequest
  TTL = 1
  MaxLag = 0
  MaxDrops = 1
  RedisFails = FALSE
  DbFails = TRUE
  Users <- OneUser
  Orgs <- TwoOrgs
  Roles <- EditorAndPartner
  Companies <- OneCompany
  Owner <- OwnerOf
  Ids <- InLowerCase
  Named <- NamedC1
  Listed <- InLowerCase
  Asked <- AllOperations
  MaxWrites = 2
  AuditFails = TRUE
SPECIFICATION AccessSpec
INVARIANTS ChangesStayInTenant AnswersHonest AnswersDocumented
