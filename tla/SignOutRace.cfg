\* Redis never fails and nobody but Better Auth writes.
CONSTANTS
  r1 = r1  s1 = s1  v1 = v1  None = None
  Keys <- OneSession
  SessionKeys <- OneSession
  Entries <- OneEntry
  Readers <- OneReader
  TTL = 2
  MaxLag = 1
  MaxDrops = 0
  RedisFails = FALSE
  DbFails = FALSE
SPECIFICATION CacheSpec
INVARIANTS SignOutLeavesNothing
