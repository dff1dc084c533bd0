-------------------------- MODULE AccessPathProofs --------------------------
(* A request's tenant, its audit row and its status, and the age of what it *)
(* was let through by, for any requests, sessions, tenants and writers.     *)
EXTENDS AccessPath, CacheAsideProofs

-----------------------------------------------------------------------------
(* What the constants say. *)

\* Session keys and membership keys are apart, and so is what they find.
LEMMA KeysAndRows ==
  /\ SessionKeys \subseteq Keys /\ MemberKeys \subseteq Keys
  /\ \A k \in Keys : k \notin SessionKeys => k \in MemberKeys
  /\ \A k \in MemberKeys : k \notin SessionKeys
  /\ SessionRows \subseteq Entries /\ MemberRows \subseteq Entries
  /\ \A k \in Keys : Kind(k) \subseteq Value /\ None \in Kind(k)
  /\ \A k \in SessionKeys : Kind(k) = SessionRows \cup {None}
  /\ \A k \in MemberKeys : Kind(k) = MemberRows \cup {None}
  /\ None \notin SessionRows /\ None \notin MemberRows
BY AccessAssumption, CacheAssumption DEF Kind, Value

\* A session row with an organization names a membership key.
LEMMA ActiveSession ==
  ASSUME NEW e \in SessionRows \cup {None}, Active(e)
  PROVE  /\ e \in {SessionRow(u, o) : u \in Users, o \in Orgs}
         /\ e # None
         /\ e.org \in Orgs
         /\ MemberKey(e.user, e.org) \in MemberKeys
<1>1. PICK u \in Users, o \in Orgs \cup {None} : e = SessionRow(u, o)
  BY DEF Active, SessionRows
<1>2. e.user = u /\ e.org = o /\ o \in Orgs
  BY <1>1 DEF Active, SessionRow
<1>3. MemberKey(e.user, e.org) \in MemberKeys
  BY <1>2 DEF MemberKeys
<1> QED
  BY <1>1, <1>2, <1>3, KeysAndRows DEF SessionRows

-----------------------------------------------------------------------------
(* Every step is a step of the cache, or none that it can see. *)

\* What a request and its surroundings do to the cache, the cache's own module has.
LEMMA StepsOfCache ==
  ASSUME AccessTypeOK, KindsKept, RequestsInOrder, AccessNext
  PROVE  [CacheNext]_cacheVars
<1> USE DEF cacheVars
<1>1. ASSUME NEW r \in Readers, NEW s \in SessionKeys, NEW o, NEW id, Arrive(r, s, o, id)
      PROVE  CacheNext
  <2>1. Ask(r, s)
    BY <1>1 DEF Arrive, Ask, RequestsInOrder
  <2> QED
    BY <2>1, KeysAndRows DEF CacheNext
<1>2. ASSUME NEW r \in Readers, LookupStep(r)
      PROVE  CacheNext
  BY <1>2 DEF LookupStep, CacheNext
<1>3. ASSUME NEW r \in Readers, ResolveSession(r)
      PROVE  [CacheNext]_cacheVars
  <2>1. CASE Active(found[r])
    <3>1. found[r] \in SessionRows \cup {None}
      BY <1>3, KeysAndRows DEF ResolveSession, KindsKept, RequestsInOrder
    <3>2. MemberKey(found[r].user, found[r].org) \in Keys
      BY <2>1, <3>1, ActiveSession, KeysAndRows
    <3>3. Ask(r, MemberKey(found[r].user, found[r].org))
      BY <1>3, <2>1 DEF ResolveSession, Ask
    <3> QED
      BY <3>2, <3>3 DEF CacheNext
  <2>2. CASE ~Active(found[r])
    BY <1>3, <2>2 DEF ResolveSession, Answer
  <2> QED
    BY <2>1, <2>2
<1>4. ASSUME NEW r \in Readers,
             Refuse(r) \/ Authorize(r) \/ HandlerFails(r) \/ HandlerWorks(r) \/ After(r)
      PROVE  UNCHANGED cacheVars
  BY <1>4 DEF Refuse, Authorize, HandlerFails, HandlerWorks, After
<1>5. ASSUME NEW s \in SessionKeys, SignIn(s)
      PROVE  CacheNext
  <2>1. stamp[s] \in Value /\ Write(s, stamp[s])
    BY <1>5, KeysAndRows DEF SignIn, AccessTypeOK, Value
  <2> QED
    BY <2>1, KeysAndRows DEF CacheNext, Writer
<1>6. ASSUME NEW s \in SessionKeys, NEW o \in Orgs, SwitchOrganization(s, o)
      PROVE  CacheNext
  <2>1. PICK u \in Users, p \in Orgs \cup {None} : row[s] = SessionRow(u, p)
    BY <1>6, KeysAndRows DEF SwitchOrganization, KindsKept, SessionRows
  <2>2. SessionRow(row[s].user, o) \in Value
    BY <2>1, KeysAndRows DEF SessionRow, SessionRows, Value
  <2> QED
    BY <1>6, <2>2, KeysAndRows DEF SwitchOrganization, CacheNext, Writer
<1>7. ASSUME NEW k \in MemberKeys, NEW m \in MemberRows \cup {None}, WriteMember(k, m)
      PROVE  CacheNext
  BY <1>7, KeysAndRows DEF WriteMember, CacheNext, Writer, Value
<1>8. ASSUME NEW s \in SessionKeys, EndSession(s)
      PROVE  CacheNext
  <2>1. CASE DeleteExpired({s})
    BY <2>1 DEF CacheNext, Writer
  <2>2. CASE SignOutHook(s)
    BY <2>2, KeysAndRows DEF CacheNext, Writer
  <2> QED
    BY <1>8, <2>1, <2>2 DEF EndSession
<1>9. ASSUME NEW s \in SessionKeys, NEW u \in Users, SignInHook(s, u)
      PROVE  UNCHANGED cacheVars
  BY <1>9 DEF SignInHook
<1>10. CASE Housekeeping
  BY <1>10, KeysAndRows DEF Housekeeping, CacheNext, Writer
<1>11. CASE Time
  BY <1>11 DEF Time, CacheNext
<1> QED
  BY <1>1, <1>2, <1>3, <1>4, <1>5, <1>6, <1>7, <1>8, <1>9, <1>10, <1>11
  DEF AccessNext, RequestStep

-----------------------------------------------------------------------------
(* Rows, entries and what was found are of their key's kind. *)

\* A statement that writes rows of the right kind keeps them so.
LEMMA StoreKeepsKinds ==
  ASSUME AccessTypeOK, KindsKept, UNCHANGED <<redisVars, readerVars>>,
         NEW ks \in SUBSET Keys, NEW v, \A k \in ks : v \in Kind(k), Store(ks, v)
  PROVE  KindsKept'
<1>1. \A k \in Keys : row'[k] \in Kind(k)
  BY DEF Store, KindsKept
<1> QED
  BY <1>1 DEF KindsKept, redisVars, readerVars, Kind

\* So does a DEL.
LEMMA DelKeepsKinds ==
  ASSUME AccessTypeOK, KindsKept, UNCHANGED <<dbVars, readerVars>>, NEW k \in Keys, Del(k)
  PROVE  KindsKept'
<1>1. \A j \in Keys : None \in Kind(j) /\ cached[j] \in Kind(j)
  BY KeysAndRows DEF KindsKept
<1>2. cached \in [Keys -> Value]
  BY DEF AccessTypeOK, CacheTypeOK
<1>3. \A j \in Keys : cached'[j] \in Kind(j)
  BY <1>1, <1>2 DEF Del, redisVars
<1> QED
  BY <1>3 DEF KindsKept, dbVars, readerVars, Kind

\* So does a lookup, which hands on what its key has.
LEMMA LookupKeepsKinds ==
  ASSUME AccessTypeOK, KindsKept, NEW r \in Readers, Lookup(r)
  PROVE  KindsKept'
<1> USE DEF AccessTypeOK, CacheTypeOK, KindsKept, dbVars, redisVars
<1>1. CASE GetHit(r)
  BY <1>1 DEF GetHit, Touch, Kind
<1>2. CASE GetMiss(r) \/ GetError(r) \/ FetchError(r)
  BY <1>2 DEF GetMiss, GetError, FetchError, Goes, AfterRedisError, Kind
<1>3. CASE Fetch(r)
  BY <1>3 DEF Fetch, Kind
<1>4. CASE Set(r)
  <2>1. /\ found[r] \in Kind(key[r]) /\ cached \in [Keys -> Value]
        /\ \A j \in Keys : cached[j] \in Kind(j)
    BY <1>4 DEF Set
  <2>2. \A j \in Keys : cached'[j] \in Kind(j)
    BY <1>4, <2>1 DEF Set, Stored
  <2> QED
    BY <1>4, <2>2 DEF Set, Goes, Kind
<1> QED
  BY <1>1, <1>2, <1>3, <1>4 DEF Lookup

\* Every step keeps the kinds.
LEMMA KindsStep ==
  ASSUME AccessTypeOK, KindsKept, RequestsInOrder, AccessNext
  PROVE  KindsKept'
<1>1. ASSUME NEW r \in Readers, NEW k, LookUp(r, k), UNCHANGED <<dbVars, redisVars, writerVars>>
      PROVE  KindsKept'
  BY <1>1 DEF LookUp, AccessTypeOK, CacheTypeOK, KindsKept, dbVars, redisVars, Kind
<1>2. ASSUME UNCHANGED cacheVars
      PROVE  KindsKept'
  BY <1>2 DEF KindsKept, cacheVars, dbVars, redisVars, readerVars, Kind
<1>3. ASSUME NEW r \in Readers, NEW s \in SessionKeys, NEW o, NEW id, Arrive(r, s, o, id)
      PROVE  KindsKept'
  BY <1>1, <1>3 DEF Arrive
<1>4. ASSUME NEW r \in Readers, LookupStep(r)
      PROVE  KindsKept'
  BY <1>4, LookupKeepsKinds DEF LookupStep
<1>5. ASSUME NEW r \in Readers, ResolveSession(r)
      PROVE  KindsKept'
  <2>1. CASE Active(found[r])
    BY <1>1, <1>5, <2>1 DEF ResolveSession
  <2>2. CASE ~Active(found[r])
    BY <1>2, <1>5, <2>2 DEF ResolveSession, cacheVars
  <2> QED
    BY <2>1, <2>2
<1>6. ASSUME NEW r \in Readers,
             Refuse(r) \/ Authorize(r) \/ HandlerFails(r) \/ HandlerWorks(r) \/ After(r)
      PROVE  KindsKept'
  BY <1>2, <1>6 DEF Refuse, Authorize, HandlerFails, HandlerWorks, After
<1>7. ASSUME NEW s \in SessionKeys, SignIn(s)
      PROVE  KindsKept'
  <2>1. stamp[s] \in Kind(s) /\ Store({s}, stamp[s]) /\ UNCHANGED <<redisVars, readerVars>>
    BY <1>7, KeysAndRows DEF SignIn, Write, AccessTypeOK
  <2> QED
    BY <2>1, StoreKeepsKinds, KeysAndRows
<1>8. ASSUME NEW s \in SessionKeys, NEW o \in Orgs, SwitchOrganization(s, o)
      PROVE  KindsKept'
  <2>1. PICK u \in Users, p \in Orgs \cup {None} : row[s] = SessionRow(u, p)
    BY <1>8, KeysAndRows DEF SwitchOrganization, KindsKept, SessionRows
  <2>2. SessionRow(row[s].user, o) \in Kind(s)
    BY <2>1, KeysAndRows DEF SessionRow, SessionRows
  <2>3. Store({s}, SessionRow(row[s].user, o)) /\ UNCHANGED <<redisVars, readerVars>>
    BY <1>8 DEF SwitchOrganization, Write
  <2> QED
    BY <2>2, <2>3, StoreKeepsKinds, KeysAndRows
<1>9. ASSUME NEW k \in MemberKeys, NEW m \in MemberRows \cup {None}, WriteMember(k, m)
      PROVE  KindsKept'
  <2>1. m \in Kind(k) /\ Store({k}, m) /\ UNCHANGED <<redisVars, readerVars>>
    BY <1>9, KeysAndRows DEF WriteMember, Write
  <2> QED
    BY <2>1, StoreKeepsKinds, KeysAndRows
<1>10. ASSUME NEW s \in SessionKeys, EndSession(s)
       PROVE  KindsKept'
  <2>1. CASE DeleteExpired({s})
    BY <2>1, StoreKeepsKinds, KeysAndRows DEF DeleteExpired
  <2>2. CASE SignOutHook(s)
    BY <2>2, DelKeepsKinds, KeysAndRows DEF SignOutHook
  <2> QED
    BY <1>10, <2>1, <2>2 DEF EndSession
<1>11. ASSUME NEW s \in SessionKeys, NEW u \in Users, SignInHook(s, u)
       PROVE  KindsKept'
  BY <1>2, <1>11 DEF SignInHook
<1>12. CASE Housekeeping
  <2>1. ASSUME NEW k \in Keys, Drop(k)
        PROVE  KindsKept'
    BY <2>1, DelKeepsKinds DEF Drop
  <2>2. ASSUME NEW s \in SessionKeys, SignOut(s)
        PROVE  KindsKept'
    BY <2>2, StoreKeepsKinds, KeysAndRows DEF SignOut
  <2> QED
    BY <1>12, <2>1, <2>2 DEF Housekeeping
<1>13. CASE Time
  BY <1>13, KeysAndRows
  DEF Time, Tick, AccessTypeOK, CacheTypeOK, KindsKept, Kind
<1> QED
  BY <1>3, <1>4, <1>5, <1>6, <1>7, <1>8, <1>9, <1>10, <1>11, <1>12, <1>13
  DEF AccessNext, RequestStep

-----------------------------------------------------------------------------
(* Types. *)

\* A rejection is a status, and a 500 only where statements may fail.
LEMMA RejectsTyped ==
  ASSUME NEW r \in Readers, NEW c \in Rejects(r)
  PROVE  /\ c \in {400, 403, 404, 409, 500}
         /\ c = 500 => DbFails
<1>1. CASE ~Permitted(r)
  BY <1>1 DEF Rejects
<1>2. ASSUME Permitted(r),
             NEW e \in BadRequests \cup {"DuplicateEntry"} \cup {"NotFoundError"}
      PROVE  StatusOf(e) \in {400, 404, 409}
  BY <1>2 DEF StatusOf, BadRequests
<1>3. StatusOf("Error") = 500
  BY DEF StatusOf, BadRequests
<1> QED
  BY <1>1, <1>2, <1>3 DEF Rejects

\* A success is a 2xx.
LEMMA SuccessTyped ==
  ASSUME NEW o \in Ops
  PROVE  Success(o) \in {200, 201, 202, 204}
BY DEF Success

\* Every step keeps the types of a request and its surroundings.
LEMMA AccessTypeStep ==
  ASSUME AccessTypeOK, KindsKept, RequestsInOrder, CacheTypeOK', AccessNext
  PROVE  AccessTypeOK'
<1> USE DEF AccessTypeOK, cacheVars, dbVars, redisVars, writerVars, readerVars, requestVars
<1>0. CountWrite => writes' \in 0..MaxWrites
  BY AccessAssumption DEF CountWrite
<1>1. ASSUME NEW r \in Readers, NEW s \in SessionKeys, NEW o \in Asked, NEW id \in Ids,
             Arrive(r, s, o, id)
      PROVE  AccessTypeOK'
  BY <1>1, AccessAssumption DEF Arrive
<1>2. ASSUME NEW r \in Readers, Refuse(r) \/ LookupStep(r)
      PROVE  AccessTypeOK'
  BY <1>2 DEF Refuse, LookupStep, Answer
<1>3. ASSUME NEW r \in Readers, ResolveSession(r)
      PROVE  AccessTypeOK'
  <2>1. found[r] \in SessionRows \cup {None}
    BY <1>3, KeysAndRows DEF ResolveSession, KindsKept, RequestsInOrder
  <2>2. CASE Active(found[r])
    BY <1>3, <2>1, <2>2, ActiveSession DEF ResolveSession
  <2>3. CASE ~Active(found[r])
    BY <1>3, <2>3 DEF ResolveSession, Answer
  <2> QED
    BY <2>2, <2>3
<1>4. ASSUME NEW r \in Readers, Authorize(r)
      PROVE  AccessTypeOK'
  <2>0. key[r] \in MemberKeys
    BY <1>4 DEF Authorize, RequestsInOrder, SessionRow, MemberKeys
  <2>1. found[r] \in MemberRows \cup {None}
    BY <1>4, <2>0, KeysAndRows DEF Authorize, KindsKept
  <2>2. CASE ~Denied(found[r])
    <3>1. found[r].role \in Roles
      BY <2>1, <2>2 DEF Denied, MemberRows, MemberRow
    <3>2. Audited(op[r], target[r]) \in BOOLEAN
      BY DEF Audited
    <3> QED
      BY <1>4, <2>2, <3>1, <3>2 DEF Authorize
  <2>3. CASE Denied(found[r])
    BY <1>4, <2>3 DEF Authorize, Answer
  <2> QED
    BY <2>2, <2>3
<1>5. ASSUME NEW r \in Readers, HandlerFails(r)
      PROVE  AccessTypeOK'
  BY <1>5, RejectsTyped DEF HandlerFails, Responds
<1>6. ASSUME NEW r \in Readers, HandlerWorks(r)
      PROVE  AccessTypeOK'
  <2>1. Success(op[r]) \in {200, 201, 202, 204} /\ StatusOf("Error") = 500
    BY SuccessTyped DEF StatusOf, BadRequests
  <2>2. who[r].org \in Orgs
    BY <1>6 DEF HandlerWorks, RequestsInOrder, SessionRow
  <2>3. CASE op[r] = "create"
    BY <1>6, <2>1, <2>2, <2>3 DEF HandlerWorks, Responds, Affected
  <2>4. CASE op[r] # "create" /\ op[r] \in Writes /\ Scoped(target[r], who[r].org)
    <3>1. Owner[Named[target[r]]] \in Orgs
      BY <2>2, <2>4 DEF Scoped
    <3> QED
      BY <1>6, <2>1, <2>4, <3>1 DEF HandlerWorks, Responds, Affected
  <2>5. CASE op[r] # "create" /\ ~(op[r] \in Writes /\ Scoped(target[r], who[r].org))
    BY <1>6, <2>1, <2>5 DEF HandlerWorks, Responds
  <2> QED
    BY <2>3, <2>4, <2>5
<1>7. ASSUME NEW r \in Readers, After(r)
      PROVE  AccessTypeOK'
  <2>1. who[r].org \in Orgs
    BY <1>7 DEF After, RequestsInOrder, SessionRow
  <2>2. audit' = audit \/ audit' = [audit EXCEPT ![r] = who[r].org]
    BY <1>7 DEF After
  <2>3. audit' \in [Readers -> Orgs \cup {None}]
    BY <2>1, <2>2
  <2>4. stage' = [stage EXCEPT ![r] = "done"]
        /\ UNCHANGED <<cacheVars, op, target, who, role, effect, scheduled, code,
                       live, stamp, writes>>
    BY <1>7 DEF After
  <2> QED
    BY <2>3, <2>4
<1>8. ASSUME NEW s \in SessionKeys, NEW u \in Users, SignInHook(s, u)
      PROVE  AccessTypeOK'
  BY <1>0, <1>8 DEF SignInHook, SessionRows
<1>9. ASSUME NEW s \in SessionKeys, SignIn(s) \/ EndSession(s)
      PROVE  AccessTypeOK'
  BY <1>0, <1>9 DEF SignIn, EndSession
<1>10. ASSUME NEW s \in SessionKeys, NEW o \in Orgs, SwitchOrganization(s, o)
       PROVE  AccessTypeOK'
  BY <1>0, <1>10 DEF SwitchOrganization
<1>11. ASSUME NEW k \in MemberKeys, NEW m \in MemberRows \cup {None}, WriteMember(k, m)
       PROVE  AccessTypeOK'
  BY <1>0, <1>11 DEF WriteMember
<1>12. CASE Housekeeping \/ Time
  BY <1>12 DEF Housekeeping, Time
<1> QED
  BY <1>1, <1>2, <1>3, <1>4, <1>5, <1>6, <1>7, <1>8, <1>9, <1>10, <1>11, <1>12
  DEF AccessNext, RequestStep

-----------------------------------------------------------------------------
(* The order of a request's steps. *)

\* What everybody else does leaves requests and lookups where they are.
LEMMA OthersApart ==
  ASSUME AccessNext,
         ~ \E r \in Readers :
             \/ \E s \in SessionKeys, o \in Asked, id \in Ids : Arrive(r, s, o, id)
             \/ Refuse(r)
             \/ RequestStep(r)
  PROVE  UNCHANGED <<requestVars, at, key>>
<1> USE DEF readerVars
<1>1. ASSUME NEW s \in SessionKeys, NEW u \in Users, SignInHook(s, u)
      PROVE  UNCHANGED <<requestVars, at, key>>
  BY <1>1 DEF SignInHook, cacheVars
<1>2. ASSUME NEW s \in SessionKeys, SignIn(s) \/ EndSession(s)
      PROVE  UNCHANGED <<requestVars, at, key>>
  BY <1>2 DEF SignIn, EndSession, Write, DeleteExpired, SignOutHook
<1>3. ASSUME NEW s \in SessionKeys, NEW o \in Orgs, SwitchOrganization(s, o)
      PROVE  UNCHANGED <<requestVars, at, key>>
  BY <1>3 DEF SwitchOrganization, Write
<1>4. ASSUME NEW k \in MemberKeys, NEW m \in MemberRows \cup {None}, WriteMember(k, m)
      PROVE  UNCHANGED <<requestVars, at, key>>
  BY <1>4 DEF WriteMember, Write
<1>5. CASE Housekeeping \/ Time
  BY <1>5 DEF Housekeeping, Time, Drop, SignOut, Tick
<1> QED
  BY <1>1, <1>2, <1>3, <1>4, <1>5 DEF AccessNext

\* A request knows who asks, and as what, before it acts.
LEMMA RequestsStep ==
  ASSUME AccessTypeOK, KindsKept, RequestsInOrder, AccessNext
  PROVE  RequestsInOrder'
<1> USE DEF RequestsInOrder
<1>0. /\ at \in [Readers -> {"idle", "get", "fetch", "set", "done"}]
      /\ key \in [Readers -> Keys]
      /\ stage \in [Readers -> {"idle", "session", "member", "handler", "respond", "done"}]
      /\ who \in [Readers -> {SessionRow(u, o) : u \in Users, o \in Orgs} \cup {None}]
      /\ role \in [Readers -> Roles \cup {None}]
  BY DEF AccessTypeOK, CacheTypeOK
<1>1. ASSUME NEW r \in Readers, NEW s \in SessionKeys, NEW o \in Asked, NEW id \in Ids,
             Arrive(r, s, o, id)
      PROVE  RequestsInOrder'
  BY <1>0, <1>1 DEF Arrive, LookUp
<1>2. ASSUME NEW r \in Readers, Refuse(r)
      PROVE  RequestsInOrder'
  BY <1>0, <1>2 DEF Refuse, Answer, cacheVars, readerVars
<1>3. ASSUME NEW r \in Readers, LookupStep(r)
      PROVE  RequestsInOrder'
  <2>1. key' = key /\ at' = [at EXCEPT ![r] = at'[r]]
    BY <1>0, <1>3
    DEF LookupStep, Lookup, GetHit, GetMiss, GetError, Fetch, FetchError, Set, Goes
  <2>2. UNCHANGED <<who, role>>
        /\ stage' = [stage EXCEPT ![r] = IF at'[r] = "idle" THEN "done" ELSE stage[r]]
    BY <1>0, <1>3 DEF LookupStep, Answer
  <2>3. stage[r] \in {"session", "member"}
    BY <1>3 DEF LookupStep
  <2> QED
    BY <1>0, <2>1, <2>2, <2>3
<1>4. ASSUME NEW r \in Readers, ResolveSession(r)
      PROVE  RequestsInOrder'
  <2>1. CASE Active(found[r])
    <3>1. found[r] # None
      BY <2>1 DEF Active
    <3> QED
      BY <1>0, <1>4, <2>1, <3>1 DEF ResolveSession, LookUp
  <2>2. CASE ~Active(found[r])
    BY <1>0, <1>4, <2>2 DEF ResolveSession, Answer, readerVars
  <2> QED
    BY <2>1, <2>2
<1>5. ASSUME NEW r \in Readers, Authorize(r)
      PROVE  RequestsInOrder'
  <2>1. CASE ~Denied(found[r])
    <3>1. key[r] \in MemberKeys
      BY <1>0, <1>5 DEF Authorize, SessionRow, MemberKeys
    <3>2. found[r] \in MemberRows
      BY <1>5, <2>1, <3>1, KeysAndRows DEF Authorize, KindsKept, Denied
    <3>3. found[r].role # None
      BY <3>2, AccessAssumption DEF MemberRows, MemberRow
    <3> QED
      BY <1>0, <1>5, <2>1, <3>3 DEF Authorize, cacheVars, readerVars
  <2>2. CASE Denied(found[r])
    BY <1>0, <1>5, <2>2 DEF Authorize, Answer, cacheVars, readerVars
  <2> QED
    BY <2>1, <2>2
<1>6. ASSUME NEW r \in Readers, HandlerFails(r) \/ HandlerWorks(r) \/ After(r)
      PROVE  RequestsInOrder'
  <2>1. /\ UNCHANGED <<at, key, who, role>>
        /\ \/ stage[r] = "handler" /\ stage' = [stage EXCEPT ![r] = "respond"]
           \/ stage' = [stage EXCEPT ![r] = "done"]
    BY <1>6 DEF HandlerFails, HandlerWorks, After, Responds, cacheVars, readerVars
  <2> QED
    BY <1>0, <2>1
<1>7. CASE UNCHANGED <<requestVars, at, key>>
  BY <1>7 DEF requestVars
<1> QED
  BY <1>1, <1>2, <1>3, <1>4, <1>5, <1>6, <1>7, OthersApart DEF RequestStep

-----------------------------------------------------------------------------
(* What a request leaves behind. *)

\* What is said of effects, audit rows and answers.
Aftermath == EffectsInOrder /\ ChangesStayInTenant /\ ChangesAudited /\ AnswersHonest

\* A handler's write lands in the organization of the request's session.
LEMMA WorkStaysInTenant ==
  ASSUME AccessTypeOK, RequestsInOrder, EffectsInOrder, NEW r \in Readers, HandlerWorks(r)
  PROVE  /\ effect'[r] # None => effect'[r] = who[r].org /\ op[r] \in Writes
         /\ op[r] \in Writes => effect'[r] # None
         /\ \A q \in Readers : q # r => effect'[q] = effect[q]
<1>1. /\ effect \in [Readers -> Orgs \cup {None}]
      /\ effect[r] = None
      /\ who[r].org \in Orgs /\ None \notin Orgs
  BY AccessAssumption
     DEF HandlerWorks, AccessTypeOK, RequestsInOrder, EffectsInOrder, SessionRow
<1>2. CASE op[r] = "create"
  BY <1>1, <1>2 DEF HandlerWorks, Affected, Writes
<1>3. CASE op[r] # "create" /\ op[r] \in Writes /\ Scoped(target[r], who[r].org)
  BY <1>1, <1>3 DEF HandlerWorks, Affected, Scoped
<1>4. CASE op[r] # "create" /\ ~(op[r] \in Writes /\ Scoped(target[r], who[r].org))
  <2>1. op[r] \notin Writes
    BY <1>4 DEF HandlerWorks, Throws, Writes
  <2> QED
    BY <1>1, <1>4, <2>1 DEF HandlerWorks
<1> QED
  BY <1>2, <1>3, <1>4

\* Every step keeps effects, audit rows and answers in order.
LEMMA AftermathStep ==
  ASSUME AccessTypeOK, RequestsInOrder, Aftermath, AccessNext
  PROVE  Aftermath'
<1> USE DEF Aftermath, EffectsInOrder, ChangesStayInTenant, ChangesAudited, AnswersHonest
<1>0. /\ at \in [Readers -> {"idle", "get", "fetch", "set", "done"}]
      /\ stage \in [Readers -> {"idle", "session", "member", "handler", "respond", "done"}]
      /\ op \in [Readers -> Ops]
      /\ who \in [Readers -> {SessionRow(u, o) : u \in Users, o \in Orgs} \cup {None}]
      /\ effect \in [Readers -> Orgs \cup {None}]
      /\ scheduled \in [Readers -> BOOLEAN]
      /\ code \in [Readers -> {200, 201, 202, 204, 400, 401, 403, 404, 409, 500, None}]
      /\ audit \in [Readers -> Orgs \cup {None}]
      /\ None \notin Nat
  BY AccessAssumption DEF AccessTypeOK, CacheTypeOK
<1>1. ASSUME NEW r \in Readers, NEW s \in SessionKeys, NEW o \in Asked, NEW id \in Ids,
             Arrive(r, s, o, id)
      PROVE  Aftermath'
  BY <1>0, <1>1 DEF Arrive
<1>2. ASSUME NEW r \in Readers, NEW c \in {400, 401, 403, 500}, c = 500 => DbFails,
             stage[r] \in {"idle", "session", "member"}, Answer(r, c),
             UNCHANGED <<op, target, effect, audit>>,
             \A q \in Readers : who'[q] = who[q] /\ scheduled'[q] = scheduled[q]
      PROVE  Aftermath'
  BY <1>0, <1>2 DEF Answer
<1>3. ASSUME NEW r \in Readers, Refuse(r)
      PROVE  Aftermath'
  BY <1>2, <1>3 DEF Refuse
<1>4. ASSUME NEW r \in Readers, LookupStep(r)
      PROVE  Aftermath'
  <2>1. CASE at'[r] = "idle"
    <3>1. DbFails
      BY <1>0, <1>4, <2>1
      DEF LookupStep, Lookup, GetHit, GetMiss, GetError, AfterRedisError, Fetch, FetchError, Set, Goes
    <3> QED
      BY <1>2, <1>4, <2>1, <3>1 DEF LookupStep
  <2>2. CASE at'[r] # "idle"
    BY <1>4, <2>2 DEF LookupStep
  <2> QED
    BY <2>1, <2>2
<1>5. ASSUME NEW r \in Readers, ResolveSession(r)
      PROVE  Aftermath'
  <2>1. CASE Active(found[r])
    BY <1>0, <1>5, <2>1 DEF ResolveSession
  <2>2. CASE ~Active(found[r])
    BY <1>2, <1>5, <2>2 DEF ResolveSession
  <2> QED
    BY <2>1, <2>2
<1>6. ASSUME NEW r \in Readers, Authorize(r)
      PROVE  Aftermath'
  <2>1. CASE ~Denied(found[r])
    BY <1>0, <1>6, <2>1 DEF Authorize
  <2>2. CASE Denied(found[r])
    BY <1>2, <1>6, <2>2 DEF Authorize
  <2> QED
    BY <2>1, <2>2
<1>7. ASSUME NEW r \in Readers, HandlerFails(r)
      PROVE  Aftermath'
  <2>1. PICK c \in Rejects(r) : Responds(r, c)
    BY <1>7 DEF HandlerFails
  <2>2. c \in {400, 403, 404, 409, 500} /\ (c = 500 => DbFails)
    BY RejectsTyped
  <2> QED
    BY <1>0, <1>7, <2>1, <2>2 DEF HandlerFails, Responds
<1>8. ASSUME NEW r \in Readers, HandlerWorks(r)
      PROVE  Aftermath'
  <2>1. PICK c \in {200, 201, 202, 204, 500} : Responds(r, c) /\ (c = 500 => DbFails)
    <3>1. StatusOf("Error") = 500 /\ Success(op[r]) \in {200, 201, 202, 204}
      BY <1>0, SuccessTyped DEF StatusOf, BadRequests
    <3> QED
      BY <1>8, <3>1 DEF HandlerWorks
  <2>2. UNCHANGED <<op, target, who, scheduled, audit>> /\ stage[r] = "handler"
    BY <1>8 DEF HandlerWorks
  <2> QED
    BY <1>0, <1>8, <2>1, <2>2, WorkStaysInTenant DEF Responds
<1>9. ASSUME NEW r \in Readers, After(r)
      PROVE  Aftermath'
  <2>1. /\ stage[r] = "respond" /\ stage' = [stage EXCEPT ![r] = "done"]
        /\ UNCHANGED <<op, target, who, effect, code>> /\ scheduled' = scheduled
        /\ \/ scheduled[r] /\ audit' = [audit EXCEPT ![r] = who[r].org]
           \/ (scheduled[r] => AuditFails) /\ audit' = audit
    BY <1>9 DEF After
  <2>2. effect[r] # None => scheduled[r] \/ (op[r] # "create" /\ target[r] \notin Listed)
    BY <1>0, <2>1 DEF Audited
  <2>3. audit[r] = None /\ (effect[r] # None => effect[r] = who[r].org)
    BY <2>1
  <2>4. effect[r] # None =>
          \/ audit'[r] = effect[r]
          \/ audit'[r] = None /\ (AuditFails \/ (op[r] # "create" /\ target[r] \notin Listed))
    BY <1>0, <2>1, <2>2, <2>3
  <2>5. audit'[r] # None => audit'[r] = who[r].org
    BY <1>0, <2>1
  <2>6. \A q \in Readers : q # r => audit'[q] = audit[q] /\ stage'[q] = stage[q]
    BY <1>0, <2>1
  <2>7. ChangesAudited' /\ ChangesStayInTenant'
    BY <2>1, <2>4, <2>5, <2>6
  <2>8. EffectsInOrder' /\ AnswersHonest'
    BY <1>0, <2>1, <2>6
  <2> QED
    BY <2>7, <2>8
<1>10. CASE UNCHANGED <<requestVars, at, key>>
  BY <1>10 DEF requestVars
<1> QED
  BY <1>1, <1>3, <1>4, <1>5, <1>6, <1>7, <1>8, <1>9, <1>10, OthersApart DEF RequestStep

-----------------------------------------------------------------------------
(* The age of what a request was let through by. *)

\* Nobody but time makes a value older, and the others leave requests alone.
LEMMA OthersAgeNothing ==
  ASSUME CacheInductive, AccessTypeOK, KindsKept, AccessNext, ~Time,
         ~ \E r \in Readers :
             \/ \E s \in SessionKeys, o \in Asked, id \in Ids : Arrive(r, s, o, id)
             \/ Refuse(r)
             \/ RequestStep(r)
  PROVE  /\ UNCHANGED <<requestVars, readerVars>>
         /\ \A k \in Keys, u \in Value : gone'[k][u] <= gone[k][u]
<1>0. \A k \in Keys, u \in Value : gone[k][u] \in Nat
  BY CapNat DEF CacheInductive, CacheTypeOK
<1>1. ASSUME NEW ks \in SUBSET Keys, NEW v \in Value, Store(ks, v)
      PROVE  \A k \in Keys, u \in Value : gone'[k][u] <= gone[k][u]
  BY <1>1, StoreKeeps
<1>2. ASSUME UNCHANGED gone
      PROVE  \A k \in Keys, u \in Value : gone'[k][u] <= gone[k][u]
  BY <1>0, <1>2
<1>3. ASSUME NEW s \in SessionKeys, NEW u \in Users, SignInHook(s, u)
      PROVE  UNCHANGED <<requestVars, readerVars, gone>>
  BY <1>3 DEF SignInHook, cacheVars, dbVars
<1>4. ASSUME NEW s \in SessionKeys, SignIn(s)
      PROVE  UNCHANGED <<requestVars, readerVars>> /\ \E v \in Value : Store({s}, v)
  <2>1. stamp[s] \in Value
    BY <1>4, KeysAndRows DEF SignIn, AccessTypeOK, Value
  <2> QED
    BY <1>4, <2>1 DEF SignIn, Write
<1>5. ASSUME NEW s \in SessionKeys, NEW o \in Orgs, SwitchOrganization(s, o)
      PROVE  UNCHANGED <<requestVars, readerVars>> /\ \E v \in Value : Store({s}, v)
  <2>1. PICK u \in Users, p \in Orgs \cup {None} : row[s] = SessionRow(u, p)
    BY <1>5, KeysAndRows DEF SwitchOrganization, KindsKept, SessionRows
  <2>2. SessionRow(row[s].user, o) \in Value
    BY <2>1, KeysAndRows DEF SessionRow, SessionRows, Value
  <2> QED
    BY <1>5, <2>2 DEF SwitchOrganization, Write
<1>6. ASSUME NEW k \in MemberKeys, NEW m \in MemberRows \cup {None}, WriteMember(k, m)
      PROVE  UNCHANGED <<requestVars, readerVars>> /\ \E v \in Value : Store({k}, v)
  BY <1>6, KeysAndRows DEF WriteMember, Write, Value
<1>7. ASSUME NEW s \in SessionKeys, EndSession(s)
      PROVE  /\ UNCHANGED <<requestVars, readerVars>>
             /\ UNCHANGED gone \/ \E v \in Value : Store({s}, v)
  BY <1>7 DEF EndSession, DeleteExpired, SignOutHook, dbVars, Value
<1>8. CASE Housekeeping
  <2>1. ASSUME NEW k \in Keys, Drop(k)
        PROVE  UNCHANGED <<readerVars, gone>>
    BY <2>1 DEF Drop, dbVars
  <2>2. ASSUME NEW s \in SessionKeys, SignOut(s)
        PROVE  UNCHANGED readerVars /\ Store({s}, None) /\ None \in Value
    BY <2>2 DEF SignOut, Value
  <2> QED
    BY <1>1, <1>2, <1>8, <2>1, <2>2, KeysAndRows DEF Housekeeping
<1> QED
  BY <1>1, <1>2, <1>3, <1>4, <1>5, <1>6, <1>7, <1>8, KeysAndRows DEF AccessNext

\* What is cached was there lately.
LEMMA CachedLately ==
  ASSUME CacheInductive, NEW k \in Keys, cached[k] # None
  PROVE  gone[k][cached[k]] <= TTL + MaxLag
<1>1. /\ left[k] \in 0..TTL /\ left[k] > 0 /\ gone[k][cached[k]] \in 0..Cap
      /\ gone[k][cached[k]] <= (TTL - left[k]) + MaxLag
  BY DEF CacheInductive, CacheTypeOK, AgeAccountsForStaleness
<1> QED
  BY <1>1, CapNat

\* A lookup finds what was there lately, and takes no time but a SET's.
LEMMA LookupFresh ==
  ASSUME AccessInductive, NEW r \in Readers, LookupStep(r), at'[r] # "idle"
  PROVE  /\ at'[r] = "done" /\ found'[r] # None =>
              gone[key[r]][found'[r]] <= TTL + MaxLag
         /\ stage[r] = "member" => Waited(r) <= Waited(r)' /\ Waited(r)' \in Nat
         /\ UNCHANGED gone
<1>0. CacheTypeOK /\ key[r] \in Keys /\ lag[r] \in 0..MaxLag /\ found[r] \in Value
  BY DEF AccessInductive, CacheInductive, CacheTypeOK
<1>1. CASE GetHit(r)
  BY <1>0, <1>1, CachedLately, CapNat
  DEF GetHit, Waited, AccessInductive, CacheTypeOK, dbVars
<1>2. CASE GetMiss(r) \/ GetError(r)
  BY <1>0, <1>2, CapNat
  DEF GetMiss, GetError, Goes, AfterRedisError, Waited, CacheTypeOK, dbVars
<1>3. CASE Fetch(r)
  BY <1>0, <1>3, CapNat DEF Fetch, Waited, CacheTypeOK, dbVars
<1>4. CASE FetchError(r)
  BY <1>0, <1>4 DEF FetchError, Goes, CacheTypeOK
<1>5. CASE Set(r)
  <2>1. /\ gone[key[r]][found[r]] \in 0..Cap /\ gone[key[r]][found[r]] <= lag[r]
    BY <1>0, <1>5
       DEF Set, AccessInductive, CacheInductive, CacheTypeOK, AgeAccountsForStaleness
  <2>2. gone[key[r]][found[r]] <= TTL + MaxLag
    BY <1>0, <2>1, CapNat
  <2> QED
    BY <1>0, <1>5, <2>2, CapNat DEF Set, Goes, Waited, CacheTypeOK, dbVars
<1> QED
  BY <1>1, <1>2, <1>3, <1>4, <1>5 DEF LookupStep, Lookup

\* Whoever is past the session has a membership to look up, a handler a role.
LEMMA WhoHasKey ==
  ASSUME AccessInductive, NEW r \in Readers, stage[r] \in {"member", "handler"}
  PROVE  /\ who[r] \in Value
         /\ MemberKey(who[r].user, who[r].org) \in MemberKeys
         /\ MemberKey(who[r].user, who[r].org) \in Keys
         /\ stage[r] = "handler" => MemberRow(role[r]) \in Value
<1>1. PICK u \in Users, o \in Orgs : who[r] = SessionRow(u, o)
  BY DEF AccessInductive, AccessTypeOK, RequestsInOrder
<1>2. who[r] \in Value /\ MemberKey(who[r].user, who[r].org) \in MemberKeys
  BY <1>1, KeysAndRows DEF SessionRow, SessionRows, MemberKeys, Value
<1>3. stage[r] = "handler" => MemberRow(role[r]) \in Value
  BY KeysAndRows DEF AccessInductive, AccessTypeOK, RequestsInOrder, MemberRows, Value
<1> QED
  BY <1>2, <1>3, KeysAndRows

\* A request's step leaves the others alone, and the database to others still.
LEMMA OthersAside ==
  ASSUME AccessTypeOK, NEW r \in Readers, NEW q \in Readers, r # q,
         \/ \E s \in SessionKeys, o \in Asked, id \in Ids : Arrive(r, s, o, id)
         \/ Refuse(r)
         \/ RequestStep(r)
  PROVE  UNCHANGED <<stage[q], who[q], role[q], at[q], key[q], found[q], lag[q], gone>>
<1> USE DEF AccessTypeOK, CacheTypeOK, dbVars, readerVars
<1>1. ASSUME NEW s \in SessionKeys, NEW o, NEW id, Arrive(r, s, o, id)
      PROVE  UNCHANGED <<stage[q], who[q], role[q], at[q], key[q], found[q], lag[q], gone>>
  BY <1>1 DEF Arrive, LookUp
<1>2. CASE Refuse(r)
  BY <1>2 DEF Refuse, Answer, cacheVars
<1>3. CASE LookupStep(r)
  <2>1. UNCHANGED <<stage[q], who[q], role[q]>>
    BY <1>3 DEF LookupStep, Answer
  <2>2. UNCHANGED <<at[q], key[q], found[q], lag[q], gone>>
    BY <1>3
       DEF LookupStep, Lookup, GetHit, GetMiss, GetError, Fetch, FetchError, Set, Goes
  <2> QED
    BY <2>1, <2>2
<1>4. CASE ResolveSession(r)
  BY <1>4 DEF ResolveSession, Answer, LookUp
<1>5. CASE Authorize(r)
  BY <1>5 DEF Authorize, Answer, cacheVars
<1>6. CASE HandlerFails(r)
  BY <1>6 DEF HandlerFails, Responds, cacheVars
<1>7. CASE HandlerWorks(r)
  BY <1>7 DEF HandlerWorks, Responds, cacheVars
<1>8. CASE After(r)
  BY <1>8 DEF After, cacheVars
<1> QED
  BY <1>1, <1>2, <1>3, <1>4, <1>5, <1>6, <1>7, <1>8 DEF RequestStep

\* A request that nothing happens to keeps what it had, if nothing grows older.
LEMMA RightKept ==
  ASSUME AccessInductive, NEW r \in Readers,
         \A k \in Keys, u \in Value : gone'[k][u] \in Nat /\ gone'[k][u] <= gone[k][u],
         UNCHANGED <<stage[r], who[r], role[r], at[r], key[r], found[r], lag[r]>>
  PROVE  RightFresh(r)'
<1>1. RightFresh(r) /\ key[r] \in Keys /\ found[r] \in Value /\ Waited(r) \in Nat /\ Waited(r)' = Waited(r)
  BY CapNat DEF AccessInductive, RightsFresh, CacheInductive, CacheTypeOK, Waited
<1>2. \A k \in Keys, u \in Value : gone[k][u] \in Nat
  BY CapNat DEF AccessInductive, CacheInductive, CacheTypeOK
<1>3. CASE stage[r] \in {"member", "handler"}
  <2>1. /\ who[r] \in Value
        /\ MemberKey(who[r].user, who[r].org) \in Keys
        /\ stage[r] = "handler" => MemberRow(role[r]) \in Value
    BY <1>3, WhoHasKey
  <2> QED
    BY <1>1, <1>2, <1>3, <2>1, KeysAndRows, CapNat DEF RightFresh
<1> QED
  BY <1>1, <1>2, <1>3, CapNat DEF RightFresh

\* Time finds every request that is on its way at a SET.
LEMMA TimeKeepsRights ==
  ASSUME AccessInductive, Time, NEW r \in Readers
  PROVE  RightFresh(r)'
<1>1. /\ stage' = stage /\ who' = who /\ at' = at
      /\ stage[r] \in {"idle", "respond", "done"} \/ at[r] = "set"
      /\ lag'[r] = IF at[r] = "set" THEN lag[r] + 1 ELSE lag[r]
      /\ \A k \in Keys, u \in Value : gone'[k][u] <= gone[k][u] + 1 /\ gone'[k][u] \in Nat
  BY CapNat DEF Time, Tick, requestVars, AccessInductive, CacheInductive, CacheTypeOK
<1>2. RightFresh(r) /\ lag[r] \in Nat
  BY CapNat DEF AccessInductive, RightsFresh, CacheInductive, CacheTypeOK
<1>3. CASE stage[r] \in {"session", "member", "handler"}
  <2>1. at[r] = "set" /\ stage[r] # "handler"
    BY <1>1, <1>2, <1>3 DEF RightFresh
  <2>2. stage[r] = "member" =>
          \E s \in SessionKeys : gone[s][who[r]] <= TTL + MaxLag + lag[r]
    BY <1>2, <2>1 DEF RightFresh, Waited
  <2>3. stage[r] = "member" => who[r] \in Value
    BY WhoHasKey
  <2>4. \A s \in SessionKeys, u \in Value : gone[s][u] \in Nat
    BY KeysAndRows, CapNat DEF AccessInductive, CacheInductive, CacheTypeOK
  <2>5. stage[r] = "member" =>
          \E s \in SessionKeys : gone'[s][who[r]] <= TTL + MaxLag + (lag[r] + 1)
    BY <1>1, <1>2, <2>2, <2>3, <2>4, KeysAndRows, CapNat
  <2> QED
    BY <1>1, <2>1, <2>5 DEF RightFresh, Waited
<1> QED
  BY <1>1, <1>3 DEF RightFresh

\* Neither a step of a request's own nor anybody else's makes it act on what was
\* gone for longer.
LEMMA RightsStep ==
  ASSUME AccessInductive, AccessNext, AccessTypeOK'
  PROVE  RightsFresh'
<1> SUFFICES ASSUME NEW q \in Readers
             PROVE  RightFresh(q)'
  BY DEF RightsFresh
<1>0. /\ RightFresh(q) /\ CacheTypeOK /\ AccessTypeOK
      /\ \A k \in Keys, u \in Value : gone[k][u] \in Nat
  BY CapNat DEF AccessInductive, RightsFresh, CacheInductive, CacheTypeOK
<1>1. CASE Time
  BY <1>1, TimeKeepsRights
<1>2. ASSUME NEW r \in Readers, r # q,
             \/ \E s \in SessionKeys, o \in Asked, id \in Ids : Arrive(r, s, o, id)
             \/ Refuse(r)
             \/ RequestStep(r)
      PROVE  RightFresh(q)'
  <2>1. UNCHANGED <<stage[q], who[q], role[q], at[q], key[q], found[q], lag[q], gone>>
    BY <1>0, <1>2, OthersAside
  <2> QED
    BY <1>0, <2>1, RightKept
<1>3. ASSUME NEW s \in SessionKeys, NEW o, NEW id, Arrive(q, s, o, id)
      PROVE  RightFresh(q)'
  BY <1>0, <1>3 DEF Arrive, LookUp, RightFresh, AccessTypeOK, CacheTypeOK
<1>4. CASE Refuse(q) \/ HandlerFails(q) \/ HandlerWorks(q) \/ After(q)
  <2>1. stage'[q] \in {"respond", "done"}
    BY <1>0, <1>4
    DEF Refuse, HandlerFails, HandlerWorks, After, Answer, Responds, AccessTypeOK
  <2> QED
    BY <2>1 DEF RightFresh
<1>5. CASE LookupStep(q)
  <2>1. CASE at'[q] = "idle"
    BY <1>0, <1>5, <2>1 DEF LookupStep, Answer, RightFresh, AccessTypeOK
  <2>2. CASE at'[q] # "idle"
    <3>1. /\ UNCHANGED <<stage, who, role, gone>> /\ key' = key
          /\ stage[q] \in {"session", "member"}
          /\ at'[q] = "done" /\ found'[q] # None =>
               gone[key[q]][found'[q]] <= TTL + MaxLag
          /\ stage[q] = "member" => Waited(q) <= Waited(q)' /\ Waited(q)' \in Nat
      BY <1>5, <2>2, LookupFresh
      DEF LookupStep, Lookup, GetHit, GetMiss, GetError, Fetch, FetchError, Set, Goes
    <3>2. stage[q] = "member" => who[q] \in Value
      BY WhoHasKey
    <3>3. Waited(q) \in Nat
      BY <1>0, CapNat DEF Waited, CacheTypeOK
    <3> QED
      BY <1>0, <3>1, <3>2, <3>3, KeysAndRows, CapNat DEF RightFresh
  <2> QED
    BY <2>1, <2>2
<1>6. CASE ResolveSession(q)
  <2>1. CASE Active(found[q])
    <3>1. /\ stage[q] = "session" /\ at[q] = "done" /\ found[q] # None
          /\ stage'[q] = "member" /\ at'[q] = "get" /\ who'[q] = found[q] /\ gone' = gone
      BY <1>0, <1>6, <2>1
      DEF ResolveSession, LookUp, Active, AccessTypeOK, CacheTypeOK, dbVars
    <3>2. key[q] \in SessionKeys /\ gone[key[q]][found[q]] <= TTL + MaxLag
      BY <1>0, <3>1 DEF RightFresh, AccessInductive, RequestsInOrder
    <3>3. gone'[key[q]][who'[q]] <= TTL + MaxLag + Waited(q)'
      BY <3>1, <3>2, CapNat DEF Waited
    <3> QED
      BY <3>1, <3>2, <3>3 DEF RightFresh
  <2>2. CASE ~Active(found[q])
    BY <1>0, <1>6, <2>2 DEF ResolveSession, Answer, RightFresh, AccessTypeOK
  <2> QED
    BY <2>1, <2>2
<1>7. CASE Authorize(q)
  <2>1. CASE Denied(found[q])
    BY <1>0, <1>7, <2>1 DEF Authorize, Answer, RightFresh, AccessTypeOK
  <2>2. CASE ~Denied(found[q])
    <3>1. /\ stage[q] = "member" /\ at[q] = "done" /\ found[q] # None
          /\ stage'[q] = "handler" /\ role'[q] = found[q].role
          /\ UNCHANGED <<who, at, key, found, lag, gone>>
      BY <1>0, <1>7, <2>2
      DEF Authorize, Denied, AccessTypeOK, cacheVars, dbVars, readerVars
    <3>2. /\ key[q] = MemberKey(who[q].user, who[q].org)
          /\ gone[key[q]][found[q]] <= TTL + MaxLag
      BY <1>0, <3>1 DEF RightFresh, AccessInductive, RequestsInOrder
    <3>3. found[q] = MemberRow(role'[q])
      <4>1. key[q] \in MemberKeys /\ found[q] \in Kind(key[q])
        BY <3>1, <3>2, WhoHasKey DEF AccessInductive, KindsKept
      <4> QED
        BY <3>1, <4>1, KeysAndRows DEF MemberRows, MemberRow
    <3>4. Waited(q)' = Waited(q)
      BY <3>1 DEF Waited
    <3> QED
      BY <1>0, <3>1, <3>2, <3>3, <3>4 DEF RightFresh
  <2> QED
    BY <2>1, <2>2
<1>8. CASE /\ ~Time
           /\ ~ \E r \in Readers :
                  \/ \E s \in SessionKeys, o \in Asked, id \in Ids : Arrive(r, s, o, id)
                  \/ Refuse(r)
                  \/ RequestStep(r)
  <2>1. /\ UNCHANGED <<requestVars, readerVars>>
        /\ \A k \in Keys, u \in Value : gone'[k][u] <= gone[k][u]
    BY <1>0, <1>8, OthersAgeNothing DEF AccessInductive
  <2>2. \A k \in Keys, u \in Value : gone'[k][u] \in Nat
    BY CapNat DEF AccessTypeOK, CacheTypeOK
  <2> QED
    BY <2>1, <2>2, RightKept DEF requestVars, readerVars
<1> QED
  BY <1>1, <1>2, <1>3, <1>4, <1>5, <1>6, <1>7, <1>8 DEF RequestStep

-----------------------------------------------------------------------------
(* The invariant and what follows from it. *)

\* Only a handler that works changes data.
LEMMA EffectOfWork ==
  ASSUME AccessNext, effect' # effect
  PROVE  \E q \in Readers : HandlerWorks(q)
BY DEF AccessNext, Arrive, Refuse, RequestStep, LookupStep, ResolveSession, Authorize,
       HandlerFails, After, SignInHook, SignIn, SwitchOrganization, EndSession,
       WriteMember, Housekeeping, Time, requestVars

\* It holds before the first request.
LEMMA AccessInductiveInit == AccessInit => AccessInductive
<1> SUFFICES ASSUME AccessInit
             PROVE  AccessInductive
  OBVIOUS
<1>1. CacheInductive
  BY InductiveInit DEF AccessInit
<1>2. AccessTypeOK
  BY <1>1, AccessAssumption
     DEF AccessInit, AccessTypeOK, CacheInductive, Ops, Reads, Writes
<1>3. KindsKept
  <2>1. \A k \in Keys : row[k] \in Kind(k)
    BY KeysAndRows DEF AccessInit
  <2> QED
    BY <2>1, KeysAndRows DEF AccessInit, CacheInit, KindsKept
<1>4. RequestsInOrder
  BY DEF AccessInit, CacheInit, RequestsInOrder
<1>5. Aftermath
  BY AccessAssumption
  DEF AccessInit, Aftermath, EffectsInOrder, ChangesStayInTenant, ChangesAudited, AnswersHonest
<1>6. RightsFresh
  BY DEF AccessInit, RightsFresh, RightFresh
<1> QED
  BY <1>1, <1>2, <1>3, <1>4, <1>5, <1>6 DEF AccessInductive, Aftermath

\* Every step keeps it, and is one of the cache.
LEMMA AccessInductiveStep ==
  AccessInductive /\ [AccessNext]_accessVars => AccessInductive' /\ [CacheNext]_cacheVars
<1> SUFFICES ASSUME AccessInductive, [AccessNext]_accessVars
             PROVE  AccessInductive' /\ [CacheNext]_cacheVars
  OBVIOUS
<1>1. CASE AccessNext
  <2>1. [CacheNext]_cacheVars
    BY <1>1, StepsOfCache DEF AccessInductive
  <2>2. CacheInductive'
    BY <2>1, TypeStep, AgesStep DEF AccessInductive, CacheInductive
  <2>3. AccessTypeOK'
    BY <1>1, <2>2, AccessTypeStep DEF AccessInductive, CacheInductive
  <2>4. KindsKept' /\ RequestsInOrder'
    BY <1>1, KindsStep, RequestsStep DEF AccessInductive
  <2>5. Aftermath'
    BY <1>1, AftermathStep DEF AccessInductive, Aftermath
  <2>6. RightsFresh'
    BY <1>1, <2>3, RightsStep
  <2> QED
    BY <2>1, <2>2, <2>3, <2>4, <2>5, <2>6 DEF AccessInductive, Aftermath
<1>2. CASE UNCHANGED accessVars
  <2> USE <1>2 DEF accessVars, requestVars, cacheVars, dbVars, redisVars, writerVars, readerVars
  <2>1. CacheInductive'
    BY
       DEF AccessInductive, CacheInductive, CacheTypeOK, AgeAccountsForStaleness,
           RowIsCurrent
  <2>2. AccessTypeOK'
    BY <2>1 DEF AccessInductive, CacheInductive, AccessTypeOK
  <2>3. KindsKept' /\ RequestsInOrder'
    BY DEF AccessInductive, KindsKept, RequestsInOrder, Kind
  <2>4. Aftermath'
    BY
       DEF AccessInductive, Aftermath, EffectsInOrder, ChangesStayInTenant,
           ChangesAudited,
           AnswersHonest
  <2>5. RightsFresh'
    BY DEF AccessInductive, RightsFresh, RightFresh, Waited
  <2> QED
    BY <2>1, <2>2, <2>3, <2>4, <2>5 DEF AccessInductive, Aftermath
<1> QED
  BY <1>1, <1>2

\* The invariant holds throughout.
THEOREM AccessInvariant == AccessSpec => []AccessInductive
BY AccessInductiveInit, AccessInductiveStep, PTL DEF AccessSpec

\* Every variable of the path keeps to its type.
THEOREM AccessTypeCorrect == AccessSpec => []AccessTypeOK
BY AccessInvariant, PTL DEF AccessInductive

\* Requests and those who change sessions and memberships use the cache as its
\* own module has it.
THEOREM AccessUsesCache == AccessSpec => CacheSpec
<1>1. AccessInit => CacheInit
  BY DEF AccessInit
<1> QED
  BY <1>1, AccessInvariant, AccessInductiveStep, PTL DEF AccessSpec, CacheSpec

\* So no entry a request sees is staler than the cache allows.
THEOREM AccessStaleness == AccessSpec => []StaleAtMostTTL
BY AccessUsesCache, StalenessBounded

\* A request changes and files audit rows in its own organization only.
THEOREM TenantKept == AccessSpec => []ChangesStayInTenant
BY AccessInvariant, PTL DEF AccessInductive

\* Every change has its audit row once its request is over, if the insert succeeds
\* and the audit's table matches the id as the request spells it.
THEOREM AllAudited == AccessSpec => []ChangesAudited
BY AccessInvariant, PTL DEF AccessInductive

\* The status tells what happened.
THEOREM StatusTells == AccessSpec => []AnswersHonest
BY AccessInvariant, PTL DEF AccessInductive

\* What every route may answer, and what its handler may.
LEMMA CodesKnown ==
  ASSUME NEW r \in Readers, op[r] \in Ops
  PROVE  LET known == Documented(op[r]) \cup Undocumented(op[r])
         IN {400, 401, 403, 500} \cup Rejects(r) \cup {Success(op[r])} \subseteq known
<1> DEFINE known == Documented(op[r]) \cup Undocumented(op[r])
<1> USE DEF Ops, Reads, Writes
<1>1. {400, 401, 403, 500} \subseteq known
  BY DEF Documented, Undocumented, DocumentedForCompanies, DocumentedForTags,
         DocumentedForAnalyses
<1>2. Success(op[r]) \in known
  BY
     DEF Success, Documented, DocumentedForCompanies, DocumentedForTags,
         DocumentedForAnalyses
<1>3. /\ op[r] \in {"create", "update"} => 409 \in known
      /\ op[r] \notin {"list", "create", "analyses"} => 404 \in known
  BY DEF Documented, Undocumented, DocumentedForCompanies, DocumentedForTags,
         DocumentedForAnalyses
<1> HIDE DEF known
<1>4. /\ \A e \in BadRequests : StatusOf(e) = 400
      /\ StatusOf("DuplicateEntry") = 409
      /\ StatusOf("NotFoundError") = 404
      /\ StatusOf("Error") = 500
  BY DEF StatusOf, BadRequests
<1>5. Rejects(r) \subseteq known
  BY <1>1, <1>3, <1>4 DEF Rejects, Throws
<1> QED
  BY <1>1, <1>2, <1>5 DEF known

\* Every step keeps to what is known.
LEMMA DocumentedStep ==
  ASSUME AccessInductive, AnswersDocumented, AccessNext
  PROVE  AnswersDocumented'
<1> DEFINE Known(q) == Documented(op[q]) \cup Undocumented(op[q])
<1>0. /\ stage \in [Readers -> {"idle", "session", "member", "handler", "respond", "done"}]
      /\ op \in [Readers -> Ops]
      /\ code \in [Readers -> {200, 201, 202, 204, 400, 401, 403, 404, 409, 500, None}]
      /\ \A q \in Readers : stage[q] \notin {"respond", "done"} => code[q] = None
      /\ \A q \in Readers : code[q] # None => code[q] \in Known(q)
  BY DEF AccessInductive, AccessTypeOK, EffectsInOrder, AnswersDocumented
<1>1. SUFFICES \A q \in Readers : code'[q] # None => code'[q] \in Known(q)'
  BY DEF AnswersDocumented
<1>2. ASSUME NEW r \in Readers, NEW s \in SessionKeys, NEW o \in Asked, NEW id \in Ids,
             Arrive(r, s, o, id)
      PROVE  \A q \in Readers : code'[q] # None => code'[q] \in Known(q)'
  BY <1>0, <1>2 DEF Arrive
<1>3. ASSUME UNCHANGED op,
             \/ code' = code
             \/ \E r \in Readers, c \in {400, 401, 403, 500} : code' = [code EXCEPT ![r] = c]
             \/ \E r \in Readers : \E c \in Rejects(r) \cup {Success(op[r])} :
                  code' = [code EXCEPT ![r] = c]
      PROVE  \A q \in Readers : code'[q] # None => code'[q] \in Known(q)'
  <2>1. \A r \in Readers :
          {400, 401, 403, 500} \cup Rejects(r) \cup {Success(op[r])} \subseteq Known(r)
    BY <1>0, CodesKnown
  <2>2. \A q \in Readers : Known(q)' = Known(q)
    BY <1>3
  <2> HIDE DEF Known
  <2> QED
    BY <1>0, <1>3, <2>1, <2>2
<1>4. ASSUME NEW r \in Readers,
             Refuse(r) \/ LookupStep(r) \/ ResolveSession(r) \/ Authorize(r) \/ After(r)
      PROVE  /\ UNCHANGED op
             /\ \/ code' = code
                \/ \E c \in {400, 401, 403, 500} : code' = [code EXCEPT ![r] = c]
  BY <1>4 DEF Refuse, LookupStep, ResolveSession, Authorize, After, Answer
<1>5. ASSUME NEW r \in Readers, HandlerFails(r) \/ HandlerWorks(r)
      PROVE  /\ UNCHANGED op
             /\ \/ code' = [code EXCEPT ![r] = 500]
                \/ \E c \in Rejects(r) \cup {Success(op[r])} : code' = [code EXCEPT ![r] = c]
  <2>1. StatusOf("Error") = 500
    BY DEF StatusOf, BadRequests
  <2> QED
    BY <1>5, <2>1 DEF HandlerFails, HandlerWorks, Responds
<1>6. CASE UNCHANGED <<requestVars, at, key>>
  BY <1>3, <1>6 DEF requestVars
<1> QED
  BY <1>2, <1>3, <1>4, <1>5, <1>6, OthersApart DEF RequestStep

\* Whatever happens on its way, a request is answered with a status that its
\* operation is documented to have, or one of those named as missing.
THEOREM StatusDocumented == AccessSpec => []AnswersDocumented
<1>1. AccessInit => AnswersDocumented
  BY DEF AccessInit, AnswersDocumented
<1>2. AccessInductive /\ AnswersDocumented /\ [AccessNext]_accessVars => AnswersDocumented'
  <2> SUFFICES ASSUME AccessInductive, AnswersDocumented, [AccessNext]_accessVars
               PROVE  AnswersDocumented'
    OBVIOUS
  <2>1. CASE UNCHANGED accessVars
    BY <2>1 DEF accessVars, requestVars, AnswersDocumented
  <2> QED
    BY <2>1, DocumentedStep
<1> QED
  BY <1>1, <1>2, AccessInvariant, PTL DEF AccessSpec

\* What a request changes, it changes by rights that were held lately.
LEMMA ChangesByRights ==
  ASSUME AccessInductive, AccessNext, NEW r \in Readers, effect'[r] # effect[r]
  PROVE  /\ gone[MemberKey(who[r].user, who[r].org)][MemberRow(role[r])] <= TTL + MaxLag
         /\ \E s \in SessionKeys : gone[s][who[r]] <= TTL + 2 * MaxLag
         /\ role[r] \in EditRoles
<1>1. PICK q \in Readers : HandlerWorks(q)
  BY EffectOfWork
<1>2. q = r
  BY <1>1 DEF HandlerWorks, AccessInductive, AccessTypeOK
<1>3. stage[r] = "handler" /\ Permitted(r) /\ op[r] \in Writes
  BY <1>1, <1>2 DEF HandlerWorks, Writes
<1>4. role[r] \in EditRoles
  BY <1>3 DEF Permitted, CanEdit, Reads, Writes
<1>5. RightFresh(r) /\ Waited(r) = MaxLag
  BY <1>3 DEF AccessInductive, RightsFresh, RightFresh, Waited
<1> QED
  BY <1>3, <1>4, <1>5, CapNat DEF RightFresh

\* A demotion, a removal, a sign-out and a switch of organization all take hold.
THEOREM RightsLately == AccessSpec => RightsHeldLately
<1>1. ASSUME AccessInductive, [AccessNext]_accessVars
      PROVE  [\A r \in Readers :
                effect'[r] # effect[r] =>
                  /\ gone[MemberKey(who[r].user, who[r].org)][MemberRow(role[r])] <= TTL + MaxLag
                  /\ \E s \in SessionKeys : gone[s][who[r]] <= TTL + 2 * MaxLag
                  /\ role[r] \in EditRoles]_accessVars
  BY <1>1, ChangesByRights
<1> QED
  BY <1>1, AccessInvariant, PTL DEF AccessSpec, RightsHeldLately
=============================================================================
