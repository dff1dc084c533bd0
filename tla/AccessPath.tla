----------------------------- MODULE AccessPath -----------------------------
(***************************************************************************)
(* An API request from its cookie to its answer and its audit row: Better  *)
(* Auth verifies the cookie, the session and the membership are looked up  *)
(* through the cache, the role decides, the handler works within the       *)
(* session's organization, what it throws becomes a status code, and the   *)
(* audit row is written after the response.                                *)
(*                                                                         *)
(* Meanwhile sessions are created, moved and ended, memberships changed    *)
(* and ended.  Of a request's own work only the SET takes time here: the   *)
(* rest is short against the minutes a cache entry lives.                  *)
(***************************************************************************)
EXTENDS CacheAside

CONSTANTS
  Users, Orgs, Roles,
  Companies, Owner,   \* what requests are about, and whose it is
  Ids, Named, Listed, \* ids as paths spell them, what they name, and those the
                      \* audit's table matches
  Asked,              \* the operations that are asked for
  MaxWrites,          \* writes to sessions and memberships (a bound)
  AuditFails          \* TRUE: the audit insert may fail, or its process die

SessionRow(u, o) == [user |-> u, org |-> o]
MemberRow(role) == [role |-> role]
MemberKey(u, o) == <<u, o>>

\* Session rows without an organization: a user who is a member of none.
SessionRows == {SessionRow(u, o) : u \in Users, o \in Orgs \cup {None}}
MemberRows == {MemberRow(role) : role \in Roles}
MemberKeys == {MemberKey(u, o) : u \in Users, o \in Orgs}

\* What the routes under /api/v1 do, for companies and for tags.
Reads == {"list", "get", "analyses"}
Writes == {"create", "update", "delete", "analyze"}
Ops == Reads \cup Writes

\* ROLES_WITH_EDIT_PERMISSION
EditRoles == {"owner", "admin", "department_admin", "editor"}

ASSUME AccessAssumption ==
  /\ Roles \subseteq EditRoles \cup {"viewer", "partner_member"}
  /\ Keys = SessionKeys \cup MemberKeys
  /\ SessionKeys \cap MemberKeys = {}
  /\ Entries = SessionRows \cup MemberRows
  /\ None \notin Users \cup Orgs \cup Companies \cup Roles \cup Nat
  /\ Owner \in [Companies -> Orgs]
  /\ Named \in [Ids -> Companies]
  /\ Listed \subseteq Ids
  /\ Asked \subseteq Ops
  /\ MaxWrites \in Nat
  /\ AuditFails \in BOOLEAN

VARIABLES
  stage,      \* where a request is
  op, target, \* what it asks for
  who,        \* the user and the organization of its session
  role,       \* the role it was given
  effect,     \* the organization whose data it changed
  scheduled,  \* whether an audit write waits for the response
  code,       \* the status it is answered with
  audit,      \* the organization of its audit row
  live,       \* the companies that exist
  stamp,      \* a sign-in between its create.before hook and its insert
  writes      \* writes left

requestVars == <<stage, op, target, who, role, effect, scheduled, code, audit>>
accessVars == <<cacheVars, requestVars, live, stamp, writes>>

Answer(r, c) ==
  /\ code' = [code EXCEPT ![r] = c]
  /\ stage' = [stage EXCEPT ![r] = "done"]

-----------------------------------------------------------------------------
(* getSessionContextWithRole *)

\* auth.api.getSession is satisfied by the row, or by a cookie cached from it
\* up to five minutes ago, the TTL.  It may refuse any cookie.
Verified(s) == \E e \in Entries : gone[s][e] <= TTL

Arrive(r, s, o, id) ==
  /\ stage[r] = "idle"
  /\ op' = [op EXCEPT ![r] = o]
  /\ target' = [target EXCEPT ![r] = id]
  /\ Verified(s)
  /\ LookUp(r, s)
  /\ stage' = [stage EXCEPT ![r] = "session"]
  /\ UNCHANGED <<dbVars, redisVars, writerVars, who, role, effect, scheduled,
                 code, audit, live, stamp, writes>>

\* No cookie, or one that is not verified: the gate and getSessionContext give
\* the same answer.  Verifying may fail with the database.
Refuse(r) ==
  /\ stage[r] = "idle"
  /\ Answer(r, 401) \/ (DbFails /\ Answer(r, 500))
  /\ UNCHANGED <<cacheVars, op, target, who, role, effect, scheduled, audit,
                 live, stamp, writes>>

\* A request's lookup in progress; one that throws is a 500.
LookupStep(r) ==
  /\ stage[r] \in {"session", "member"}
  /\ Lookup(r)
  /\ IF at'[r] = "idle" THEN Answer(r, 500) ELSE UNCHANGED <<stage, code>>
  /\ UNCHANGED <<op, target, who, role, effect, scheduled, audit, live, stamp, writes>>

\* Slip: a session is enough.
ActiveInAny(e) == e # None

\* No session is a 401, no active organization a 400.
Active(e) == IF e = None THEN FALSE ELSE e.org # None

ResolveSession(r) ==
  /\ stage[r] = "session"
  /\ at[r] = "done"
  /\ \/ /\ Active(found[r])
        /\ who' = [who EXCEPT ![r] = found[r]]
        /\ stage' = [stage EXCEPT ![r] = "member"]
        /\ LookUp(r, MemberKey(found[r].user, found[r].org))
        /\ UNCHANGED code
     \/ /\ ~Active(found[r])
        /\ Answer(r, IF found[r] = None THEN 401 ELSE 400)
        /\ UNCHANGED <<who, readerVars>>
  /\ UNCHANGED <<dbVars, redisVars, writerVars, op, target, role, effect,
                 scheduled, audit, live, stamp, writes>>

\* Slip: the routes for DELETE are missing from the table.
AuditedButDelete(o, id) == o = "create" \/ (o \in {"update", "analyze"} /\ id \in Listed)

\* resolveAuditConfig: every route that is not a GET has an entry, whose pattern
\* has ids in lower case, [0-9a-f-]+, as the API hands them out.  The database
\* takes them in upper case as well, and no route refuses them.
Audited(o, id) == o = "create" \/ (o \in Writes /\ id \in Listed)

\* Not a member, or a partner, whom no route lets through: 403.
Denied(m) == m = None \/ (m # None /\ m.role = "partner_member")

Authorize(r) ==
  /\ stage[r] = "member"
  /\ at[r] = "done"
  /\ \/ /\ ~Denied(found[r])
        /\ role' = [role EXCEPT ![r] = found[r].role]
        /\ scheduled' = [scheduled EXCEPT ![r] = Audited(op[r], target[r])]
        /\ stage' = [stage EXCEPT ![r] = "handler"]
        /\ UNCHANGED code
     \/ /\ Denied(found[r])
        /\ Answer(r, 403)
        /\ UNCHANGED <<role, scheduled>>
  /\ UNCHANGED <<cacheVars, op, target, who, effect, audit, live, stamp, writes>>

-----------------------------------------------------------------------------
(* The handlers and after(). *)

CanEdit(x) == x \in EditRoles

Permitted(r) == op[r] \in Reads \/ CanEdit(role[r])

\* Slip: the statement's WHERE names the id alone.
ScopedById(id, org) == Named[id] \in live

\* get, update, delete and requestAnalysis find the row within the organization.
Scoped(id, org) == Named[id] \in live /\ Owner[Named[id]] = org

\* Slip: a service forgets to throw NotFoundError.
ThrowsNever(o, id, org) == FALSE

\* NotFoundError, when a statement returns no row; a company that is not found
\* has no analyses.
Throws(o, id, org) == o \notin {"list", "create", "analyses"} /\ ~Scoped(id, org)

\* Slip: the second argument of NextResponse.json is forgotten.
SuccessByDefault(o) == 200

\* The status of a success.
Success(o) ==
  CASE o = "create"  -> 201
    [] o = "analyze" -> 202
    [] o = "delete"  -> 204
    [] OTHER         -> 200

\* The statuses that openApiSpecV1 gives an operation; those for tags repeat those
\* for companies.
DocumentedForCompanies(o) ==
  CASE o = "list"   -> {200, 400, 401, 403}
    [] o = "create" -> {201, 400, 401, 403, 409}
    [] o = "get"    -> {200, 401, 403, 404}
    [] o = "update" -> {200, 400, 401, 403, 404}
    [] o = "delete" -> {204, 401, 403, 404}

DocumentedForTags(o) ==
  CASE o = "list"   -> {200, 400, 401, 403}
    [] o = "create" -> {201, 400, 401, 403, 409}
    [] o = "get"    -> {200, 401, 403, 404}
    [] o = "update" -> {200, 400, 401, 403, 404}
    [] o = "delete" -> {204, 401, 403, 404}

DocumentedForAnalyses(o) ==
  CASE o = "analyses" -> {200, 401, 403}
    [] o = "analyze"  -> {202, 400, 401, 403, 404}

Documented(o) ==
  IF o \in {"analyses", "analyze"} THEN DocumentedForAnalyses(o)
  ELSE DocumentedForCompanies(o) \cap DocumentedForTags(o)

\* What the caller got wrong: a body that is no JSON, one the schema refuses, an
\* id that is no UUID, a department there is not.
BadRequests == {"SyntaxError", "ZodError", "InvalidInput", "ForeignKey"}

\* handleApiError
StatusOf(error) ==
  CASE error \in BadRequests     -> 400
    [] error = "NotFoundError"   -> 404
    [] error = "DuplicateEntry"  -> 409
    [] OTHER                     -> 500

\* A role that may not edit is answered 403.  A body or a query may be refused, a
\* name or a registration number be taken in the organization, and a statement
\* (or the queue) fail.
Rejects(r) ==
  IF ~Permitted(r) THEN {403}
  ELSE {StatusOf(e) : e \in
         BadRequests
         \cup (IF op[r] \in {"create", "update"} THEN {"DuplicateEntry"} ELSE {})
         \cup (IF Throws(op[r], target[r], who[r].org) THEN {"NotFoundError"} ELSE {})
         \cup (IF DbFails THEN {"Error"} ELSE {})}

\* The organization a handler's write lands in; its row may be gone.
Affected(o, id, org) == IF o = "create" THEN org ELSE Owner[Named[id]]

Responds(r, c) ==
  /\ code' = [code EXCEPT ![r] = c]
  /\ stage' = [stage EXCEPT ![r] = "respond"]

HandlerFails(r) ==
  /\ stage[r] = "handler"
  /\ \E c \in Rejects(r) : Responds(r, c)
  /\ UNCHANGED <<cacheVars, op, target, who, role, effect, scheduled, audit,
                 live, stamp, writes>>

\* The answer to the statement may be lost once it was applied, and a job's row
\* be there without its message.
HandlerWorks(r) ==
  LET org == who[r].org IN
  /\ stage[r] = "handler"
  /\ Permitted(r)
  /\ ~Throws(op[r], target[r], org)
  /\ IF op[r] = "create" \/ (op[r] \in Writes /\ Scoped(target[r], org))
       THEN /\ effect' = [effect EXCEPT ![r] = Affected(op[r], target[r], org)]
            /\ live' = IF op[r] = "delete" THEN live \ {Named[target[r]]} ELSE live
       ELSE UNCHANGED <<effect, live>>
  /\ \/ Responds(r, Success(op[r]))
     \/ DbFails /\ Responds(r, StatusOf("Error"))
  /\ UNCHANGED <<cacheVars, op, target, who, role, scheduled, audit, stamp, writes>>

\* after() runs once the response is sent; record() swallows its failure.
After(r) ==
  /\ stage[r] = "respond"
  /\ \/ scheduled[r] /\ audit' = [audit EXCEPT ![r] = who[r].org]
     \/ ~scheduled[r] /\ UNCHANGED audit
     \/ scheduled[r] /\ AuditFails /\ UNCHANGED audit
  /\ stage' = [stage EXCEPT ![r] = "done"]
  /\ UNCHANGED <<cacheVars, op, target, who, role, effect, scheduled, code,
                 live, stamp, writes>>

-----------------------------------------------------------------------------
(* Sessions and memberships meanwhile. *)

CountWrite == writes > 0 /\ writes' = writes - 1

\* session.create.before: the first membership that is not deleted, if any.
SignInHook(s, u) ==
  /\ row[s] = None
  /\ stamp[s] = None
  /\ CountWrite
  /\ \/ \E o \in Orgs : /\ row[MemberKey(u, o)] # None
                        /\ stamp' = [stamp EXCEPT ![s] = SessionRow(u, o)]
     \/ /\ \A o \in Orgs : row[MemberKey(u, o)] = None
        /\ stamp' = [stamp EXCEPT ![s] = SessionRow(u, None)]
  /\ UNCHANGED <<cacheVars, requestVars, live>>

SignIn(s) ==
  /\ stamp[s] # None
  /\ Write(s, stamp[s])
  /\ stamp' = [stamp EXCEPT ![s] = None]
  /\ UNCHANGED <<requestVars, live, writes>>

\* session.update: another organization becomes the active one.
SwitchOrganization(s, o) ==
  /\ row[s] # None
  /\ Write(s, SessionRow(row[s].user, o))
  /\ CountWrite
  /\ UNCHANGED <<requestVars, live, stamp>>

\* member.create, update and softDelete.
WriteMember(k, m) ==
  /\ m # row[k]
  /\ Write(k, m)
  /\ CountWrite
  /\ UNCHANGED <<requestVars, live, stamp>>

EndSession(s) ==
  /\ DeleteExpired({s}) \/ SignOutHook(s)
  /\ CountWrite
  /\ UNCHANGED <<requestVars, live, stamp>>

Housekeeping ==
  /\ \/ \E k \in Keys : Drop(k)
     \/ \E s \in SessionKeys : SignOut(s)
  /\ UNCHANGED <<requestVars, live, stamp, writes>>

Time ==
  /\ \A r \in Readers : stage[r] \in {"idle", "respond", "done"} \/ at[r] = "set"
  /\ Tick
  /\ UNCHANGED <<requestVars, live, stamp, writes>>

-----------------------------------------------------------------------------
AccessInit ==
  /\ CacheInit
  /\ \A s \in SessionKeys : row[s] \in SessionRows \cup {None}
  /\ \A k \in MemberKeys : row[k] \in MemberRows \cup {None}
  /\ key = [r \in Readers |-> CHOOSE k \in Keys : TRUE]
  /\ stage = [r \in Readers |-> "idle"]
  /\ op = [r \in Readers |-> "list"]
  /\ target = [r \in Readers |-> None]
  /\ who = [r \in Readers |-> None]
  /\ role = [r \in Readers |-> None]
  /\ effect = [r \in Readers |-> None]
  /\ scheduled = [r \in Readers |-> FALSE]
  /\ code = [r \in Readers |-> None]
  /\ audit = [r \in Readers |-> None]
  /\ live = Companies
  /\ stamp = [s \in SessionKeys |-> None]
  /\ writes = MaxWrites

RequestStep(r) ==
  \/ LookupStep(r) \/ ResolveSession(r) \/ Authorize(r)
  \/ HandlerFails(r) \/ HandlerWorks(r) \/ After(r)

AccessNext ==
  \/ \E r \in Readers :
       \/ \E s \in SessionKeys, o \in Asked, id \in Ids : Arrive(r, s, o, id)
       \/ Refuse(r)
       \/ RequestStep(r)
  \/ \E s \in SessionKeys :
       \/ \E u \in Users : SignInHook(s, u)
       \/ SignIn(s)
       \/ \E o \in Orgs : SwitchOrganization(s, o)
       \/ EndSession(s)
  \/ \E k \in MemberKeys, m \in MemberRows \cup {None} : WriteMember(k, m)
  \/ Housekeeping
  \/ Time

AccessSpec == AccessInit /\ [][AccessNext]_accessVars

-----------------------------------------------------------------------------
(* Correctness. *)

\* Every variable holds a value the code can give it.
AccessTypeOK ==
  /\ CacheTypeOK
  /\ stage \in [Readers -> {"idle", "session", "member", "handler", "respond", "done"}]
  /\ op \in [Readers -> Ops]
  /\ target \in [Readers -> Ids \cup {None}]
  /\ who \in [Readers -> {SessionRow(u, o) : u \in Users, o \in Orgs} \cup {None}]
  /\ role \in [Readers -> Roles \cup {None}]
  /\ effect \in [Readers -> Orgs \cup {None}]
  /\ scheduled \in [Readers -> BOOLEAN]
  /\ code \in [Readers -> {200, 201, 202, 204, 400, 401, 403, 404, 409, 500, None}]
  /\ audit \in [Readers -> Orgs \cup {None}]
  /\ live \subseteq Companies
  /\ stamp \in [SessionKeys -> SessionRows \cup {None}]
  /\ writes \in 0..MaxWrites

\* A request changes data of the organization its session names and of no
\* other, and its audit row is filed there.
ChangesStayInTenant ==
  \A r \in Readers :
    /\ effect[r] # None => effect[r] = who[r].org
    /\ audit[r] # None => audit[r] = who[r].org

\* Whoever changes something held, at most the cache's window ago, a session for
\* that organization and a role in it that may edit: a demotion, a removal, a
\* sign-out and a switch of organization all take hold within that window,
\* whatever order the cache's own steps come in.
RightsHeldLately ==
  [][\A r \in Readers :
       effect'[r] # effect[r] =>
         /\ gone[MemberKey(who[r].user, who[r].org)][MemberRow(role[r])] <= TTL + MaxLag
         /\ \E s \in SessionKeys : gone[s][who[r]] <= TTL + 2 * MaxLag
         /\ role[r] \in EditRoles]_accessVars

\* "A route cannot be written that quietly skips" the audit (session.helper.ts):
\* every change has its row once its request is over, if the insert succeeds, but
\* for those of a request that spells the id as the audit's table does not, in
\* upper case.  Such a request does skip it, and leaves no row.
ChangesAudited ==
  \A r \in Readers :
    effect[r] # None /\ stage[r] = "done" =>
      \/ audit[r] = effect[r]
      \/ audit[r] = None /\ (AuditFails \/ (op[r] # "create" /\ target[r] \notin Listed))

\* The status tells what happened: a write that is reported as done was done,
\* one that is refused changed nothing, and only a failure of the database or
\* the queue, never one of the cache, leaves it open.
AnswersHonest ==
  \A r \in Readers :
    /\ code[r] \in 200..299 /\ op[r] \in Writes => effect[r] # None
    /\ code[r] \in 400..499 => effect[r] = None
    /\ code[r] = 500 => DbFails

\* What the routes answer and the description does not say: failures, on the
\* routes by id an id that is no UUID and a session without an organization, and a
\* registration number, or a tag's name, that is taken by the time it is changed.
Undocumented(o) ==
  CASE o \in {"get", "delete", "analyses"} -> {400, 500}
    [] o = "update"                        -> {409, 500}
    [] OTHER                               -> {500}

\* "The spec is the contract the client is built against" (spec-v1.ts): whatever
\* comes between the cookie and the answer, each operation answers what is
\* documented for it, but for these.
AnswersDocumented ==
  \A r \in Readers :
    code[r] # None => code[r] \in Documented(op[r]) \cup Undocumented(op[r])

-----------------------------------------------------------------------------
(* Why they hold. *)

Kind(k) == {None} \cup (IF k \in SessionKeys THEN SessionRows ELSE MemberRows)

\* What a key finds, has cached, or was looked up as, is of its kind.
KindsKept ==
  /\ \A k \in Keys : row[k] \in Kind(k) /\ cached[k] \in Kind(k)
  /\ \A r \in Readers : at[r] \in {"set", "done"} => found[r] \in Kind(key[r])

\* A request knows who asks, and as what, by the time it acts on it.
RequestsInOrder ==
  \A r \in Readers :
    /\ stage[r] = "idle" => at[r] = "idle"
    /\ stage[r] = "session" => key[r] \in SessionKeys
    /\ stage[r] \in {"member", "handler", "respond"} =>
         who[r] # None /\ key[r] = MemberKey(who[r].user, who[r].org)
    /\ stage[r] = "handler" => role[r] # None

\* What it leaves behind comes with its response, and the audit row after it.
EffectsInOrder ==
  \A r \in Readers :
    /\ stage[r] \notin {"respond", "done"} => effect[r] = None /\ code[r] = None
    /\ stage[r] # "done" => audit[r] = None
    /\ stage[r] \in {"handler", "respond"} => scheduled[r] = Audited(op[r], target[r])
    /\ effect[r] # None => op[r] \in Writes

\* The time a request has spent on its membership since it knew its session.
Waited(r) ==
  CASE at[r] = "set"  -> lag[r]
    [] at[r] = "done" -> MaxLag
    [] OTHER          -> 0

\* What a request found was there lately, and time passes for it in a SET alone.
RightFresh(r) ==
  /\ stage[r] \in {"session", "member"} /\ at[r] = "done" /\ found[r] # None =>
       gone[key[r]][found[r]] <= TTL + MaxLag
  /\ stage[r] \in {"member", "handler"} =>
       \E s \in SessionKeys : gone[s][who[r]] <= TTL + MaxLag + Waited(r)
  /\ stage[r] = "handler" =>
       /\ at[r] = "done"
       /\ gone[MemberKey(who[r].user, who[r].org)][MemberRow(role[r])] <= TTL + MaxLag

RightsFresh == \A r \in Readers : RightFresh(r)

AccessInductive ==
  /\ AccessTypeOK
  /\ CacheInductive
  /\ KindsKept
  /\ RequestsInOrder
  /\ RightsFresh
  /\ EffectsInOrder
  /\ ChangesStayInTenant
  /\ ChangesAudited
  /\ AnswersHonest
=============================================================================
