# Verification of saas-foundation

TLA+ models of the parts of this repository whose correctness depends on the
order in which several processes act: the asynchronous analysis pipeline and the
provider call inside it, the cache in front of sessions and memberships, the
path of an API request through authorization to its status and its audit row,
and the two pages whose requests outlive what they were sent for. Each model is
checked by TLC on small instances; every safety property of a passing run is also
proved by TLAPS for every value of the constants, under the assumptions section 4
names.

    tlc -workers 2 -config PipelineFaults.cfg MCAnalysisPipeline
    tlapm AnalysisPipelineProofs.tla

## 1. The system

| Component | State | Operations | Talks to |
|---|---|---|---|
| Analysis request (`company_analysis.service.ts`) | none | `requestAnalysis`: find company, create job, send message, link message | jobs, queue |
| Job worker (`job-worker.ts`) | `isRunning`, the message in hand | receive, claim, run handler, record, delete message; SIGTERM | queue, jobs, provider, analyses |
| Jobs (`job.repository.ts`) | rows `jobs` | `create`, `update`, `claimForProcessing` | Postgres |
| Analyses (`company_analysis.repository.ts`) | rows `company_analyses`, unique per job, cascading from companies | `createIfAbsent`, `findByJobId` | Postgres |
| Queue (`sqs-client.ts`) | messages, their visibility | send, receive, delete | SQS |
| AI provider (`lib/ai`) | the provider once built | resolve the backend, `analyze`, minutes long, with the SDK's own retries; errors to codes | Anthropic |
| Cache (`lib/cache`) | Redis keys with TTLs | `cacheAside`, `cacheDel`, pattern deletes | Redis |
| Sessions, memberships (`repositories/auth`) | rows `session`, `member` | cached reads, writes that drop the key | Postgres, cache |
| Better Auth (`auth/config.ts`) | sessions through its own adapter | hooks that stamp the organization and drop keys | Postgres, cache |
| Request authorization (`session.helper.ts`, `role.helper.ts`) | none | session, membership, role of a caller | cache, Better Auth |
| Audit (`audit.helper.ts`, `audit_log.service.ts`) | rows `audit_logs` | schedule, write after the response | Postgres |
| Companies, tags | rows, unique per organization | list with total, create, update, delete | Postgres |
| Views (`CompanyAnalyses.tsx`, `CompanyList.tsx`) | React state | load, submit, poll | the API |
| Gate (`proxy.ts`), API errors (`error-handler.ts`) | none | pure decisions | – |
| API description (`openapi/spec-v1.ts`) | none | statuses of every operation | read by clients |

What is hard: two workers on one job; an at-least-once queue whose visibility
timeout, claim lease and provider timeout are three clocks that must agree; a
worker that dies at any await; statements whose answer is lost after they were
applied; cache fills that overtake invalidations; rights that change while a
request is on its way; answers that reach the browser out of order.
`PROJECT.json` lists each hazard at its line.

What makes each part correct:

- *Pipeline*: one analysis per job whatever is delivered or retried; COMPLETED
  only with an analysis, and final; nothing crosses tenants; an accepted job
  ends; a permanent failure is not run again; a retryable one is delivered again;
  a message does not reappear while the provider works on it.
- *Cache*: a stale entry is bounded in age; Redis is never needed for an answer;
  an ended session does not stay.
- *Access*: a right that is used was held a moment ago; a request changes its own
  tenant; every change is audited (section 5 has an exception); the status tells
  what happened and is one the description gives.
- *Company list*: the page settles on what was last asked; pages neither overlap
  nor miss a company; page and total agree but for writes in between; a search
  shows what matches.
- *Company page*: one submit at a time; none ends in silence or for ever; nothing
  is written to a page that was left, but for the question that is emptied; what
  was shown is not taken back.

## 2. Modules

| Module | Models | State |
|---|---|---|
| `AnalysisPipeline` | request, worker, jobs, analyses, queue, provider | checked, proved |
| `AnalysisLedger` | what the pipeline promises, abstractly | refined by `AnalysisPipeline`, used by `CompanyAnalyses` |
| `AnalysisPipelineProofs`, `RedeliveryProofs` | theorems about `AnalysisPipeline` | proved |
| `ProviderCall` | the choice of a provider, the SDK's requests and retries, errors; EXTENDS `AnalysisPipeline` and refines it | checked, proved |
| `ProviderCallProofs` | theorems about `ProviderCall` | proved |
| `CacheAside` | cache, sessions, memberships, Better Auth's hooks | checked, proved |
| `CacheAsideProofs` | theorems about `CacheAside` | proved |
| `AccessPath` | request authorization, roles, handlers' scoping, status codes and their description, audit; EXTENDS `CacheAside` | checked, proved |
| `AccessPathProofs` | theorems about `AccessPath` | proved |
| `CompanyList` | the companies page, and the two statements of a list request | checked, proved |
| `CompanyListProofs`, `CompanyPagesProofs` | theorems about `CompanyList` | proved |
| `CompanyAnalyses` | a company's page: load, submit, poll, leave; its server is `AnalysisLedger` | checked, proved |
| `CompanyAnalysesProofs` | theorems about `CompanyAnalyses` | proved |
| `MC*` | values of the constants | |

A definition whose comment begins with *Slip* is a mistake someone could make in
the definition below it. No specification uses one; they show that a property
depends on the code it is about.

### AnalysisPipeline

Every `await` is a point at which another process may act, so every awaited call
is an action. `pc[w]` is the await worker `w` is at: `poll` (the receive),
`claim` (`claimForProcessing`), `load`, `analyze`, `insert`, `reread`
(`runAnalysis`), `complete` and `fail*` (the two updates), `ack` (the delete),
`down`. `req[j]` is the same for the request that creates job `j`. A job's row
is `status`, `age` (time since `startedAt`) and `errorDetails`; `info` is its
tenant, type and payload. A message is its `body`, its `place` and what is left
of its visibility timeout (`hidden`).

The environment commits faults of the kinds in `Faults`: `db` (a statement
throws and was not applied), `ambiguous` (it was applied and the answer is
lost), `sqs` (a queue call throws), `duplicate` (a hidden message is delivered),
`replay` (a message written by hand), `provider` (a retryable failure), `crash`,
`stop` (SIGTERM). `MaxFaults` bounds them unless `FaultsRecur`.

Abstractions, each on the side of more behaviour unless it says otherwise. Time
is integer and advances for everyone at once, so the lease and the visibility
timeout have no clock skew. With `Prompt`, a worker spends time only polling or
waiting for the provider; without it, anywhere. The sub-second backoff between
two attempts of the SDK is left out. A message is never expired or moved to a
dead-letter queue. A lease is over strictly after `Lease` units, as in the code.

### ProviderCall

`AnalysisPipeline!Analyze` says of a call that it ends within `MaxCall` in one of
three ways. This module replaces it by what happens: `Resolve` is
`getAnalysisProvider` and `getClient` (the mock, the Anthropic client, or a
configuration that throws), `Resend` and `Answered` are the SDK, which sends at
most `MaxRetries + 1` requests and lets each run for `AttemptTimeout`; a reply
becomes a result, a retryable or a permanent failure (`Retryable`, the checks of
`analyze` and `toProviderError`), and that the worker's next step (`Outcome`).
No property says on which side an error belongs; section 5 names those the
comments put on the other. Every other step is one of the pipeline's.
`sent` and `waited` are the SDK's state for a worker's call. That the pipeline's
view is right is the property `PipelineSpec`, checked and proved: what is known
of `AnalysisPipeline` holds of the worker with the provider it really has. The
SDK's list of statuses it retries, and that its timer is exact, are taken from
the comments in `anthropic-provider.ts`; the SDK is not part of the repository.
A provider that was built stays built in the code; here each call may meet any
backend of `Backends`, which is more.

### CacheAside

A key stands for the query its fetcher runs; `row[k]` is what that query finds
now and `gone[k][v]` how long ago it last found `v`, a history that only
properties read. A reader is at `get`, `fetch` or `set`. A writer is its
statement (`Write`, `DeleteExpired`) and, later, its DEL (`Drop`): `drops[k]`
counts the DELs still to come. Better Auth's delete is the other way round:
`SignOutHook`, then `SignOut`. `RedisFails` lets every command fail; for a DEL
it also stands for the writer's process dying first. A command that times out
at the client is applied before the client goes on, or never. `MaxLag` is the
longest time between a reader's query and its SET (`commandTimeout` bounds it
at three seconds beyond the query); the repository states no other bound.

### AccessPath

A request passes the stages `session`, `member`, `handler`, `respond`; its
lookups are those of `CacheAside`, which it EXTENDS, and every step of it is a
step of the cache or none (`CacheSpec` is a property of `AccessRights`).
Meanwhile sessions are created (`SignInHook`, `SignIn`), moved, ended, and
memberships written. Of these writes only the ones Better Auth makes have a
caller today; the others are the repositories' published operations.

`code[r]` is the status. `Refuse` is the gate and `getSessionContext` without a
valid cookie; a lookup that throws is a 500; `Rejects` is the set of codes the
handler may stop with before it changes anything, by way of `StatusOf`
(`handleApiError`); `HandlerWorks` applies the statement and may still answer
500, when the statement's answer is lost, or when the job's row is there and the
message could not be sent. What a body says is left open: whether the schema
refuses it, or the constraint finds a duplicate, is a choice. One set of
companies stands for companies and tags: their routes, services and statements
have the same control; `analyses` lists a company's analyses, `analyze` asks for
one. `target` is an id as the path spells it: `Named` gives the company it names,
and `Listed` are the ids that the patterns of `resolveAuditConfig` match. An id in
upper case names a company (no route checks it, and Postgres takes it) and is
not in `Listed`: `Audited` schedules no row for it, and `ChangesAudited` says that
this is the only way to a change without one. Which membership is a user's
first is left open. `MaxWrites` bounds the writes to sessions and memberships.

`Documented` is what `spec-v1.ts` says of an operation; `Undocumented` names the
gaps (section 5), and `AnswersDocumented` that there are no others.

### CompanyList

`calls` are the list requests in the order they were sent, each with what its
two statements returned so far; `open` are those without an answer. A user
action sends what its handler and then `load`'s effect send: `Type` and `Turn`
one request if keyword or page changed, `Search` one with the closure's page and
one more if that was not the first. `Answer` writes what arrived to the page,
whichever request it belongs to, as `load` does. `FindMany` and `Count` run at
different moments, and rows of one name come in any order; `since` is a history: the
writes still to come when the request was sent. `SearchLandsOnPage` is about the last two requests, which after a search from
another page than the first are the search's own. With `InOrder`
answers arrive in the order of their requests. `MaxCalls`, `MaxFailures` and
`MaxWrites` are bounds; `Search` and its second request are counted together.

### CompanyAnalyses

`submit` is the await the handler is at: `posting` and `posted` (the request is
on its way, is accepted), `sleeping`, `polling` and `polled` (the poll is on its
way, was read by the server). `load` is the same for the first load. `page` is
the surrounding `CompanyDetail`, and `Mounted` the ref `submit` and `load` look
at. `question` says whether the box holds one: `Write` fills and clears it,
`Submit` needs it, and `PostArrives` empties it, the one write that does not look
at `Mounted`. The server is the ledger: `Accept` is a question of this user or another,
`Work` an answer, `DeleteCompany` the end of both, each a step of
`AnalysisLedger`. Because the pipeline refines the ledger, nothing is assumed of
the worker that is not shown of it. A job that fails for good is one the ledger
never answers. `created` adds the order of the rows, which the list query
returns newest first and cuts at `PageSize` (50 in the code).

### AnalysisLedger

Jobs accepted on terms that never change, answered at most once, on those terms,
for a company of the same tenant that exists; answers leave only with their
company. `AnalysisPipeline!LedgerSpec` maps the rows of `jobs` to the terms and
`company_analyses` to the answers: every step of the pipeline accepts, answers,
drops, or changes nothing the ledger can see.

## 3. Runs

| Run | Shows | Bounds |
|---|---|---|
| `PipelineFaults` | `TypeOK`, `OneAnalysisPerJob`, `CompletedHasAnalysis`, `PendingKeepsMessage`, `AnalysesPermanent`, `LedgerSpec` under every fault, without limit | 2 workers, 1 job, 2 messages; all clocks one unit |
| `PipelineTuned` | `LeaseExclusive`, `CompletedIsTerminal` when calls fit the lease | minutes: lease and visibility 5, attempts 2, `AI_MAX_RETRIES` 1 |
| `PipelineSettles` | `EventuallySettled`, `PermanentFailureNotRerun`, `RetryableFailureRedriven`, `CallKeepsMessage`, `TenantIsolation`, `CallTypeOK`, `PipelineSpec`, on `ProviderCall` | as above, no crash, at most 3 provider failures or stops; all backends; 2 companies in 2 tenants |
| `DefaultTerminal` | what the default `AI_MAX_RETRIES` of 2 breaks (section 5) | minutes, no fault but a retryable provider failure |
| `CrashAbandons` | a crash leaves a job nobody will take over (section 5) | minutes, one crash or more |
| `SignOutRace` | an ended session in the cache (section 5) | 1 session, Redis healthy |
| `AccessRights` | `RightsHeldLately`, `StaleAtMostTTL`, `ChangesAudited`, `AnswersHonest`, `AnswersDocumented`, `AccessTypeOK`, `CacheSpec` | 2 requests that delete, with the id in lower or upper case, 1 session, 1 write, TTL 1, lag 1; every Redis command may fail |
| `AccessTenants` | `ChangesStayInTenant`, `AnswersHonest`, `AnswersDocumented` | 1 request of any of the 7 operations, a user of 2 organizations, 1 company of one of them, 2 writes; every statement may fail |
| `ListSettles` | `SettledIsCurrent`, `SearchFindsMatches`, `PagesPartition`, `TotalMatchesPage`, `LoadingBacked`, `ListTypeOK` | 2 companies on 2 pages, 2 keywords, 4 requests, 1 failure, 1 write |
| `SearchOvertaken` | a search that lands on a page that is not there (section 5) | 2 companies, 5 requests, no failure, no write |
| `AnalysesPolled` | `OutcomeTold`, `PollEnds`, `QuietAfterLeaving`, `PendingIsSubmit`, `PageMovesOn`, `AnalysesTypeOK` | 3 jobs on a list of 2, 2 polls |
| `NoticeBroken` | the analysis the notice promises does not appear (section 5) | 1 job, 2 polls |

Why the bounds are enough. A race for a job has two sides, so two workers; a
second message for one job covers a duplicate send and a replay. With all clocks
at one unit, any order of lease expiry, visibility expiry and end of call
occurs, which is what the properties without timing assumptions need; the runs
in minutes keep the code's proportions (300 s, 300 s, 120 s)
exactly. A stale
entry needs one key, one filler and one writer; the second reader lets a fill
overtake a fill. `AccessRights` needs two requests because the stale entry one
uses was stored by the other. Two companies, one per page, make an offset or a
bound that is one off visible; four requests are a page turn, a search with its
two requests, and the first load. Two polls are one that is followed by another
and one that is the last; three jobs on a list of two let others push the one
that is waited for off the list before a poll reads it. Of the two access
runs one has every operation and one request, the other two requests and the one
operation that takes its target away from the other, so that each finishes in
minutes; the theorems cover all operations and any number of requests. The proofs make the counts irrelevant for the
safety properties they state.

Symmetry is used for workers, jobs, messages, readers and entries in safety runs
only; no specification distinguishes their members. `AccessPath` picks the
initial `key` of a reader with CHOOSE over keys, which readers' symmetry does
not touch.

### Fairness

`FairSpec`: a request handler that was started runs on (`WF` of its steps), a
worker process is scheduled and restarted by its container
(`WF_vars(WorkerStep(w))`), and time passes. Weak fairness of a worker as a
whole is enough: at every await but the poll exactly one call is pending, and
at the poll an empty receive is a step of its own that may be taken while
another worker has the message; what `PipelineSettles` shows holds even so,
because a worker that stays in the poll sees the visible message. Faults are
never fair. `EventuallySettled` excludes crashes, which break it
(`CrashAbandons`), and limits provider failures, since a provider that fails
for ever keeps a job in retry for ever.

`ProviderCall!CallFairSpec` is the same with the SDK's steps in the worker's
place; its timer is part of the passing of time, so a call that nobody answers
ends after its last attempt.

`CompanyAnalyses!FairSpec`: a request ends, with an answer or an error, and a
timer fires. Neither the worker nor the user is fair: `PollEnds` is about a poll
without a worker.

## 4. Theorems

All proofs are for arbitrary sets of workers, jobs, messages, companies and
tenants, arbitrary clocks and any faults.

`AnalysisPipelineProofs`. `Inductive` is the conjunction of `TypeOK` with what
the properties rest on: rows exist only for requests that got that far
(`RowsFollowRequests`), a worker holds a message that was sent and, past the
claim, one whose row exists and whose company it has looked up within the tenant
(`WorkersInOrder`), an analysis repeats its job's tenant and company
(`AnalysesMatchJobs`), a worker about to write COMPLETED has seen an analysis or
its company is gone (`CompletionsBacked`), and a PENDING job has a message that
no worker is about to delete (`PendingMessageSafe`). The last two are what the
plain properties lack to be inductive. From it follow `TypeCorrect`,
`AtMostOnce`, `TenantsIsolated`, `CompletedBacked`, `FirstDeliveryKept`,
`AnalysesStay`, and `ImplementsLedger`, the refinement of `AnalysisLedger`.

`OneWinner` and `CompletedStays` assume `Tuned`: workers are prompt and the
longest provider call fits the lease. `ClaimsCurrent` adds that a held claim is
as old as the call that is waited for. `CompletedStays` also assumes that no
answer of the database is lost: an update to COMPLETED that was applied and
reported as failed is followed by one to FAILED, whatever the timing.

`RedeliveryProofs`. `SlowCallsHidden` assumes `CallsFitVisibility`: prompt workers
and calls shorter than the visibility timeout. The invariant is `HeldHidden`: a
message in hand stays hidden for at least the visibility timeout less the time
its call has run. `RetryableRedriven` assumes `OneDelivery`, that the queue also
delivers a message to one worker at a time and nobody writes messages by hand.
Then a job has one message (`OneMessage`), one worker has it in its hands
(`HandsApart`), and a worker about to delete it is not that of a retryable failure
(`AckSafe`): a second delivery that skips and deletes, which is what breaks the
property otherwise, cannot happen. `ambiguous`, `db`, `sqs` and `crash` stay
allowed. `PermanentStays` assumes `NothingLost`, that of these only `db` occurs.
The one message of a job that failed for good is then in the hands of a worker
about to delete it (`PermanentDone`), and nobody else can claim the job. With a
worker killed between the failure and the deletion the message comes back and
the job is run again: a claim takes FAILED rows of either kind.

The last three theorems ask what the lease may be. `OneWinnerByDelivery` and
`CompletedStaysByDelivery` say that under `OneDelivery` a claim is exclusive, and
COMPLETED final if no answer of the database is lost, with a lease of any length:
whoever could take a claim over would need the job's one message, and its holder
has it (`OneHolder`). `OneWinner` needs no such queue, but a lease longer than a
call. `AbandonedRedriven` adds to `OneDelivery` that the lease is shorter than the
visibility timeout (`LeaseRunsOut`). `ClaimsRedriven` is the invariant: a job that
is PROCESSING has its message on the queue; the claim's age and what is left of
the message's visibility timeout together exceed the lease, since both clocks
start at the claim or the receive before it and run alike; so a worker at the
claim of such a job can take it, and none at the delete has one. The constants of
the repository are equal, which `LeaseRunsOut` excludes and `CrashAbandons` shows
to be one too many: the theorem is about the setting that would close the gap.
Prompt workers claim in the unit of time in which they receive; in the code the
difference has to be longer than the way from the receive to the claim.

`ProviderCallProofs`. `CallsBounded` is the type invariant with the arithmetic of
attempts: a call has lasted at most what its earlier attempts were allowed and
the time the present one has run. From it `ImplementsPipeline`: a tick is only
possible below `MaxCall`, and an answer is `Analyze`. `CallsRedriven` carries the
two theorems above over.

`CacheAsideProofs`. `StaleAtMostTTL` is not inductive: a SET stores a value read
some time ago. `AgeAccountsForStaleness` adds that an entry's age and its
filler's lag cover all the time since its value was the row's, and
`RowIsCurrent` that the row's own value is never a past one. `StalenessBounded`
holds for any keys, readers, writers and failures.

`AccessPathProofs`. Every step is a step of `CacheAside` or one it cannot see
(`StepsOfCache`, `AccessUsesCache`), so the cache's inductive invariant and its
bound carry over. `AccessInductive` adds what a request knows at each stage: what
a key finds is a row of its kind (`KindsKept`), a request past its session looks
up the membership of that session's user and organization (`RequestsInOrder`),
and effects come with the response, the audit row after it (`EffectsInOrder`).
`RightsHeldLately` is about the moment of the change, long after the two lookups
it rests on; `RightsFresh` carries their age along: at most `TTL + MaxLag` when a
lookup ends, and for the session the time of the membership's SET on top, which
`Waited` counts. The proofs assume of the constants that keys, rows and users are
distinct things, that roles are among those of `constants/roles.ts`, and that a
company has one organization. `AllAudited` is, like `ChangesAudited`,
about the ids the audit's table matches, and says of the others that there is no
row. `StatusDocumented` follows from the codes each
stage may answer with, for all operations.

`CompanyListProofs`. `SettlesInOrder` assumes answers in order; the invariant says
that the last request asked for what the page has (`LatestIsCurrent`) and that
the open requests are the last ones (`LatestIsLast`). `TotalsMatch` needs
`HalfReadClose`: while one statement of a request is still to run, what the other
returned is as far from the rows there are as writes were made. A write changes
what a keyword finds by one company at most, and what a page holds by one row.

`CompanyPagesProofs`. `TurningShowsAll` is `PagesPartition` for any companies,
order by name, keywords and page size. What comes before a page is a set of first
rows of what a keyword finds, and so is that with the page; while names differ
(`DistinctNames`, which the code does not promise: companies of one name have no
order, and then pages do overlap) two sets of first rows are nested by their size
(`FirstNested`). Offsets of different pages lie a page apart (`OffsetsApart`), so
pages are disjoint (`PagesApart`); the page of a row is the number of rows before
it divided by the limit (`PageOfRow`), so together they cover it
(`PagesCover`). `AnswersArePages` is the invariant that connects this with what
was answered: until somebody writes, what a statement returned is a page of what
there is. `SearchTells` needs answers in order and, from the same invariant, that
the page shows such an answer and a search the first page (`ShowsAnswer`): a first
page is empty only if nothing matches.

`CompanyAnalysesProofs`. `PendingIsSubmit` needs that nothing is submitted
before the page is open, and `attempt`'s type that polls go on only while
attempts are left (`SubmitInOrder`). `NoSilentEnd` and `LeftAlone` are action
properties from the same invariant, for any number of jobs and polls; the second
lets the answer to a POST empty the question of a page that was left.
`ListMovesOn` needs to know when a list was read: `ReadBefore` says that it lacks
the `n` newest of the rows there are and is otherwise their first `PageSize`, which a
new row turns into `n + 1` (`RowsKeepReads`). `ReadsInOrder` is the invariant: with
no poll beside the first load, a poll's answer lacks no more rows than what the
page shows, and of two such lists one is `Later` than the other (`LaterRead`).

Only model-checked: the liveness properties (`EventuallySettled`, `PollEnds`),
which are out of the prover's reach, and of what section 5 finds violated
`SignOutLeavesNothing`, `NoticeKept` and `SearchLandsOnPage`: the code has no
setting that makes the first two true, and the third would need the answers to
arrive in order, of which `SearchTells` says more.

## 5. Where the code and its comments differ

- *COMPLETED is terminal* (`constants/jobs.ts:11`). With the default three
  attempts of 120 s a call outlasts the lease of 300 s. A second worker takes
  over, and the one that fails last writes FAILED over COMPLETED, because the
  update names the row by id alone (`DefaultTerminal`).
- *Lease and queue never take opposite views* (`constants/jobs.ts:50`): the lease
  begins after the visibility timeout and ends after it, so the one redelivery a
  crashed worker's job gets is skipped and deleted (`CrashAbandons`). Nor does
  "raising one without the other" reintroduce the gap if the one is the visibility
  timeout: it closes it (`AbandonedRedriven`).
- *Without these hooks sign-out would leave a stale session* (`auth/config.ts:30`):
  with `delete.before` it still may (`SignOutRace`).
- *Reset to the first page, or a search could land on a page that no longer exists*
  (`CompanyList.tsx:50`): the handler's `load()` still has the old page, so the
  search asks for it again beside the first. With a keyword typed that finds one
  page only, page 2 turned to and searched from, the answer to page 2 may be the
  last to arrive: the list shows page 2 of 1, empty (`SearchOvertaken`).
- *It will appear here* (`CompanyAnalyses.tsx:91`): after the last poll nothing
  loads the analyses again (`NoticeBroken`).

More differences follow by reading alone and have no run of their own:

- *Re-throwing leaves the message in place* (`job-worker.ts:119`): with the default
  three attempts, a second worker that receives the message during the call
  cannot claim the job, returns and deletes the message. With `AI_MAX_RETRIES=1`
  it does stay: `RetryableFailureRedriven` of `PipelineSettles`.
- The timeout of `ai/config.ts:33` is "comfortably inside" the visibility timeout
  per attempt, not per call.
- A route cannot be written that "quietly skips" the audit
  (`session.helper.ts:136`), but a request can be: the audit's table knows an id by
  `[0-9a-f-]+` (`audit.helper.ts:24`), no route checks the id, and Postgres takes a
  UUID in upper case. A `PATCH`, a `DELETE` or a request for an analysis that spells
  it so is carried out and leaves no row. `ChangesAudited` states it as the
  exception it is.
- `mounted` stops the poll "writing to a dead tree" (`CompanyAnalyses.tsx:46`), but
  not the line after the POST (`:77`), which empties the question whether or not
  the page is still there (`QuietAfterLeaving` has it as its exception). React
  ignores such a write.
- `audit_logs`, a record of "who changed what" (`audit_logs.ts:14`), also gets a
  row for a request that was refused or failed, since `scheduleAuditLog` runs
  before the route has looked at the role.
- The total of a list does not "always match the page" (`company.repository.ts:111`):
  it comes from a second statement, and a write may fall between the two. They
  differ by no more than such writes (`TotalMatchesPage`).
- A truncated response does not "cost a retry" (`ai/config.ts:24`): what does not
  parse is no `APIError`, so `toProviderError` makes it `unknown`, which ends the
  job. A 408 or 409 that outlives the SDK's retries ends it as well, as
  `invalid_request`, although the SDK takes both for transient.
- `AI_MAX_RETRIES=0` does not switch the SDK's retries off: `positiveIntFromEnv`
  takes zero for unset, and two retries are made.
- The description of the API (`openapi/spec-v1.ts`) gives no operation a 500; `PATCH`
  may answer 409 and does not say so; neither `GET` nor `DELETE` by id says 400,
  which an id that is no UUID or a session without an organization gets, nor does the list of analyses (`AnswersDocumented` names these gaps). Its "Poll
  the job" has no endpoint. Bodies with unknown
  properties, which it forbids, are accepted without them.
- `GET .../analyses` of a company that was deleted answers 200 with an empty list,
  so a page that waits for an analysis polls on and then says "Still queued".

With `AI_MAX_RETRIES=1` COMPLETED is final; `PipelineTuned` and `OneWinner` say
why.

## 6. Plan

Done: the pipeline with its ledger and its provider call, the cache, the access
path with the description of the API, the company page on the ledger, and the
list page, each with its proofs. To come:

1. `CompanyStore`: organization-scoped rows with their uniqueness; creates,
   updates and deletes of several requests. Properties: two writers of one
   registration number, lost updates. Abstract specification: one map per
   organization, refined by the shared table.
2. `Gate` (which paths pass without a session), a pure module.

No module to be proved about declares a RECURSIVE operator.

## 7. Not modelled

E-mail, seeds, migrations, scripts, markup, the health check, prompts, the
schemas of the OpenAPI document: I/O or data without a protocol. The predicates
about inviting and managing members (`role.helper.ts`) have no caller. Better Auth, Postgres, Redis, SQS and the
Anthropic SDK are environment: modelled as the code uses them, with their
failures. The in-process mock queue (development only) receives destructively
and is not the queue of the model. Pattern deletes and filter hashes belong to
list caches that nothing fills.
