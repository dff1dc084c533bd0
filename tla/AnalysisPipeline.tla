-------------------------- MODULE AnalysisPipeline --------------------------
(***************************************************************************)
(* The asynchronous company-analysis pipeline: POST .../analyses records a *)
(* job and enqueues a pointer to it, workers receive the pointer, claim    *)
(* the job, ask the AI provider and record the answer.  The database, the  *)
(* queue and the provider are the environment; every await of the code is  *)
(* a point where another process may run, and a step of its own here.      *)
(*                                                                         *)
(* Time is counted in units of the caller's choice and only as far as the  *)
(* code can see it: the age of a claim, the rest of a visibility timeout,  *)
(* the duration of a provider call.                                        *)
(***************************************************************************)
EXTENDS Integers, FiniteSets

CONSTANTS
  Workers,        \* worker processes
  Jobs,           \* ids of the rows of "jobs"
  Messages,       \* queue messages that are ever sent (bounds the queue)
  Companies,      \* ids of the rows of "companies"
  Orgs,           \* tenants
  CompanyOrg,     \* companies.organizationId, which no code path updates
  None,           \* a null: no payload, no body, no message in hand
  Lease,          \* JOB_PROCESSING_LEASE_MS
  Visibility,     \* VisibilityTimeout of a receive
  AttemptTimeout, \* AI_TIMEOUT_MS, the limit of one attempt of the SDK
  MaxRetries,     \* AI_MAX_RETRIES, the attempts the SDK adds
  Prompt,         \* TRUE: nothing but the provider takes time in a worker
  Faults,         \* the kinds of fault the environment may commit
  MaxFaults,      \* how many of them, counted only if ~FaultsRecur
  FaultsRecur

FaultKinds == {"crash", "stop", "db", "ambiguous", "sqs", "duplicate",
               "replay", "provider"}
JobTypes == {"COMPANY_ANALYSIS", "UNIMPLEMENTED", "UNKNOWN"}
Statuses == {"PENDING", "PROCESSING", "COMPLETED", "FAILED"}
Info == [org : Orgs, type : JobTypes, company : Companies \cup {None}]

ASSUME NoneAssumption == None \notin Companies \cup Jobs \cup Messages \cup Info
ASSUME OrgAssumption == CompanyOrg \in [Companies -> Orgs]
ASSUME TimeAssumption ==
  /\ Lease \in Nat
  /\ Visibility \in Nat
  /\ AttemptTimeout \in Nat
  /\ MaxRetries \in Nat
ASSUME FaultAssumption ==
  /\ Faults \subseteq FaultKinds
  /\ MaxFaults \in Nat
  /\ FaultsRecur \in BOOLEAN
  /\ Prompt \in BOOLEAN

\* The longest a provider call may last: every attempt runs into its timeout.
\* The sub-second backoff between two attempts is left out.
MaxCall == AttemptTimeout * (MaxRetries + 1)

VARIABLES
  info,          \* what a job is about: tenant, type, company of the payload
  status,        \* jobs.status, "absent" when there is no row
  age,           \* time since jobs.startedAt while PROCESSING, up to Lease + 1
  errorDetails,  \* jobs.errorDetails: "null", or what the last failure was
  req,           \* progress of the request handler that creates a job
  live,          \* the companies that exist
  analyses,      \* the rows of company_analyses
  body,          \* the job id a message carries, None if it carries none
  place,         \* where a message is: "unsent", "queued" or "deleted"
  hidden,        \* the rest of a message's visibility timeout
  pc,            \* the await a worker is at
  inHand,        \* the message a worker holds
  elapsed,       \* duration of the provider call a worker waits for
  stopping,      \* ~isRunning
  faults         \* faults left

jobVars    == <<info, status, age, errorDetails>>
dataVars   == <<live, analyses>>
queueVars  == <<body, place, hidden>>
workerVars == <<pc, inHand, elapsed, stopping>>
vars == <<jobVars, req, dataVars, queueVars, workerVars, faults>>

Analysis == [job : Jobs, org : Orgs, company : Companies, attempt : Workers]

\* Where a worker is between its claim and the end of its last update.
Busy == {"load", "analyze", "insert", "reread", "complete",
         "failRetryable", "failPermanent", "failUnknown"}
WorkerSteps == Busy \cup {"poll", "claim", "ack", "down"}
RequestSteps == {"idle", "found", "created", "sent", "done", "failed"}

-----------------------------------------------------------------------------
(* The environment's budget of faults. *)

Fault(kind) ==
  /\ kind \in Faults
  /\ faults > 0
  /\ faults' = IF FaultsRecur THEN faults ELSE faults - 1

NoFault == UNCHANGED faults

-----------------------------------------------------------------------------
(* Statements of the repositories.  Each is one SQL statement. *)

\* Slip: the lookup forgets the tenant.
FindsAnyTenant(c, org) == c \in live

\* companies.findById(id, organizationId)
Finds(c, org) == c \in live /\ CompanyOrg[c] = org

\* Slips: the claim ignores the lease, takes finished work, never retries.
ClaimableUnleased(j) == status[j] \in {"PENDING", "FAILED", "PROCESSING"}
ClaimableFinished(j) ==
  \/ status[j] \in {"PENDING", "FAILED", "COMPLETED"}
  \/ status[j] = "PROCESSING" /\ age[j] > Lease
ClaimablePending(j) ==
  \/ status[j] = "PENDING"
  \/ status[j] = "PROCESSING" /\ age[j] > Lease

\* The WHERE clause of claimForProcessing: the comparison of startedAt with
\* staleBefore is strict.
Claimable(j) ==
  \/ status[j] \in {"PENDING", "FAILED"}
  \/ status[j] = "PROCESSING" /\ age[j] > Lease

\* SET status = PROCESSING, startedAt = now; error columns stay as they are.
ClaimRow(j) ==
  /\ status' = [status EXCEPT ![j] = "PROCESSING"]
  /\ age' = [age EXCEPT ![j] = 0]
  /\ UNCHANGED <<info, errorDetails>>

\* jobs.update(id, ...) has no condition but the id.
UpdateRow(j, newStatus, details) ==
  /\ status' = [status EXCEPT ![j] = newStatus]
  /\ age' = [age EXCEPT ![j] = 0]
  /\ errorDetails' = [errorDetails EXCEPT ![j] = details]
  /\ UNCHANGED info

Recorded(j) == {a \in analyses : a.job = j}

Row(j, w) ==
  [job |-> j, org |-> info[j].org, company |-> info[j].company, attempt |-> w]

\* Slips: no unique constraint; a conflict overwrites the row.
InsertAlways(j, w) == analyses \cup {Row(j, w)}
InsertUpsert(j, w) == (analyses \ Recorded(j)) \cup {Row(j, w)}

\* INSERT ... ON CONFLICT (job_id) DO NOTHING
Insert(j, w) == IF Recorded(j) = {} THEN analyses \cup {Row(j, w)} ELSE analyses

-----------------------------------------------------------------------------
(* POST .../companies/[id]/analyses: requestAnalysis. *)

\* The company is looked up within the caller's organization; the payload
\* names it.  A company that is not found is a 404 and changes nothing.
RequestFind(j, org, c) ==
  /\ req[j] = "idle"
  /\ Finds(c, org)
  /\ req' = [req EXCEPT ![j] = "found"]
  /\ info' = [info EXCEPT ![j] =
                [org |-> org, type |-> "COMPANY_ANALYSIS", company |-> c]]
  /\ UNCHANGED <<status, age, errorDetails, dataVars, queueVars, workerVars, faults>>

\* Slip: a status outside the lifecycle.
CreateRowQueued(j) ==
  /\ status' = [status EXCEPT ![j] = "QUEUED"]
  /\ UNCHANGED <<age, errorDetails>>

\* jobs.create
CreateRow(j) ==
  /\ status' = [status EXCEPT ![j] = "PENDING"]
  /\ UNCHANGED <<age, errorDetails>>

RequestCreate(j) ==
  /\ req[j] = "found"
  /\ \/ CreateRow(j) /\ req' = [req EXCEPT ![j] = "created"] /\ NoFault
     \/ CreateRow(j) /\ req' = [req EXCEPT ![j] = "failed"] /\ Fault("ambiguous")
     \/ /\ UNCHANGED <<status, age, errorDetails>>
        /\ req' = [req EXCEPT ![j] = "failed"]
        /\ Fault("db")
  /\ UNCHANGED <<info, dataVars, queueVars, workerVars>>

\* A row written by another deployment: any type, any payload, any tenant.
CreateElsewhere(j, i) ==
  /\ req[j] = "idle"
  /\ req' = [req EXCEPT ![j] = "created"]
  /\ info' = [info EXCEPT ![j] = i]
  /\ CreateRow(j)
  /\ UNCHANGED <<dataVars, queueVars, workerVars, faults>>

Enqueue(m, j) ==
  /\ place[m] = "unsent"
  /\ place' = [place EXCEPT ![m] = "queued"]
  /\ body' = [body EXCEPT ![m] = j]
  /\ UNCHANGED hidden

\* sendJobToQueue comes after the row.  When it throws the request answers 500
\* and leaves the row PENDING, whether or not the message got through.
RequestSend(j) ==
  /\ req[j] = "created"
  /\ \/ /\ \E m \in Messages : Enqueue(m, j)
        /\ \/ req' = [req EXCEPT ![j] = "sent"] /\ NoFault
           \/ req' = [req EXCEPT ![j] = "failed"] /\ Fault("ambiguous")
     \/ UNCHANGED queueVars /\ req' = [req EXCEPT ![j] = "failed"] /\ Fault("sqs")
  /\ UNCHANGED <<jobVars, dataVars, workerVars>>

\* The last update stores queueMessageId, which nothing reads.
RequestLink(j) ==
  /\ req[j] = "sent"
  /\ \/ req' = [req EXCEPT ![j] = "done"] /\ NoFault
     \/ req' = [req EXCEPT ![j] = "failed"] /\ Fault("db")
  /\ UNCHANGED <<jobVars, dataVars, queueVars, workerVars>>

\* A message written or replayed by hand: it may name any id, or none.
HandWrite(m, j) ==
  /\ Enqueue(m, j)
  /\ Fault("replay")
  /\ UNCHANGED <<jobVars, req, dataVars, workerVars>>

\* DELETE FROM companies; the foreign key takes its analyses along.
DeleteCompany(c) ==
  /\ c \in live
  /\ live' = live \ {c}
  /\ analyses' = {a \in analyses : a.company # c}
  /\ UNCHANGED <<jobVars, req, queueVars, workerVars, faults>>

-----------------------------------------------------------------------------
(* The worker: runWorker, processJobMessage, processJob, runAnalysis.      *)

Task(w) == body[inHand[w]]

Goto(w, step) == pc' = [pc EXCEPT ![w] = step] /\ UNCHANGED <<inHand, elapsed, stopping>>

\* Back to the loop head without a delete: the message stays on the queue.
Leave(w) ==
  /\ pc' = [pc EXCEPT ![w] = "poll"]
  /\ inHand' = [inHand EXCEPT ![w] = None]
  /\ UNCHANGED <<elapsed, stopping>>

\* An empty receive, the idle backoff, and round again.
PollEmpty(w) ==
  /\ pc[w] = "poll"
  /\ ~stopping[w]
  /\ \A m \in Messages : place[m] = "queued" => hidden[m] > 0
  /\ UNCHANGED vars

\* The loop ends where isRunning is read.
PollStop(w) ==
  /\ pc[w] = "poll"
  /\ stopping[w]
  /\ pc' = [pc EXCEPT ![w] = "down"]
  /\ UNCHANGED <<jobVars, req, dataVars, queueVars, inHand, elapsed, stopping, faults>>

\* SIGTERM may arrive during the long poll, so stopping is not looked at here.
\* A standard queue may also deliver a message that is still hidden.
Receive(w, m) ==
  /\ pc[w] = "poll"
  /\ place[m] = "queued"
  /\ \/ hidden[m] = 0 /\ NoFault
     \/ hidden[m] > 0 /\ Fault("duplicate")
  /\ hidden' = [hidden EXCEPT ![m] = Visibility]
  /\ pc' = [pc EXCEPT ![w] = "claim"]
  /\ inHand' = [inHand EXCEPT ![w] = m]
  /\ UNCHANGED <<jobVars, req, dataVars, body, place, elapsed, stopping>>

\* The receive throws and the loop backs off; its answer, and the message with
\* it, may be lost on the way.
ReceiveError(w, m) ==
  /\ pc[w] = "poll"
  /\ \/ UNCHANGED hidden /\ Fault("sqs")
     \/ /\ place[m] = "queued"
        /\ hidden' = [hidden EXCEPT ![m] = Visibility]
        /\ Fault("ambiguous")
  /\ UNCHANGED <<jobVars, req, dataVars, body, place, workerVars>>

\* No body, not JSON, no job id: processJobMessage returns, so it is deleted.
Discard(w) ==
  /\ pc[w] = "claim"
  /\ Task(w) = None
  /\ Goto(w, "ack")
  /\ UNCHANGED <<jobVars, req, dataVars, queueVars, faults>>

\* handlerFor(job.jobType); the unimplemented handlers return at once.
Dispatch(type) ==
  IF type = "COMPANY_ANALYSIS" THEN "load"
  ELSE IF type = "UNIMPLEMENTED" THEN "complete"
  ELSE "failUnknown"

Claim(w) ==
  /\ pc[w] = "claim"
  /\ Task(w) # None
  /\ Claimable(Task(w))
  /\ ClaimRow(Task(w))
  /\ \/ Goto(w, Dispatch(info[Task(w)].type)) /\ NoFault
     \/ Leave(w) /\ Fault("ambiguous")
  /\ UNCHANGED <<req, dataVars, queueVars>>

\* No row matched: processJob returns normally, so the caller deletes the message.
ClaimSkip(w) ==
  /\ pc[w] = "claim"
  /\ Task(w) # None
  /\ ~Claimable(Task(w))
  /\ Goto(w, "ack")
  /\ UNCHANGED <<jobVars, req, dataVars, queueVars, faults>>

\* Slip: an error of the claim is swallowed, so the message is deleted.
ClaimErrorSwallowed(w) ==
  /\ pc[w] = "claim"
  /\ Task(w) # None
  /\ Fault("db")
  /\ Goto(w, "ack")
  /\ UNCHANGED <<jobVars, req, dataVars, queueVars>>

ClaimError(w) ==
  /\ pc[w] = "claim"
  /\ Task(w) # None
  /\ Fault("db")
  /\ Leave(w)
  /\ UNCHANGED <<jobVars, req, dataVars, queueVars>>

\* The payload is parsed (ZodError), the company looked up (NotFoundError).
Load(w) ==
  LET i == info[Task(w)] IN
  /\ pc[w] = "load"
  /\ \/ i.company # None /\ Finds(i.company, i.org) /\ Goto(w, "analyze") /\ NoFault
     \/ /\ i.company = None \/ ~Finds(i.company, i.org)
        /\ Goto(w, "failPermanent")
        /\ NoFault
     \/ i.company # None /\ Goto(w, "failRetryable") /\ Fault("db")
  /\ UNCHANGED <<jobVars, req, dataVars, queueVars>>

\* The provider's answer, a refusal or another error that is not retryable,
\* or one that is: a rate limit, a 5xx, a timeout.
Analyze(w) ==
  /\ pc[w] = "analyze"
  /\ \/ \E step \in {"insert", "failPermanent"} :
          pc' = [pc EXCEPT ![w] = step] /\ NoFault
     \/ pc' = [pc EXCEPT ![w] = "failRetryable"] /\ Fault("provider")
  /\ elapsed' = [elapsed EXCEPT ![w] = 0]
  /\ UNCHANGED <<jobVars, req, dataVars, queueVars, inHand, stopping>>

\* The foreign key needs the company; a row of another attempt is a conflict.
CreateIfAbsent(w) ==
  LET j == Task(w) IN
  /\ pc[w] = "insert"
  /\ info[j].company \in live
  /\ analyses' = Insert(j, w)
  /\ \/ Recorded(j) = {} /\ Goto(w, "complete") /\ NoFault
     \/ Recorded(j) # {} /\ Goto(w, "reread") /\ NoFault
     \/ Goto(w, "failRetryable") /\ Fault("ambiguous")
  /\ UNCHANGED <<jobVars, req, live, queueVars>>

\* Slip: an insert that throws is taken for one that conflicted.
InsertErrorSwallowed(w) ==
  /\ pc[w] = "insert"
  /\ \/ info[Task(w)].company \notin live /\ NoFault
     \/ Fault("db")
  /\ Goto(w, "complete")
  /\ UNCHANGED <<jobVars, req, dataVars, queueVars>>

\* A foreign key violation is no AppError, hence retryable, as is a lost database.
InsertError(w) ==
  /\ pc[w] = "insert"
  /\ \/ info[Task(w)].company \notin live /\ NoFault
     \/ Fault("db")
  /\ Goto(w, "failRetryable")
  /\ UNCHANGED <<jobVars, req, dataVars, queueVars>>

\* findByJobId after a conflict; a row that is gone again is a ConflictError.
Reread(w) ==
  LET j == Task(w)
      found == {a \in Recorded(j) : a.org = info[j].org} IN
  /\ pc[w] = "reread"
  /\ \/ found # {} /\ Goto(w, "complete") /\ NoFault
     \/ found = {} /\ Goto(w, "failPermanent") /\ NoFault
     \/ Goto(w, "failRetryable") /\ Fault("db")
  /\ UNCHANGED <<jobVars, req, dataVars, queueVars>>

\* The update to COMPLETED is inside the try block: if it throws, whether or
\* not it was applied, the catch block writes FAILED next.
Complete(w) ==
  /\ pc[w] = "complete"
  /\ \/ UpdateRow(Task(w), "COMPLETED", "null") /\ Goto(w, "ack") /\ NoFault
     \/ /\ UpdateRow(Task(w), "COMPLETED", "null")
        /\ Goto(w, "failRetryable")
        /\ Fault("ambiguous")
     \/ UNCHANGED jobVars /\ Goto(w, "failRetryable") /\ Fault("db")
  /\ UNCHANGED <<req, dataVars, queueVars>>

\* What the update to FAILED stores in errorDetails.
FailureDetails(w) ==
  IF pc[w] = "failRetryable" THEN "retryable"
  ELSE IF pc[w] = "failPermanent" THEN "permanent"
  ELSE errorDetails[Task(w)]

\* Slip: every failure is thrown on.
RethrowsAll(step) == TRUE

\* Slip: every failure is recorded and the message deleted.
RethrowsNone(step) == FALSE

\* The end of the catch block: if (!permanent) throw error.
Rethrows(step) == step = "failRetryable"

\* A retryable failure is thrown on and the message left; the others return.
\* If the update itself throws, the message is left whatever the failure was.
Fail(w) ==
  /\ pc[w] \in {"failRetryable", "failPermanent", "failUnknown"}
  /\ \/ /\ UpdateRow(Task(w), "FAILED", FailureDetails(w))
        /\ \/ Rethrows(pc[w]) /\ Leave(w) /\ NoFault
           \/ ~Rethrows(pc[w]) /\ Goto(w, "ack") /\ NoFault
           \/ Leave(w) /\ Fault("ambiguous")
     \/ UNCHANGED jobVars /\ Leave(w) /\ Fault("db")
  /\ UNCHANGED <<req, dataVars, queueVars>>

\* deleteJobFromQueue; a failed call, or a receipt that is no longer the
\* message's latest, leaves the message where it is.
Ack(w) ==
  /\ pc[w] = "ack"
  /\ \/ /\ place' = [place EXCEPT ![inHand[w]] = "deleted"]
        /\ hidden' = [hidden EXCEPT ![inHand[w]] = 0]
        /\ NoFault
     \/ UNCHANGED <<place, hidden>> /\ Fault("sqs")
  /\ Leave(w)
  /\ UNCHANGED <<jobVars, req, dataVars, body>>

-----------------------------------------------------------------------------
(* Processes that die, are stopped and are started again; time. *)

Crash(w) ==
  /\ pc[w] # "down"
  /\ Fault("crash")
  /\ pc' = [pc EXCEPT ![w] = "down"]
  /\ inHand' = [inHand EXCEPT ![w] = None]
  /\ elapsed' = [elapsed EXCEPT ![w] = 0]
  /\ UNCHANGED <<jobVars, req, dataVars, queueVars, stopping>>

Sigterm(w) ==
  /\ pc[w] # "down"
  /\ ~stopping[w]
  /\ Fault("stop")
  /\ stopping' = [stopping EXCEPT ![w] = TRUE]
  /\ UNCHANGED <<jobVars, req, dataVars, queueVars, pc, inHand, elapsed>>

Restart(w) ==
  /\ pc[w] = "down"
  /\ pc' = [pc EXCEPT ![w] = "poll"]
  /\ stopping' = [stopping EXCEPT ![w] = FALSE]
  /\ UNCHANGED <<jobVars, req, dataVars, queueVars, inHand, elapsed, faults>>

\* With Prompt a worker spends time only asleep, polling or waiting for the
\* provider.
TimePasses ==
  /\ Prompt => \A w \in Workers : pc[w] \in {"poll", "analyze", "down"}
  /\ age' = [j \in Jobs |-> IF status[j] = "PROCESSING" /\ age[j] <= Lease
                              THEN age[j] + 1 ELSE age[j]]
  /\ hidden' = [m \in Messages |-> IF hidden[m] > 0 THEN hidden[m] - 1 ELSE 0]
  /\ elapsed' = [w \in Workers |-> IF pc[w] = "analyze" THEN elapsed[w] + 1 ELSE 0]
  /\ UNCHANGED <<info, status, errorDetails, req, dataVars, body, place,
                 pc, inHand, stopping, faults>>

\* The SDK ends a call at MaxCall.
Tick ==
  /\ \A w \in Workers : pc[w] = "analyze" => elapsed[w] < MaxCall
  /\ TimePasses

-----------------------------------------------------------------------------
Init ==
  /\ info = [j \in Jobs |-> None]
  /\ status = [j \in Jobs |-> "absent"]
  /\ age = [j \in Jobs |-> 0]
  /\ errorDetails = [j \in Jobs |-> "null"]
  /\ req = [j \in Jobs |-> "idle"]
  /\ live = Companies
  /\ analyses = {}
  /\ body = [m \in Messages |-> None]
  /\ place = [m \in Messages |-> "unsent"]
  /\ hidden = [m \in Messages |-> 0]
  /\ pc = [w \in Workers |-> "poll"]
  /\ inHand = [w \in Workers |-> None]
  /\ elapsed = [w \in Workers |-> 0]
  /\ stopping = [w \in Workers |-> FALSE]
  /\ faults = MaxFaults

RequestStep(j) == RequestCreate(j) \/ RequestSend(j) \/ RequestLink(j)

Request(j) ==
  \/ \E org \in Orgs, c \in Companies : RequestFind(j, org, c)
  \/ \E i \in Info : CreateElsewhere(j, i)
  \/ RequestStep(j)

\* Everything a worker does itself, the provider's answer apart.
OwnStep(w) ==
  \/ PollEmpty(w) \/ PollStop(w) \/ (\E m \in Messages : Receive(w, m))
  \/ (\E m \in Messages : ReceiveError(w, m))
  \/ Discard(w) \/ Claim(w) \/ ClaimSkip(w) \/ ClaimError(w)
  \/ Load(w) \/ CreateIfAbsent(w) \/ InsertError(w) \/ Reread(w)
  \/ Complete(w) \/ Fail(w) \/ Ack(w) \/ Restart(w)

WorkerStep(w) == OwnStep(w) \/ Analyze(w)

Disturbance ==
  \/ \E m \in Messages, j \in Jobs \cup {None} : HandWrite(m, j)
  \/ \E c \in Companies : DeleteCompany(c)
  \/ \E w \in Workers : Crash(w) \/ Sigterm(w)

Environment == Disturbance \/ Tick

Next ==
  \/ \E j \in Jobs : Request(j)
  \/ \E w \in Workers : WorkerStep(w)
  \/ Environment

Spec == Init /\ [][Next]_vars

\* A handler that was started runs on, a worker process is scheduled and
\* restarted by its container runtime, and time passes.
Fairness ==
  /\ \A j \in Jobs : WF_vars(RequestStep(j))
  /\ \A w \in Workers : WF_vars(WorkerStep(w))
  /\ WF_vars(Tick)

FairSpec == Spec /\ Fairness

-----------------------------------------------------------------------------
(* Correctness. *)

\* Every variable holds a value the program can give it.
TypeOK ==
  /\ info \in [Jobs -> Info \cup {None}]
  /\ status \in [Jobs -> Statuses \cup {"absent"}]
  /\ age \in [Jobs -> 0..(Lease + 1)]
  /\ errorDetails \in [Jobs -> {"null", "retryable", "permanent"}]
  /\ req \in [Jobs -> RequestSteps]
  /\ live \subseteq Companies
  /\ analyses \subseteq Analysis
  /\ body \in [Messages -> Jobs \cup {None}]
  /\ place \in [Messages -> {"unsent", "queued", "deleted"}]
  /\ hidden \in [Messages -> 0..Visibility]
  /\ pc \in [Workers -> WorkerSteps]
  /\ inHand \in [Workers -> Messages \cup {None}]
  /\ elapsed \in [Workers -> 0..MaxCall]
  /\ stopping \in [Workers -> BOOLEAN]
  /\ faults \in 0..MaxFaults

\* However often a job is delivered, and however many workers run it at once,
\* it leaves one row: "One job produces one row, forever" (company_analyses.ts).
OneAnalysisPerJob ==
  \A a, b \in analyses : a.job = b.job => a = b

\* No analysis crosses tenants, neither in the database nor in what is sent to
\* the provider, even when a row's payload names another tenant's company.
TenantIsolation ==
  /\ \A a \in analyses : a.org = CompanyOrg[a.company] /\ a.org = info[a.job].org
  /\ \A w \in Workers : pc[w] = "analyze" =>
       CompanyOrg[info[Task(w)].company] = info[Task(w)].org

\* An analysis must have been written for the job, if it is finished.
Expected(j) == info[j].type = "COMPANY_ANALYSIS" /\ info[j].company \in live

\* COMPLETED is never reported for an analysis nobody wrote: the row is there
\* unless its company was deleted, whatever crashed or was lost in between.
CompletedHasAnalysis ==
  \A j \in Jobs :
    status[j] = "COMPLETED" /\ Expected(j) => Recorded(j) # {}

\* A job whose request got its message out keeps a message on the queue until
\* some worker has claimed it: nothing loses the first attempt.
PendingKeepsMessage ==
  \A j \in Jobs :
    status[j] = "PENDING" /\ req[j] \in {"sent", "done"} =>
      \E m \in Messages : place[m] = "queued" /\ body[m] = j

\* The worker holds a claim on the job: it claimed it and has not finished.
Holds(w, j) == pc[w] \in Busy /\ Task(w) = j

\* "Two workers racing the same message get one winner" (job-worker.ts): no two
\* workers are ever between claim and record of the same job.  Needs provider
\* calls that fit the lease and workers that are otherwise prompt.
LeaseExclusive ==
  \A v, w \in Workers, j \in Jobs : Holds(v, j) /\ Holds(w, j) => v = w

\* Analyses are never rewritten or dropped while their company exists.
AnalysesPermanent ==
  [][\A a \in analyses : a \in analyses' \/ a.company \notin live']_vars

\* "COMPLETED: terminal. Never re-run" (constants/jobs.ts).
CompletedIsTerminal ==
  [][\A j \in Jobs : status[j] = "COMPLETED" => status'[j] = "COMPLETED"]_vars

\* "A job that can never succeed does not spend money in a loop"
\* (job-worker.ts): once recorded as a permanent failure it is not claimed again.
PermanentFailureNotRerun ==
  [][\A j \in Jobs : (status[j] = "FAILED" /\ errorDetails[j] = "permanent")
                        => status'[j] = "FAILED"]_vars

\* A claim whose worker is gone can be taken over: a message will be delivered
\* for it.  "Without a lease that job is stuck forever" (constants/jobs.ts).
AbandonedClaimRedriven ==
  \A j \in Jobs :
    status[j] = "PROCESSING" /\ (\A w \in Workers : ~Holds(w, j)) =>
      \E m \in Messages : place[m] = "queued" /\ body[m] = j

\* "Re-throwing leaves the queue message in place for redelivery"
\* (job-worker.ts): a job whose failure was retryable has a message left.
RetryableFailureRedriven ==
  \A j \in Jobs :
    status[j] = "FAILED" /\ errorDetails[j] = "retryable" =>
      \E m \in Messages : place[m] = "queued" /\ body[m] = j

\* "A slow call fails on our terms rather than by the message becoming visible
\* again" (ai/config.ts): no message is delivered anew while the provider is
\* being asked about it.  Needs calls that end within the visibility timeout.
CallKeepsMessage ==
  \A w \in Workers :
    pc[w] = "analyze" /\ place[inHand[w]] = "queued" => hidden[inHand[w]] > 0

\* An accepted job comes to an end: COMPLETED, or FAILED for good.
Settled(j) ==
  \/ status[j] = "COMPLETED"
  \/ status[j] = "FAILED" /\ errorDetails[j] # "retryable"

EventuallySettled ==
  \A j \in Jobs : req[j] \in {"sent", "done"} ~> Settled(j)

\* A job is accepted on its terms the moment its row exists.
AcceptedTerms == [j \in Jobs |-> IF status[j] = "absent" THEN None ELSE info[j]]

Ledger == INSTANCE AnalysisLedger WITH
  Attempts <- Workers, Terms <- Info,
  terms <- AcceptedTerms, answers <- analyses, open <- live

\* The pipeline keeps the promises of AnalysisLedger: accepted terms never
\* change, and a job is answered at most once and only on those terms.
LedgerSpec == Ledger!Spec

-----------------------------------------------------------------------------
(* Why they hold: the inductive invariant of the untimed properties.       *)

\* A job's terms are fixed by its request before its row exists.
RowsFollowRequests ==
  \A j \in Jobs :
    /\ req[j] = "idle" <=> info[j] = None
    /\ req[j] \in {"idle", "found"} => status[j] = "absent"
    /\ req[j] \in {"created", "sent", "done"} => status[j] # "absent"

\* A worker past the poll holds a message that was sent; past the claim, the
\* message names a row; and it has looked up what the later awaits rely on.
WorkersInOrder ==
  \A w \in Workers :
    /\ pc[w] \in Busy \cup {"claim", "ack"} =>
         inHand[w] \in Messages /\ place[inHand[w]] # "unsent"
    /\ pc[w] \in Busy => Task(w) \in Jobs /\ status[Task(w)] # "absent"
    /\ pc[w] \in {"analyze", "insert", "reread"} =>
         /\ info[Task(w)].company \in Companies
         /\ CompanyOrg[info[Task(w)].company] = info[Task(w)].org

\* A row's columns are its job's, and its company exists: the delete cascades.
AnalysesMatchJobs ==
  \A a \in analyses :
    /\ info[a.job] # None
    /\ a.org = info[a.job].org
    /\ a.company = info[a.job].company
    /\ a.org = CompanyOrg[a.company]
    /\ a.company \in live

\* A worker about to report success has seen the row, or its company went.
CompletionsBacked ==
  \A w \in Workers :
    pc[w] = "complete" /\ Expected(Task(w)) => Recorded(Task(w)) # {}

\* The message that keeps a PENDING job is not one about to be deleted.
PendingMessageSafe ==
  \A j \in Jobs :
    status[j] = "PENDING" /\ req[j] \in {"sent", "done"} =>
      \E m \in Messages :
        /\ place[m] = "queued"
        /\ body[m] = j
        /\ \A w \in Workers : pc[w] = "ack" => inHand[w] # m

Inductive ==
  /\ TypeOK
  /\ RowsFollowRequests
  /\ WorkersInOrder
  /\ AnalysesMatchJobs
  /\ OneAnalysisPerJob
  /\ CompletionsBacked
  /\ CompletedHasAnalysis
  /\ PendingMessageSafe

\* A deployment whose provider calls fit the lease, on workers that spend time
\* nowhere else.
Tuned == Prompt /\ MaxCall <= Lease

\* While a worker holds a claim the row says so and the claim is not stale.  A
\* lost answer to the update to COMPLETED is the one exception.
ClaimsCurrent ==
  \A w \in Workers :
    /\ pc[w] # "analyze" => elapsed[w] = 0
    /\ pc[w] \in Busy =>
         /\ \/ status[Task(w)] = "PROCESSING"
            \/ /\ status[Task(w)] = "COMPLETED"
               /\ pc[w] = "failRetryable"
               /\ "ambiguous" \in Faults
         /\ age[Task(w)] <= Lease
         /\ pc[w] \in {"load", "analyze"} => age[Task(w)] = elapsed[w]

\* A deployment whose provider calls fit the visibility timeout, with a queue
\* that delivers a message to one worker at a time and nobody writing to it.
CallsFitVisibility == Prompt /\ MaxCall < Visibility
OneDelivery == CallsFitVisibility /\ {"duplicate", "replay"} \cap Faults = {}

\* Of that, one whose workers are not killed and hear of what became of a call.
NothingLost == OneDelivery /\ {"ambiguous", "sqs", "crash"} \cap Faults = {}

Holding == Busy \cup {"claim", "ack"}

\* A message in hand stays hidden for at least the rest of the visibility timeout.
HeldHidden ==
  \A w \in Workers :
    /\ pc[w] # "analyze" => elapsed[w] = 0
    /\ pc[w] \in Holding /\ place[inHand[w]] = "queued" =>
         /\ hidden[inHand[w]] > 0
         /\ pc[w] \in {"claim", "load", "analyze"} =>
              hidden[inHand[w]] >= Visibility - elapsed[w]

\* One message per job, written by its request.
OneMessage ==
  \A m \in Messages :
    /\ place[m] # "unsent" => body[m] \in Jobs
    /\ place[m] # "unsent" => req[body[m]] \notin {"idle", "found", "created"}
    /\ \A n \in Messages :
         place[m] # "unsent" /\ place[n] # "unsent" /\ body[m] = body[n] => m = n

\* No two workers hold one message, and what a worker holds is not deleted.
HandsApart ==
  \A v \in Workers :
    pc[v] \in Holding =>
      /\ place[inHand[v]] = "queued"
      /\ \A w \in Workers : pc[w] \in Holding /\ inHand[v] = inHand[w] => v = w

\* The message of a job whose failure was retryable is not about to be deleted;
\* a job of an unknown type never fails that way.
AckSafe ==
  /\ \A j \in Jobs :
       info[j] = None \/ info[j].type = "UNKNOWN" => errorDetails[j] = "null"
  /\ \A w \in Workers :
       /\ pc[w] \in Busy =>
            (pc[w] = "failUnknown" <=> info[Task(w)].type = "UNKNOWN")
       /\ pc[w] = "ack" =>
            ~(status[Task(w)] = "FAILED" /\ errorDetails[Task(w)] = "retryable")

\* The only message of a job that failed for good is one about to be deleted.
PermanentDone ==
  /\ \A j \in Jobs : req[j] = "created" => status[j] = "PENDING"
  /\ \A j \in Jobs, m \in Messages :
       status[j] = "FAILED" /\ errorDetails[j] = "permanent" /\ place[m] = "queued"
         /\ body[m] = j => \E w \in Workers : pc[w] = "ack" /\ inHand[w] = m

\* Of that again, one whose lease is shorter than its visibility timeout: by the
\* time a message comes back, the claim it was received for has run out.
LeaseRunsOut == OneDelivery /\ Lease < Visibility

\* A job that is PROCESSING keeps its message, which will not be delivered before
\* the claim is stale; so whoever is about to claim the job can.
ClaimsRedriven ==
  /\ \A j \in Jobs : status[j] = "PROCESSING" =>
       \E m \in Messages : place[m] = "queued" /\ body[m] = j
  /\ \A m \in Messages :
       place[m] = "queued" /\ body[m] \in Jobs /\ status[body[m]] = "PROCESSING" =>
         age[body[m]] + hidden[m] > Lease
  /\ \A w \in Workers :
       /\ pc[w] = "claim" /\ Task(w) \in Jobs /\ status[Task(w)] = "PROCESSING" =>
            age[Task(w)] > Lease
       /\ pc[w] = "ack" /\ Task(w) \in Jobs => status[Task(w)] # "PROCESSING"
=============================================================================
