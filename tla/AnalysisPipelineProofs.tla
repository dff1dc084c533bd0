----------------------- MODULE AnalysisPipelineProofs -----------------------
(***************************************************************************)
(* Proofs about AnalysisPipeline, for every number of workers, jobs,       *)
(* messages, companies and tenants, every speed and every fault.           *)
(***************************************************************************)
EXTENDS AnalysisPipeline, TLAPS

LEMMA MaxCallNat == MaxCall \in Nat
BY TimeAssumption DEF MaxCall

LEMMA InitInductive == Init => Inductive
BY TimeAssumption, FaultAssumption, MaxCallNat, NoneAssumption
DEF Init, Inductive, TypeOK, RowsFollowRequests, WorkersInOrder, AnalysesMatchJobs,
    OneAnalysisPerJob, CompletionsBacked, CompletedHasAnalysis, PendingMessageSafe,
    RequestSteps, WorkerSteps, Busy

LEMMA TypeStep == Inductive /\ [Next]_vars => TypeOK'
<1> SUFFICES ASSUME Inductive, [Next]_vars PROVE TypeOK'
  OBVIOUS
<1> USE DEF TypeOK, RequestSteps, WorkerSteps, Busy, Statuses, NoFault,
            jobVars, dataVars, queueVars, workerVars
<1>0. TypeOK
  BY DEF Inductive
<1>f. ASSUME NEW k, Fault(k) PROVE faults' \in 0..MaxFaults
  BY <1>0, <1>f, FaultAssumption DEF Fault
<1>1. ASSUME NEW j \in Jobs, NEW org \in Orgs, NEW c \in Companies,
             RequestFind(j, org, c)
      PROVE  TypeOK'
  BY <1>0, <1>1 DEF RequestFind, Info, JobTypes
<1>2. ASSUME NEW j \in Jobs, RequestCreate(j) PROVE TypeOK'
  BY <1>0, <1>f, <1>2 DEF RequestCreate, CreateRow
<1>3. ASSUME NEW j \in Jobs, NEW i \in Info, CreateElsewhere(j, i) PROVE TypeOK'
  BY <1>0, <1>3 DEF CreateElsewhere, CreateRow
<1>4. ASSUME NEW j \in Jobs, RequestSend(j) PROVE TypeOK'
  BY <1>0, <1>f, <1>4 DEF RequestSend, Enqueue
<1>5. ASSUME NEW j \in Jobs, RequestLink(j) PROVE TypeOK'
  BY <1>0, <1>f, <1>5 DEF RequestLink
<1>6. ASSUME NEW m \in Messages, NEW j \in Jobs \cup {None}, HandWrite(m, j)
      PROVE  TypeOK'
  BY <1>0, <1>f, <1>6 DEF HandWrite, Enqueue
<1>7. ASSUME NEW c \in Companies, DeleteCompany(c) PROVE TypeOK'
  BY <1>0, <1>7 DEF DeleteCompany
<1>8. ASSUME NEW w \in Workers, PollEmpty(w) \/ PollStop(w) PROVE TypeOK'
  BY <1>0, <1>8 DEF PollEmpty, PollStop, vars
<1>9. ASSUME NEW w \in Workers, NEW m \in Messages, Receive(w, m) PROVE TypeOK'
  BY <1>0, <1>f, <1>9, TimeAssumption DEF Receive
<1>e. ASSUME NEW w \in Workers, NEW m \in Messages, ReceiveError(w, m) PROVE TypeOK'
  BY <1>0, <1>f, <1>e, TimeAssumption DEF ReceiveError
<1>10. ASSUME NEW w \in Workers, Discard(w) \/ ClaimSkip(w) PROVE TypeOK'
  BY <1>0, <1>10 DEF Discard, ClaimSkip, Goto
<1>11. ASSUME NEW w \in Workers, Claim(w) PROVE TypeOK'
  <2>1. ASSUME NEW t PROVE Dispatch(t) \in WorkerSteps
    BY DEF Dispatch
  <2>2. /\ status' \in [Jobs -> Statuses \cup {"absent"}]
        /\ age' \in [Jobs -> 0..(Lease + 1)]
    <3>1. ClaimRow(Task(w))
      BY <1>11, Zenon DEF Claim
    <3>2. status' \in [Jobs -> Statuses \cup {"absent"}]
      BY <1>0, <3>1 DEF ClaimRow
    <3>3. age' \in [Jobs -> 0..(Lease + 1)]
      <4>1. /\ age \in [Jobs -> 0..(Lease + 1)]
            /\ 0 \in 0..(Lease + 1)
            /\ age' = [age EXCEPT ![Task(w)] = 0]
        BY <1>0, <3>1, TimeAssumption DEF ClaimRow
      <4>2. QED
        BY ONLY <4>1
    <3>4. QED
      BY <3>2, <3>3
  <2>3. /\ pc' \in [Workers -> WorkerSteps]
        /\ inHand' \in [Workers -> Messages \cup {None}]
        /\ elapsed' = elapsed /\ stopping' = stopping
        /\ faults' \in 0..MaxFaults
    BY <1>0, <1>f, <1>11, <2>1 DEF Claim, Goto, Leave
  <2>4. QED
    BY <1>0, <1>11, <2>2, <2>3 DEF Claim, ClaimRow
<1>12. ASSUME NEW w \in Workers, ClaimError(w) PROVE TypeOK'
  BY <1>0, <1>f, <1>12 DEF ClaimError, Leave
<1>13. ASSUME NEW w \in Workers, Load(w) PROVE TypeOK'
  BY <1>0, <1>f, <1>13 DEF Load, Goto
<1>14. ASSUME NEW w \in Workers, Analyze(w) PROVE TypeOK'
  BY <1>0, <1>f, <1>14, MaxCallNat DEF Analyze
<1>15. ASSUME NEW w \in Workers, CreateIfAbsent(w) PROVE TypeOK'
  <2>1. /\ Task(w) \in Jobs
        /\ info[Task(w)] \in Info
        /\ info[Task(w)].company \in Companies
    BY <1>0, <1>15 DEF Inductive, RowsFollowRequests, WorkersInOrder, CreateIfAbsent
  <2>2. Row(Task(w), w) \in Analysis
    BY <2>1 DEF Row, Analysis, Info
  <2>3. analyses' \subseteq Analysis
    BY <1>0, <1>15, <2>2 DEF CreateIfAbsent, Insert
  <2>4. QED
    BY <1>0, <1>f, <1>15, <2>3 DEF CreateIfAbsent, Goto
<1>16. ASSUME NEW w \in Workers, InsertError(w) PROVE TypeOK'
  BY <1>0, <1>f, <1>16 DEF InsertError, Goto
<1>17. ASSUME NEW w \in Workers, Reread(w) PROVE TypeOK'
  BY <1>0, <1>f, <1>17 DEF Reread, Goto
<1>18. ASSUME NEW w \in Workers, Complete(w) PROVE TypeOK'
  BY <1>0, <1>f, <1>18, TimeAssumption DEF Complete, UpdateRow, Goto
<1>19. ASSUME NEW w \in Workers, Fail(w) PROVE TypeOK'
  BY <1>0, <1>f, <1>19, TimeAssumption
  DEF Fail, UpdateRow, Goto, Leave, FailureDetails, Rethrows
<1>20. ASSUME NEW w \in Workers, Ack(w) PROVE TypeOK'
  BY <1>0, <1>f, <1>20, TimeAssumption DEF Ack, Leave
<1>21. ASSUME NEW w \in Workers, Crash(w) \/ Sigterm(w) \/ Restart(w) PROVE TypeOK'
  <2>1. stopping' \in [Workers -> BOOLEAN]
    BY <1>0, <1>21, Zenon DEF Crash, Sigterm, Restart
  <2>2. QED
    BY <1>0, <1>f, <1>21, <2>1, MaxCallNat DEF Crash, Sigterm, Restart
<1>22. CASE Tick
  BY <1>0, <1>22, TimeAssumption, MaxCallNat DEF Tick, TimePasses
<1>23. CASE UNCHANGED vars
  BY <1>0, <1>23 DEF vars
<1>24. QED
  BY <1>1, <1>2, <1>3, <1>4, <1>5, <1>6, <1>7, <1>8, <1>9, <1>e, <1>10, <1>11, <1>12,
     <1>13, <1>14, <1>15, <1>16, <1>17, <1>18, <1>19, <1>20, <1>21, <1>22, <1>23
  DEF Next, Request, RequestStep, WorkerStep, OwnStep, Environment, Disturbance

-----------------------------------------------------------------------------
(* Rows. *)

\* Workers and the environment neither create rows nor change what they are about.
LEMMA RowsStable ==
  ASSUME Inductive,
         (\E w \in Workers : WorkerStep(w)) \/ Environment \/ UNCHANGED vars
  PROVE  /\ info' = info
         /\ req' = req
         /\ \A j \in Jobs : status'[j] = "absent" <=> status[j] = "absent"
<1> USE DEF jobVars, dataVars, queueVars, workerVars
<1>0. TypeOK /\ WorkersInOrder
  BY DEF Inductive
<1>1. ASSUME NEW w \in Workers, Claim(w)
      PROVE  /\ info' = info
             /\ req' = req
             /\ \A j \in Jobs : status'[j] = "absent" <=> status[j] = "absent"
  <2>1. /\ Claimable(Task(w))
        /\ ClaimRow(Task(w))
        /\ req' = req
    BY <1>1, Zenon DEF Claim
  <2>2. status[Task(w)] # "absent"
    BY <2>1 DEF Claimable
  <2>3. QED
    BY <1>0, <2>1, <2>2 DEF ClaimRow, TypeOK
<1>2. ASSUME NEW w \in Workers, Complete(w) \/ Fail(w)
      PROVE  /\ info' = info
             /\ req' = req
             /\ \A j \in Jobs : status'[j] = "absent" <=> status[j] = "absent"
  <2>1. status[Task(w)] # "absent"
    BY <1>0, <1>2 DEF WorkersInOrder, Complete, Fail, Busy
  <2>2. QED
    BY <1>0, <1>2, <2>1 DEF Complete, Fail, UpdateRow, TypeOK
<1>3. ASSUME NEW w \in Workers, WorkerStep(w), ~Claim(w), ~Complete(w), ~Fail(w)
      PROVE  info' = info /\ req' = req /\ status' = status
  BY <1>3 DEF WorkerStep, OwnStep, PollEmpty, PollStop, Receive, ReceiveError,
              Discard, ClaimSkip, ClaimError,
     Load, Analyze, CreateIfAbsent, InsertError, Reread, Ack, Restart, vars
<1>4. ASSUME Environment \/ UNCHANGED vars
      PROVE  info' = info /\ req' = req /\ status' = status
  BY <1>4
     DEF Environment, Disturbance, HandWrite, DeleteCompany, Crash, Sigterm, Tick,
         TimePasses, vars
<1>5. QED
  BY <1>1, <1>2, <1>3, <1>4

LEMMA RowsStep == Inductive /\ [Next]_vars => RowsFollowRequests'
<1> SUFFICES ASSUME Inductive, [Next]_vars PROVE RowsFollowRequests'
  OBVIOUS
<1> USE DEF jobVars, dataVars, queueVars, workerVars
<1>0. TypeOK /\ RowsFollowRequests
  BY DEF Inductive
<1>1. CASE (\E w \in Workers : WorkerStep(w)) \/ Environment \/ UNCHANGED vars
  BY <1>0, <1>1, RowsStable DEF RowsFollowRequests
<1>2. ASSUME NEW j \in Jobs, NEW org \in Orgs, NEW c \in Companies,
             RequestFind(j, org, c)
      PROVE  RowsFollowRequests'
  <2>1. [org |-> org, type |-> "COMPANY_ANALYSIS", company |-> c] \in Info
    BY DEF Info, JobTypes
  <2>2. QED
    BY <1>0, <1>2, <2>1, NoneAssumption DEF RequestFind, RowsFollowRequests, TypeOK
<1>3. ASSUME NEW j \in Jobs, NEW i \in Info, CreateElsewhere(j, i)
      PROVE  RowsFollowRequests'
  BY <1>0, <1>3, NoneAssumption DEF CreateElsewhere, CreateRow, RowsFollowRequests, TypeOK
<1>4. ASSUME NEW j \in Jobs, RequestStep(j) PROVE RowsFollowRequests'
  BY <1>0, <1>4
  DEF RequestStep, RequestCreate, RequestSend, RequestLink, CreateRow,
      RowsFollowRequests, TypeOK
<1>5. QED
  BY <1>1, <1>2, <1>3, <1>4 DEF Next, Request

\* What a row is about never changes, and rows are not deleted.
LEMMA RowsKept ==
  ASSUME Inductive, [Next]_vars, NEW j \in Jobs, status[j] # "absent"
  PROVE  info'[j] = info[j] /\ status'[j] # "absent"
<1> USE DEF jobVars, dataVars, queueVars, workerVars
<1>0. TypeOK /\ RowsFollowRequests
  BY DEF Inductive
<1>1. CASE (\E w \in Workers : WorkerStep(w)) \/ Environment \/ UNCHANGED vars
  BY <1>1, RowsStable
<1>2. ASSUME NEW k \in Jobs, Request(k)
      PROVE  info'[j] = info[j] /\ status'[j] # "absent"
  BY <1>0, <1>2
  DEF Request, RequestFind, CreateElsewhere, RequestStep, RequestCreate, RequestSend,
      RequestLink, CreateRow, RowsFollowRequests, TypeOK
<1>3. QED
  BY <1>1, <1>2 DEF Next

\* A message that was sent stays sent and keeps its body.
LEMMA MessagesKept ==
  ASSUME Inductive, [Next]_vars, NEW m \in Messages, place[m] # "unsent"
  PROVE  body'[m] = body[m] /\ place'[m] # "unsent"
<1> USE DEF jobVars, dataVars, queueVars, workerVars
<1>0. TypeOK
  BY DEF Inductive
<1>1. ASSUME NEW k, NEW n \in Messages, Enqueue(n, k)
      PROVE  body'[m] = body[m] /\ place'[m] # "unsent"
  BY <1>0, <1>1 DEF Enqueue, TypeOK
<1>2. ASSUME NEW w \in Workers, Ack(w)
      PROVE  body'[m] = body[m] /\ place'[m] # "unsent"
  BY <1>0, <1>2 DEF Ack, TypeOK
<1>3. ASSUME NEW w \in Workers, WorkerStep(w), ~Ack(w)
      PROVE  body' = body /\ place' = place
  BY <1>3 DEF WorkerStep, OwnStep, PollEmpty, PollStop, Receive, ReceiveError,
              Discard, Claim, ClaimSkip,
     ClaimError, Load, Analyze, CreateIfAbsent, InsertError, Reread, Complete, Fail,
     Restart, vars
<1>4. ASSUME NEW j \in Jobs, Request(j)
      PROVE  body'[m] = body[m] /\ place'[m] # "unsent"
  BY <1>1, <1>4 DEF Request, RequestFind, CreateElsewhere, RequestStep, RequestCreate,
     RequestSend, RequestLink
<1>5. CASE Environment
  BY <1>1, <1>5
     DEF Environment, Disturbance, HandWrite, DeleteCompany, Crash, Sigterm, Tick,
         TimePasses
<1>6. QED
  BY <1>2, <1>3, <1>4, <1>5 DEF Next, vars

-----------------------------------------------------------------------------
(* Workers. *)

\* A worker stays where it is unless it takes a step or dies.
LEMMA MovesItself ==
  ASSUME Inductive, [Next]_vars, NEW v \in Workers
  PROVE  \/ pc'[v] = pc[v] /\ inHand'[v] = inHand[v]
         \/ pc'[v] = "down"
         \/ WorkerStep(v)
<1> USE DEF jobVars, dataVars, queueVars, workerVars
<1>0. TypeOK
  BY DEF Inductive
<1>1. ASSUME NEW w \in Workers, WorkerStep(w), w # v
      PROVE  pc'[v] = pc[v] /\ inHand'[v] = inHand[v]
  BY <1>0, <1>1
  DEF WorkerStep, OwnStep, PollEmpty, PollStop, Receive, ReceiveError,
      Discard, Claim, ClaimSkip, ClaimError,
      Load, Analyze, CreateIfAbsent, InsertError, Reread, Complete, Fail, Ack, Restart,
      Goto, Leave, TypeOK, vars
<1>2. ASSUME NEW j \in Jobs, Request(j)
      PROVE  pc'[v] = pc[v] /\ inHand'[v] = inHand[v]
  BY <1>2 DEF Request, RequestFind, CreateElsewhere, RequestStep, RequestCreate,
     RequestSend, RequestLink
<1>3. CASE Environment
  BY <1>0, <1>3
  DEF Environment, Disturbance, HandWrite, DeleteCompany, Crash, Sigterm, Tick, TimePasses, TypeOK
<1>4. QED
  BY <1>1, <1>2, <1>3 DEF Next, vars

\* Every step of a worker moves it along the order of its awaits.
LEMMA WorkersStep == Inductive /\ [Next]_vars => WorkersInOrder'
<1> DEFINE Ordered(w) ==
             /\ pc'[w] \in Busy \cup {"claim", "ack"} =>
                  inHand'[w] \in Messages /\ place'[inHand'[w]] # "unsent"
             /\ pc'[w] \in Busy => Task(w)' \in Jobs /\ status'[Task(w)'] # "absent"
             /\ pc'[w] \in {"analyze", "insert", "reread"} =>
                  /\ info'[Task(w)'].company \in Companies
                  /\ CompanyOrg[info'[Task(w)'].company] = info'[Task(w)'].org
<1> SUFFICES ASSUME Inductive, [Next]_vars, NEW v \in Workers PROVE Ordered(v)
  BY DEF WorkersInOrder, Task
<1> USE DEF jobVars, dataVars, queueVars, workerVars, Busy, Task
<1>0. TypeOK /\ RowsFollowRequests /\ WorkersInOrder
  BY DEF Inductive
<1>a. ASSUME inHand[v] \in Messages, place[inHand[v]] # "unsent", inHand'[v] = inHand[v]
      PROVE  Task(v)' = Task(v) /\ place'[inHand'[v]] # "unsent"
  BY <1>a, MessagesKept
<1>b. ASSUME Task(v) \in Jobs, status[Task(v)] # "absent"
      PROVE  info'[Task(v)] = info[Task(v)] /\ status'[Task(v)] # "absent"
  BY <1>b, RowsKept
<1>1. CASE pc'[v] = pc[v] /\ inHand'[v] = inHand[v]
  BY <1>0, <1>1, <1>a, <1>b DEF WorkersInOrder
<1>2. CASE pc'[v] \in {"poll", "down"}
  BY <1>2
<1>3. ASSUME NEW m \in Messages, Receive(v, m) PROVE Ordered(v)
  BY <1>0, <1>3 DEF Receive, TypeOK
<1>c. ASSUME NEW m \in Messages, ReceiveError(v, m) PROVE Ordered(v)
  BY <1>1, <1>c DEF ReceiveError
<1>4. CASE Discard(v) \/ ClaimSkip(v)
  BY <1>0, <1>4, <1>a DEF Discard, ClaimSkip, Goto, WorkersInOrder, TypeOK
<1>5. CASE Claim(v)
  BY <1>0, <1>5, <1>a, <1>b
  DEF Claim, Claimable, Goto, Leave, Dispatch, WorkersInOrder, TypeOK
<1>6. CASE Load(v)
  BY <1>0, <1>6, <1>a, <1>b DEF Load, Finds, Goto, WorkersInOrder, TypeOK
<1>7. CASE Analyze(v) \/ CreateIfAbsent(v) \/ InsertError(v)
  BY <1>0, <1>7, <1>a, <1>b
  DEF Analyze, CreateIfAbsent, InsertError, Goto, WorkersInOrder, TypeOK
<1>8. CASE Reread(v) \/ Complete(v)
  BY <1>0, <1>8, <1>a, <1>b DEF Reread, Complete, Goto, WorkersInOrder, TypeOK
<1>9. CASE Fail(v)
  BY <1>0, <1>9, <1>a DEF Fail, Goto, Leave, WorkersInOrder, TypeOK
<1>10. CASE PollEmpty(v) \/ PollStop(v) \/ ClaimError(v) \/ Ack(v) \/ Restart(v)
  BY <1>0, <1>1, <1>2, <1>10
  DEF PollEmpty, PollStop, ClaimError, Ack, Restart, Leave, TypeOK, vars
<1>11. QED
  BY <1>1, <1>2, <1>3, <1>c, <1>4, <1>5, <1>6, <1>7, <1>8, <1>9, <1>10, MovesItself
  DEF WorkerStep, OwnStep

-----------------------------------------------------------------------------
(* Analyses. *)

\* The terms of a job are set once.
LEMMA InfoKept ==
  ASSUME Inductive, [Next]_vars, NEW j \in Jobs, info[j] # None
  PROVE  info'[j] = info[j]
<1> USE DEF jobVars, dataVars, queueVars, workerVars
<1>0. TypeOK /\ RowsFollowRequests
  BY DEF Inductive
<1>1. CASE (\E w \in Workers : WorkerStep(w)) \/ Environment \/ UNCHANGED vars
  BY <1>1, RowsStable
<1>2. ASSUME NEW k \in Jobs, Request(k) PROVE info'[j] = info[j]
  BY <1>0, <1>2
  DEF Request, RequestFind, CreateElsewhere, RequestStep, RequestCreate, RequestSend,
      RequestLink, RowsFollowRequests, TypeOK
<1>3. QED
  BY <1>1, <1>2 DEF Next

\* Only an insert and the deletion of a company touch what is stored.
LEMMA DataTouched ==
  ASSUME [Next]_vars
  PROVE  \/ live' = live /\ analyses' = analyses
         \/ \E w \in Workers : CreateIfAbsent(w)
         \/ \E c \in Companies : DeleteCompany(c)
<1> USE DEF jobVars, dataVars, queueVars, workerVars
<1>1. ASSUME NEW j \in Jobs, Request(j) PROVE live' = live /\ analyses' = analyses
  BY <1>1 DEF Request, RequestFind, CreateElsewhere, RequestStep, RequestCreate,
     RequestSend, RequestLink
<1>2. ASSUME NEW w \in Workers, WorkerStep(w), ~CreateIfAbsent(w)
      PROVE  live' = live /\ analyses' = analyses
  BY <1>2 DEF WorkerStep, OwnStep, PollEmpty, PollStop, Receive, ReceiveError,
              Discard, Claim, ClaimSkip,
     ClaimError, Load, Analyze, InsertError, Reread, Complete, Fail, Ack, Restart, vars
<1>3. ASSUME Environment, ~\E c \in Companies : DeleteCompany(c)
      PROVE  live' = live /\ analyses' = analyses
  BY <1>3 DEF Environment, Disturbance, HandWrite, Crash, Sigterm, Tick, TimePasses
<1>4. QED
  BY <1>1, <1>2, <1>3 DEF Next, vars

\* The row an insert may add: a job's first, with the job's own columns.
LEMMA InsertedRow ==
  ASSUME Inductive, NEW w \in Workers, CreateIfAbsent(w)
  PROVE  /\ Task(w) \in Jobs
         /\ info[Task(w)] \in Info
         /\ info[Task(w)].org = CompanyOrg[info[Task(w)].company]
         /\ info[Task(w)].company \in live
         /\ live' = live
         /\ \/ analyses' = analyses /\ Recorded(Task(w)) # {}
            \/ analyses' = analyses \cup {Row(Task(w), w)} /\ Recorded(Task(w)) = {}
BY DEF Inductive, TypeOK, RowsFollowRequests, WorkersInOrder, Busy, CreateIfAbsent, Insert

LEMMA AnalysesStep ==
  Inductive /\ [Next]_vars => AnalysesMatchJobs' /\ OneAnalysisPerJob'
<1> SUFFICES ASSUME Inductive, [Next]_vars
             PROVE  AnalysesMatchJobs' /\ OneAnalysisPerJob'
  OBVIOUS
<1>0. TypeOK /\ AnalysesMatchJobs /\ OneAnalysisPerJob
  BY DEF Inductive
<1>1. \A a \in analyses : a.job \in Jobs /\ info'[a.job] = info[a.job]
  BY <1>0, InfoKept DEF AnalysesMatchJobs, TypeOK, Analysis
<1>2. CASE live' = live /\ analyses' = analyses
  BY <1>0, <1>1, <1>2 DEF AnalysesMatchJobs, OneAnalysisPerJob
<1>3. ASSUME NEW c \in Companies, DeleteCompany(c)
      PROVE  AnalysesMatchJobs' /\ OneAnalysisPerJob'
  BY <1>0, <1>1, <1>3 DEF DeleteCompany, AnalysesMatchJobs, OneAnalysisPerJob
<1>4. ASSUME NEW w \in Workers, CreateIfAbsent(w)
      PROVE  AnalysesMatchJobs' /\ OneAnalysisPerJob'
  <2> DEFINE j == Task(w)
  <2>1. info' = info /\ info[j] # None
    BY <1>4, InsertedRow, NoneAssumption DEF CreateIfAbsent, jobVars
  <2>2. CASE analyses' = analyses
    BY <1>0, <1>4, <2>2, <1>2, InsertedRow
  <2>3. CASE analyses' = analyses \cup {Row(j, w)} /\ Recorded(j) = {}
    <3>1. AnalysesMatchJobs'
      BY <1>0, <1>4, <2>1, <2>3, InsertedRow DEF AnalysesMatchJobs, Row
    <3>2. OneAnalysisPerJob'
      BY <1>0, <2>3 DEF OneAnalysisPerJob, Row, Recorded
    <3>3. QED
      BY <3>1, <3>2
  <2>4. QED
    BY <1>4, <2>2, <2>3, InsertedRow
<1>5. QED
  BY <1>2, <1>3, <1>4, DataTouched

-----------------------------------------------------------------------------
(* Completion. *)

\* Once written, an analysis is missing only if its company is.
LEMMA BackedKept ==
  ASSUME Inductive, [Next]_vars, NEW j \in Jobs, info'[j] = info[j],
         Expected(j) => Recorded(j) # {}
  PROVE  Expected(j)' => Recorded(j)' # {}
<1>0. TypeOK /\ AnalysesMatchJobs
  BY DEF Inductive
<1>1. CASE live' = live /\ analyses' = analyses
  BY <1>1 DEF Expected, Recorded
<1>2. ASSUME NEW c \in Companies, DeleteCompany(c)
      PROVE  Expected(j)' => Recorded(j)' # {}
  <2>1. \A a \in Recorded(j) : a.company = info[j].company
    BY <1>0 DEF AnalysesMatchJobs, Recorded
  <2>2. QED
    BY <1>2, <2>1 DEF DeleteCompany, Expected, Recorded
<1>3. ASSUME NEW w \in Workers, CreateIfAbsent(w)
      PROVE  Expected(j)' => Recorded(j)' # {}
  BY <1>3, InsertedRow DEF Expected, Recorded
<1>4. QED
  BY <1>1, <1>2, <1>3, DataTouched

LEMMA CompletionsStep == Inductive /\ [Next]_vars => CompletionsBacked'
<1> SUFFICES ASSUME Inductive, [Next]_vars, NEW v \in Workers, pc'[v] = "complete"
             PROVE  Expected(Task(v))' => Recorded(Task(v))' # {}
  BY DEF CompletionsBacked
<1> USE DEF jobVars, dataVars, queueVars, workerVars
<1>0. TypeOK /\ RowsFollowRequests /\ WorkersInOrder /\ CompletionsBacked
  BY DEF Inductive
<1>1. CASE pc[v] = "complete" /\ inHand'[v] = inHand[v]
  <2>1. /\ Task(v) \in Jobs
        /\ Task(v)' = Task(v)
        /\ info'[Task(v)] = info[Task(v)]
        /\ Expected(Task(v)) => Recorded(Task(v)) # {}
    BY <1>0, <1>1, MessagesKept, RowsKept
    DEF WorkersInOrder, CompletionsBacked, Busy, Task
  <2> DEFINE j == Task(v)
  <2>2. Expected(j)' => Recorded(j)' # {}
    BY <2>1, BackedKept
  <2>3. QED
    BY <2>1, <2>2
<1>2. CASE Claim(v)
  <2>1. info[Task(v)].type # "COMPANY_ANALYSIS" /\ Task(v)' = Task(v) /\ info' = info
    BY <1>0, <1>2 DEF Claim, ClaimRow, Goto, Leave, Dispatch, TypeOK, Task
  <2>2. QED
    BY <2>1 DEF Expected
<1>3. CASE CreateIfAbsent(v)
  <2> DEFINE j == Task(v)
  <2>1. Recorded(j) = {} /\ Task(v)' = j
    BY <1>0, <1>3 DEF CreateIfAbsent, Goto, TypeOK, Task
  <2>2. Row(j, v) \in analyses'
    BY <1>3, <2>1, InsertedRow
  <2>3. Row(j, v) \in Recorded(j)'
    BY <2>1, <2>2 DEF Row, Recorded
  <2>4. QED
    BY <2>3
<1>4. CASE Reread(v)
  BY <1>0, <1>4 DEF Reread, Goto, TypeOK, Task, Expected, Recorded
<1>5. CASE ~Claim(v) /\ ~CreateIfAbsent(v) /\ ~Reread(v) /\ WorkerStep(v)
  BY <1>0, <1>1, <1>5
  DEF WorkerStep, OwnStep, PollEmpty, PollStop, Receive, ReceiveError,
      Discard, ClaimSkip, ClaimError, Load,
      Analyze, InsertError, Complete, Fail, Ack, Restart, Goto, Leave, TypeOK, vars
<1>6. QED
  BY <1>1, <1>2, <1>3, <1>4, <1>5, MovesItself

\* Only the update of Complete writes COMPLETED.
LEMMA CompletedBy ==
  ASSUME Inductive, [Next]_vars, NEW j \in Jobs, status'[j] = "COMPLETED"
  PROVE  \/ status[j] = "COMPLETED"
         \/ \E w \in Workers : Complete(w) /\ Task(w) = j
<1> USE DEF jobVars, dataVars, queueVars, workerVars
<1>0. TypeOK
  BY DEF Inductive
<1>1. ASSUME NEW w \in Workers, Claim(w) PROVE status[j] = "COMPLETED"
  <2>1. ClaimRow(Task(w))
    BY <1>1, Zenon DEF Claim
  <2>2. QED
    BY <1>0, <2>1 DEF ClaimRow, TypeOK
<1>2. ASSUME NEW w \in Workers, Complete(w), Task(w) # j PROVE status[j] = "COMPLETED"
  BY <1>0, <1>2 DEF Complete, UpdateRow, TypeOK
<1>3. ASSUME NEW w \in Workers, Fail(w) PROVE status[j] = "COMPLETED"
  BY <1>0, <1>3 DEF Fail, UpdateRow, TypeOK
<1>4. ASSUME NEW w \in Workers, WorkerStep(w), ~Claim(w), ~Complete(w), ~Fail(w)
      PROVE  status' = status
  BY <1>4 DEF WorkerStep, OwnStep, PollEmpty, PollStop, Receive, ReceiveError,
              Discard, ClaimSkip, ClaimError,
     Load, Analyze, CreateIfAbsent, InsertError, Reread, Ack, Restart, vars
<1>5. ASSUME NEW k \in Jobs, Request(k) PROVE status[j] = "COMPLETED"
  BY <1>0, <1>5 DEF Request, RequestFind, CreateElsewhere, RequestStep, RequestCreate,
     RequestSend, RequestLink, CreateRow, TypeOK
<1>6. CASE Environment
  BY <1>6
     DEF Environment, Disturbance, HandWrite, DeleteCompany, Crash, Sigterm, Tick,
         TimePasses
<1>7. QED
  BY <1>1, <1>2, <1>3, <1>4, <1>5, <1>6 DEF Next, vars

LEMMA CompletedStep == Inductive /\ [Next]_vars => CompletedHasAnalysis'
<1> SUFFICES ASSUME Inductive, [Next]_vars, NEW j \in Jobs, status'[j] = "COMPLETED"
             PROVE  Expected(j)' => Recorded(j)' # {}
  BY DEF CompletedHasAnalysis
<1>0. TypeOK /\ WorkersInOrder /\ CompletionsBacked /\ CompletedHasAnalysis
  BY DEF Inductive
<1>1. status[j] # "absent" /\ (Expected(j) => Recorded(j) # {})
  <2>1. CASE status[j] = "COMPLETED"
    BY <1>0, <2>1 DEF CompletedHasAnalysis
  <2>2. ASSUME NEW w \in Workers, Complete(w), Task(w) = j
        PROVE  status[j] # "absent" /\ (Expected(j) => Recorded(j) # {})
    BY <1>0, <2>2 DEF Complete, WorkersInOrder, CompletionsBacked, Busy
  <2>3. QED
    BY <2>1, <2>2, CompletedBy
<1>2. QED
  BY <1>1, RowsKept, BackedKept

-----------------------------------------------------------------------------
(* The first delivery. *)

LEMMA PendingStep == Inductive /\ [Next]_vars => PendingMessageSafe'
<1> SUFFICES ASSUME Inductive, [Next]_vars, NEW j \in Jobs,
                    status'[j] = "PENDING", req'[j] \in {"sent", "done"}
             PROVE  \E m \in Messages :
                      /\ place'[m] = "queued"
                      /\ body'[m] = j
                      /\ \A w \in Workers : pc'[w] = "ack" => inHand'[w] # m
  BY DEF PendingMessageSafe
<1> USE DEF jobVars, dataVars, queueVars, workerVars
<1>0. TypeOK /\ WorkersInOrder /\ PendingMessageSafe /\ RowsFollowRequests
  BY DEF Inductive
<1>1. CASE RequestSend(j)
  <2>1. PICK m \in Messages : Enqueue(m, j)
    BY <1>0, <1>1 DEF RequestSend, TypeOK
  <2>2. \A w \in Workers : pc[w] = "ack" => inHand[w] # m
    BY <1>0, <2>1 DEF Enqueue, WorkersInOrder
  <2>3. QED
    BY <1>0, <1>1, <2>1, <2>2 DEF RequestSend, Enqueue, TypeOK
<1>2. CASE ~RequestSend(j)
  <2>1. status[j] = "PENDING" /\ req[j] \in {"sent", "done"}
    <3>1. ASSUME NEW k \in Jobs, Request(k)
          PROVE  status[j] = "PENDING" /\ req[j] \in {"sent", "done"}
      BY <1>0, <1>2, <3>1
      DEF Request, RequestFind, CreateElsewhere, RequestStep, RequestCreate, RequestSend,
          RequestLink, CreateRow, TypeOK
    <3>2. ASSUME NEW w \in Workers, Claim(w) PROVE status[j] = "PENDING"
      <4>1. ClaimRow(Task(w))
        BY <3>2, Zenon DEF Claim
      <4>2. QED
        BY <1>0, <4>1 DEF ClaimRow, TypeOK
    <3>3. ASSUME NEW w \in Workers, Complete(w) \/ Fail(w) PROVE status[j] = "PENDING"
      BY <1>0, <3>3 DEF Complete, Fail, UpdateRow, TypeOK
    <3>4. ASSUME NEW w \in Workers, WorkerStep(w), ~Claim(w), ~Complete(w), ~Fail(w)
          PROVE  status' = status
      BY <3>4 DEF WorkerStep, OwnStep, PollEmpty, PollStop, Receive, ReceiveError,
                  Discard, ClaimSkip,
         ClaimError, Load, Analyze, CreateIfAbsent, InsertError, Reread, Ack, Restart, vars
    <3>5. ASSUME Environment \/ UNCHANGED vars PROVE status' = status
      BY <3>5
         DEF Environment, Disturbance, HandWrite, DeleteCompany, Crash, Sigterm, Tick,
             TimePasses, vars
    <3>6. QED
      BY <3>1, <3>2, <3>3, <3>4, <3>5, RowsStable DEF Next
  <2>2. PICK m \in Messages :
               /\ place[m] = "queued"
               /\ body[m] = j
               /\ \A w \in Workers : pc[w] = "ack" => inHand[w] # m
    BY <1>0, <2>1 DEF PendingMessageSafe
  <2>3. ASSUME NEW w \in Workers, pc'[w] = "ack", inHand'[w] = m PROVE FALSE
    <3>1. CASE Discard(w) \/ ClaimSkip(w)
      <4>1. Task(w) = j /\ Claimable(j)
        BY <2>1, <2>2, <2>3, <3>1 DEF Discard, ClaimSkip, Goto, Task, Claimable
      <4>2. QED
        BY <3>1, <4>1, NoneAssumption DEF Discard, ClaimSkip
    <3>2. CASE Complete(w) \/ Fail(w)
      <4>1. Task(w) = j /\ status'[j] # "PENDING"
        BY <1>0, <2>2, <2>3, <3>2 DEF Complete, Fail, UpdateRow, Goto, Leave, Task, TypeOK
      <4>2. QED
        BY <4>1
    <3>3. CASE /\ WorkerStep(w)
               /\ ~Discard(w) /\ ~ClaimSkip(w) /\ ~Complete(w) /\ ~Fail(w)
      BY <1>0, <2>2, <2>3, <3>3
      DEF WorkerStep, OwnStep, PollEmpty, PollStop, Receive, ReceiveError,
          Claim, ClaimError, Load, Analyze,
          CreateIfAbsent, InsertError, Reread, Ack, Restart, Goto, Leave, Dispatch, TypeOK,
          vars
    <3>4. QED
      BY <2>2, <2>3, <3>1, <3>2, <3>3, MovesItself
  <2>4. body'[m] = j /\ place'[m] = "queued"
    <3>1. ASSUME NEW n \in Messages, NEW k, Enqueue(n, k) PROVE place'[m] = place[m]
      BY <1>0, <2>2, <3>1 DEF Enqueue, TypeOK
    <3>2. ASSUME NEW w \in Workers, Ack(w) PROVE place'[m] = place[m]
      BY <1>0, <2>2, <3>2 DEF Ack, TypeOK
    <3>3. ASSUME NEW w \in Workers, WorkerStep(w), ~Ack(w) PROVE place' = place
      BY <3>3 DEF WorkerStep, OwnStep, PollEmpty, PollStop, Receive, ReceiveError,
                  Discard, Claim, ClaimSkip,
         ClaimError, Load, Analyze, CreateIfAbsent, InsertError, Reread, Complete, Fail,
         Restart, vars
    <3>4. ASSUME NEW k \in Jobs, Request(k) PROVE place'[m] = place[m]
      BY <3>1, <3>4 DEF Request, RequestFind, CreateElsewhere, RequestStep, RequestCreate,
         RequestSend, RequestLink
    <3>5. ASSUME Environment PROVE place'[m] = place[m]
      BY <3>1, <3>5
         DEF Environment, Disturbance, HandWrite, DeleteCompany, Crash, Sigterm, Tick,
             TimePasses
    <3>6. QED
      BY <2>2, <3>2, <3>3, <3>4, <3>5, MessagesKept DEF Next, vars
  <2>5. QED
    BY <2>3, <2>4
<1>3. QED
  BY <1>1, <1>2

-----------------------------------------------------------------------------
(* Theorems of the specification. *)

THEOREM InductiveHolds == Spec => []Inductive
<1>1. Inductive /\ [Next]_vars => Inductive'
  BY TypeStep, RowsStep, WorkersStep, AnalysesStep, CompletionsStep, CompletedStep,
     PendingStep DEF Inductive
<1>2. QED
  BY InitInductive, <1>1, PTL DEF Spec

\* Every variable keeps to its type, whatever fails and however slow workers are.
THEOREM TypeCorrect == Spec => []TypeOK
<1>1. Inductive => TypeOK
  BY DEF Inductive
<1>2. QED
  BY InductiveHolds, <1>1, PTL

\* Duplicate deliveries, overlapping workers, crashes and lost answers of the
\* database leave at most one analysis of a job.
THEOREM AtMostOnce == Spec => []OneAnalysisPerJob
<1>1. Inductive => OneAnalysisPerJob
  BY DEF Inductive
<1>2. QED
  BY InductiveHolds, <1>1, PTL

\* No analysis and no provider call crosses tenants, whatever the message or the
\* row's payload names.
THEOREM TenantsIsolated == Spec => []TenantIsolation
<1>1. Inductive => TenantIsolation
  BY DEF Inductive, TypeOK, AnalysesMatchJobs, WorkersInOrder, TenantIsolation, Busy
<1>2. QED
  BY InductiveHolds, <1>1, PTL

\* COMPLETED is only reported for an analysis that was written.
THEOREM CompletedBacked == Spec => []CompletedHasAnalysis
<1>1. Inductive => CompletedHasAnalysis
  BY DEF Inductive
<1>2. QED
  BY InductiveHolds, <1>1, PTL

\* No crash, duplicate or failed claim loses the first delivery of a job.
THEOREM FirstDeliveryKept == Spec => []PendingKeepsMessage
<1>1. Inductive => PendingKeepsMessage
  BY DEF Inductive, PendingMessageSafe, PendingKeepsMessage
<1>2. QED
  BY InductiveHolds, <1>1, PTL

\* While its company exists an analysis is neither dropped nor rewritten.
THEOREM AnalysesStay == Spec => AnalysesPermanent
<1>1. ASSUME Inductive, [Next]_vars
      PROVE  \A a \in analyses : a \in analyses' \/ a.company \notin live'
  <2>1. ASSUME NEW c \in Companies, DeleteCompany(c)
        PROVE  \A a \in analyses : a \in analyses' \/ a.company \notin live'
    BY <2>1 DEF DeleteCompany
  <2>2. ASSUME NEW w \in Workers, CreateIfAbsent(w)
        PROVE  \A a \in analyses : a \in analyses' \/ a.company \notin live'
    BY <1>1, <2>2, InsertedRow
  <2>3. QED
    BY <1>1, <2>1, <2>2, DataTouched
<1>2. QED
  BY InductiveHolds, <1>1, PTL DEF Spec, AnalysesPermanent

-----------------------------------------------------------------------------
(* The pipeline implements the ledger. *)

LEMMA LedgerInit == Init => Ledger!Init
BY DEF Init, Ledger!Init, AcceptedTerms

\* Accepting is the creation of a row; nothing else changes what was accepted.
LEMMA TermsStep ==
  ASSUME Inductive, [Next]_vars
  PROVE  \/ AcceptedTerms' = AcceptedTerms
         \/ /\ live' = live /\ analyses' = analyses
            /\ \E j \in Jobs, t \in Info :
                 /\ AcceptedTerms[j] = None
                 /\ AcceptedTerms' = [AcceptedTerms EXCEPT ![j] = t]
<1> USE DEF jobVars, dataVars, queueVars, workerVars
<1>0. TypeOK /\ RowsFollowRequests
  BY DEF Inductive
<1>1. CASE (\E w \in Workers : WorkerStep(w)) \/ Environment \/ UNCHANGED vars
  BY <1>1, RowsStable DEF AcceptedTerms
<1>2. ASSUME NEW k \in Jobs, NEW org \in Orgs, NEW c \in Companies, RequestFind(k, org, c)
      PROVE  AcceptedTerms' = AcceptedTerms
  <2>1. status' = status /\ status[k] = "absent" /\ \A j \in Jobs \ {k} : info'[j] = info[j]
    BY <1>0, <1>2 DEF RequestFind, RowsFollowRequests, TypeOK
  <2>2. QED
    BY <2>1 DEF AcceptedTerms
<1>3. ASSUME NEW k \in Jobs, NEW t \in Info, CreateRow(k), status[k] = "absent",
             info'[k] = t, \A j \in Jobs \ {k} : info'[j] = info[j]
      PROVE  /\ AcceptedTerms[k] = None
             /\ AcceptedTerms' = [AcceptedTerms EXCEPT ![k] = t]
  <2>1. status'[k] # "absent" /\ \A j \in Jobs \ {k} : status'[j] = status[j]
    BY <1>0, <1>3 DEF CreateRow, TypeOK
  <2>2. QED
    BY <1>3, <2>1 DEF AcceptedTerms
<1>4. ASSUME NEW k \in Jobs, RequestCreate(k)
      PROVE  \/ AcceptedTerms' = AcceptedTerms
             \/ /\ live' = live /\ analyses' = analyses
                /\ \E t \in Info : /\ AcceptedTerms[k] = None
                                   /\ AcceptedTerms' = [AcceptedTerms EXCEPT ![k] = t]
  <2>1. info[k] \in Info /\ status[k] = "absent" /\ info' = info
    BY <1>0, <1>4 DEF RequestCreate, RowsFollowRequests, TypeOK
  <2>2. CASE CreateRow(k)
    BY <1>3, <1>4, <2>1, <2>2 DEF RequestCreate
  <2>3. CASE status' = status
    BY <2>1, <2>3 DEF AcceptedTerms
  <2>4. QED
    BY <1>4, <2>2, <2>3 DEF RequestCreate
<1>5. ASSUME NEW k \in Jobs, NEW i \in Info, CreateElsewhere(k, i)
      PROVE  /\ live' = live /\ analyses' = analyses
             /\ AcceptedTerms[k] = None
             /\ AcceptedTerms' = [AcceptedTerms EXCEPT ![k] = i]
  <2>1. CreateRow(k) /\ info'[k] = i /\ \A j \in Jobs \ {k} : info'[j] = info[j]
    BY <1>0, <1>5 DEF CreateElsewhere, TypeOK
  <2>2. status[k] = "absent" /\ live' = live /\ analyses' = analyses
    BY <1>0, <1>5 DEF CreateElsewhere, RowsFollowRequests
  <2>3. QED
    BY <1>3, <2>1, <2>2
<1>6. ASSUME NEW k \in Jobs, RequestSend(k) \/ RequestLink(k)
      PROVE  AcceptedTerms' = AcceptedTerms
  BY <1>6 DEF RequestSend, RequestLink, AcceptedTerms
<1>7. QED
  BY <1>1, <1>2, <1>4, <1>5, <1>6 DEF Next, Request, RequestStep

\* Answering is the insert that meets no conflict, dropping is the delete.
LEMMA LedgerStep ==
  ASSUME Inductive, [Next]_vars
  PROVE  [Ledger!Next]_(Ledger!ledger)
<1> USE DEF jobVars, dataVars, queueVars, workerVars
<1>0. TypeOK /\ RowsFollowRequests /\ WorkersInOrder
  BY DEF Inductive
<1>1. ASSUME NEW c \in Companies, DeleteCompany(c) PROVE Ledger!Drop(c)
  BY <1>1 DEF DeleteCompany, Ledger!Drop, AcceptedTerms
<1>2. ASSUME NEW w \in Workers, CreateIfAbsent(w)
      PROVE  Ledger!Answer(Task(w), w) \/ UNCHANGED Ledger!ledger
  <2>1. AcceptedTerms' = AcceptedTerms
    BY <1>2 DEF CreateIfAbsent, AcceptedTerms
  <2>2. AcceptedTerms[Task(w)] = info[Task(w)] /\ info[Task(w)] # None
    BY <1>0, <1>2, InsertedRow, NoneAssumption
    DEF WorkersInOrder, CreateIfAbsent, Busy, AcceptedTerms
  <2>3. CASE analyses' = analyses
    BY <1>2, <2>1, <2>3, InsertedRow DEF Ledger!ledger
  <2>4. CASE analyses' = analyses \cup {Row(Task(w), w)} /\ Recorded(Task(w)) = {}
    BY <1>2, <2>1, <2>2, <2>4, InsertedRow DEF Ledger!Answer, Row, Recorded
  <2>5. QED
    BY <1>2, <2>3, <2>4, InsertedRow
<1>3. CASE live' = live /\ analyses' = analyses
  BY <1>3, TermsStep DEF Ledger!Next, Ledger!Accept, Ledger!ledger
<1>4. QED
  BY <1>1, <1>2, <1>3, DataTouched, InsertedRow DEF Ledger!Next

\* However the queue, the workers and the database misbehave, tenants see a
\* ledger: every job answered at most once, on the terms it was accepted on.
THEOREM ImplementsLedger == Spec => LedgerSpec
<1>1. QED
  BY InductiveHolds, LedgerInit, LedgerStep, PTL DEF Spec, LedgerSpec, Ledger!Spec

-----------------------------------------------------------------------------
(* The lease.  From here on claims are judged by a clock: these facts need *)
(* provider calls that fit the lease and workers that do not dawdle.       *)

Leased == Inductive /\ ClaimsCurrent /\ LeaseExclusive

LEMMA LeasedInit == Init => Leased
BY InitInductive DEF Leased, Init, ClaimsCurrent, LeaseExclusive, Holds, Busy

\* A job that some worker holds cannot be claimed.
LEMMA HeldNotClaimable ==
  ASSUME Leased, NEW w \in Workers, pc[w] \in Busy
  PROVE  ~Claimable(Task(w))
BY TimeAssumption DEF Leased, Inductive, TypeOK, WorkersInOrder, ClaimsCurrent, Claimable

\* The holder of a job is alone, so what other workers do leaves its row alone.
LEMMA HeldRowAlone ==
  ASSUME Leased, Tuned, [Next]_vars, NEW v \in Workers, pc[v] \in Busy,
         pc'[v] = pc[v], inHand'[v] = inHand[v], ~WorkerStep(v), ~Tick
  PROVE  status'[Task(v)] = status[Task(v)] /\ age'[Task(v)] = age[Task(v)]
<1> USE DEF jobVars, dataVars, queueVars, workerVars
<1>0. TypeOK /\ WorkersInOrder /\ RowsFollowRequests /\ Task(v) \in Jobs
  BY DEF Leased, Inductive, WorkersInOrder
<1>1. ASSUME NEW w \in Workers, Claim(w)
      PROVE  status'[Task(v)] = status[Task(v)] /\ age'[Task(v)] = age[Task(v)]
  <2>1. Claimable(Task(w)) /\ ClaimRow(Task(w))
    BY <1>1, Zenon DEF Claim
  <2>2. Task(w) # Task(v)
    BY <2>1, HeldNotClaimable
  <2>3. QED
    BY <1>0, <2>1, <2>2 DEF ClaimRow, TypeOK
<1>2. ASSUME NEW w \in Workers, w # v, Complete(w) \/ Fail(w)
      PROVE  status'[Task(v)] = status[Task(v)] /\ age'[Task(v)] = age[Task(v)]
  <2>1. Task(w) # Task(v)
    BY <1>0, <1>2 DEF Leased, LeaseExclusive, Holds, Complete, Fail, Busy
  <2>2. QED
    BY <1>0, <1>2, <2>1 DEF Complete, Fail, UpdateRow, TypeOK
<1>3. ASSUME NEW w \in Workers, WorkerStep(w), ~Claim(w), ~Complete(w), ~Fail(w)
      PROVE  status' = status /\ age' = age
  BY <1>3 DEF WorkerStep, OwnStep, PollEmpty, PollStop, Receive, ReceiveError,
              Discard, ClaimSkip, ClaimError,
     Load, Analyze, CreateIfAbsent, InsertError, Reread, Ack, Restart, vars
<1>4. ASSUME NEW j \in Jobs, Request(j)
      PROVE  status'[Task(v)] = status[Task(v)] /\ age'[Task(v)] = age[Task(v)]
  <2>1. req[j] \in {"idle", "found"} => Task(v) # j
    BY <1>0 DEF WorkersInOrder, RowsFollowRequests
  <2>2. QED
    BY <1>0, <1>4, <2>1 DEF Request, RequestFind, CreateElsewhere, RequestStep,
       RequestCreate, RequestSend, RequestLink, CreateRow, TypeOK
<1>5. CASE Environment
  BY <1>5 DEF Environment, Disturbance, HandWrite, DeleteCompany, Crash, Sigterm
<1>6. QED
  BY <1>1, <1>2, <1>3, <1>4, <1>5 DEF Next, vars

\* Only the passing of time and the worker itself move its stopwatch.
LEMMA StopwatchRuns ==
  ASSUME TypeOK, \A w \in Workers : pc[w] # "analyze" => elapsed[w] = 0,
         [Next]_vars, NEW v \in Workers
  PROVE  /\ pc'[v] # "analyze" => elapsed'[v] = 0
         /\ ~Tick => elapsed'[v] \in {0, elapsed[v]}
         /\ ~Tick /\ pc'[v] = pc[v] => elapsed'[v] = elapsed[v]
<1> USE DEF jobVars, dataVars, queueVars, workerVars
<1>0. TypeOK /\ (pc[v] # "analyze" => elapsed[v] = 0)
  OBVIOUS
<1>1. CASE Tick
  BY <1>0, <1>1 DEF Tick, TimePasses, TypeOK
<1>2. ASSUME NEW w \in Workers, Analyze(w) \/ Crash(w)
      PROVE  /\ pc'[v] # "analyze" => elapsed'[v] = 0
             /\ elapsed'[v] \in {0, elapsed[v]}
             /\ pc'[v] = pc[v] => elapsed'[v] = elapsed[v]
  BY <1>0, <1>2 DEF Analyze, Crash, TypeOK
<1>3. ASSUME NEW w \in Workers, WorkerStep(w), ~Analyze(w)
      PROVE  elapsed' = elapsed /\ (pc'[v] = pc[v] \/ pc[v] # "analyze")
  BY <1>0, <1>3
  DEF WorkerStep, OwnStep, PollEmpty, PollStop, Receive, ReceiveError,
      Discard, Claim, ClaimSkip, ClaimError,
      Load, CreateIfAbsent, InsertError, Reread, Complete, Fail, Ack, Restart, Goto,
      Leave, TypeOK, vars
<1>4. ASSUME NEW j \in Jobs, Request(j) PROVE elapsed' = elapsed /\ pc' = pc
  BY <1>4 DEF Request, RequestFind, CreateElsewhere, RequestStep, RequestCreate,
     RequestSend, RequestLink
<1>5. ASSUME Environment, ~Tick, \A w \in Workers : ~Crash(w)
      PROVE  elapsed' = elapsed /\ pc' = pc
  BY <1>5 DEF Environment, Disturbance, HandWrite, DeleteCompany, Sigterm
<1>6. QED
  BY <1>0, <1>1, <1>2, <1>3, <1>4, <1>5 DEF Next, vars, Environment, Disturbance

LEMMA StopwatchStep ==
  ASSUME Leased, [Next]_vars, NEW v \in Workers
  PROVE  /\ pc'[v] # "analyze" => elapsed'[v] = 0
         /\ ~Tick => elapsed'[v] \in {0, elapsed[v]}
         /\ ~Tick /\ pc'[v] = pc[v] => elapsed'[v] = elapsed[v]
BY StopwatchRuns DEF Leased, Inductive, ClaimsCurrent

LEMMA ClaimsStep ==
  ASSUME Leased, Tuned, [Next]_vars
  PROVE  ClaimsCurrent'
<1> DEFINE Current(w) ==
             /\ \/ status[Task(w)] = "PROCESSING"
                \/ /\ status[Task(w)] = "COMPLETED"
                   /\ pc[w] = "failRetryable"
                   /\ "ambiguous" \in Faults
             /\ age[Task(w)] <= Lease
             /\ pc[w] \in {"load", "analyze"} => age[Task(w)] = elapsed[w]
<1> SUFFICES ASSUME NEW v \in Workers, pc'[v] \in Busy PROVE Current(v)'
  BY StopwatchStep DEF ClaimsCurrent
<1> USE DEF jobVars, dataVars, queueVars, workerVars
<1>0. TypeOK /\ WorkersInOrder /\ (pc[v] \in Busy => Current(v))
  BY DEF Leased, Inductive, ClaimsCurrent
<1>1. CASE Tick
  <2>1. /\ pc[v] = "analyze" /\ pc'[v] = "analyze"
        /\ elapsed[v] < MaxCall
        /\ elapsed'[v] = elapsed[v] + 1
        /\ Task(v) \in Jobs /\ Task(v)' = Task(v)
    BY <1>0, <1>1 DEF Tick, TimePasses, Tuned, Busy, WorkersInOrder, Task
  <2>2. status[Task(v)] = "PROCESSING" /\ age[Task(v)] = elapsed[v]
    BY <1>0, <2>1 DEF Busy
  <2>3. status' = status /\ age'[Task(v)] = age[Task(v)] + 1 /\ age'[Task(v)] <= Lease
    BY <1>0, <1>1, <2>1, <2>2, TimeAssumption, MaxCallNat
       DEF Tick, TimePasses, TypeOK, Tuned
  <2>4. QED
    BY <2>1, <2>2, <2>3
<1>2. CASE pc'[v] = pc[v] /\ inHand'[v] = inHand[v] /\ ~WorkerStep(v) /\ ~Tick
  <2>1. Task(v)' = Task(v)
    BY <1>0, <1>2, MessagesKept DEF Leased, WorkersInOrder, Busy, Task
  <2>2. elapsed'[v] = elapsed[v]
    BY <1>2, StopwatchStep
  <2>3. QED
    BY <1>0, <1>2, <2>1, <2>2, HeldRowAlone
<1>3. CASE Claim(v)
  <2>0. ClaimRow(Task(v)) /\ pc[v] = "claim" /\ Task(v) # None
    BY <1>3, Zenon DEF Claim
  <2>1. Task(v) \in Jobs /\ Task(v)' = Task(v) /\ elapsed' = elapsed
    BY <1>0, <1>3, <2>0 DEF Claim, Goto, Leave, WorkersInOrder, TypeOK, Task, Busy
  <2>2. elapsed[v] = 0
    BY <1>3 DEF Leased, ClaimsCurrent, Claim
  <2>3. QED
    BY <1>0, <2>0, <2>1, <2>2, TimeAssumption DEF ClaimRow, TypeOK
<1>4. CASE WorkerStep(v) /\ ~Claim(v)
  <2>1. CASE Load(v)
    BY <1>0, <2>1 DEF Load, Goto, TypeOK, Task, Busy
  <2>2. CASE Analyze(v) \/ CreateIfAbsent(v) \/ InsertError(v) \/ Reread(v)
    BY <1>0, <2>2
       DEF Analyze, CreateIfAbsent, InsertError, Reread, Goto, TypeOK, Task, Busy
  <2>3. CASE Complete(v)
    <3>1. /\ Task(v) \in Jobs /\ Task(v)' = Task(v)
          /\ pc'[v] = "failRetryable"
          /\ \/ UpdateRow(Task(v), "COMPLETED", "null") /\ Fault("ambiguous")
             \/ status' = status /\ age' = age
      BY <1>0, <2>3 DEF Complete, Goto, WorkersInOrder, TypeOK, Task, Busy
    <3>2. QED
      BY <1>0, <2>3, <3>1, TimeAssumption DEF UpdateRow, Fault, TypeOK, Complete, Busy
  <2>4. CASE /\ ~Load(v) /\ ~Analyze(v) /\ ~CreateIfAbsent(v) /\ ~InsertError(v)
             /\ ~Reread(v) /\ ~Complete(v)
    BY <1>0, <1>4, <2>4
    DEF WorkerStep, OwnStep, PollEmpty, PollStop, Receive, ReceiveError,
        Discard, ClaimSkip, ClaimError, Fail,
        Ack, Restart, Goto, Leave, TypeOK, Busy, vars
  <2>5. QED
    BY <2>1, <2>2, <2>3, <2>4
<1>5. QED
  BY <1>1, <1>2, <1>3, <1>4, MovesItself DEF Leased, Busy

LEMMA ExclusiveStep ==
  ASSUME Leased, Tuned, [Next]_vars
  PROVE  LeaseExclusive'
<1> SUFFICES ASSUME NEW v \in Workers, NEW w \in Workers, v # w,
                    pc'[v] \in Busy, pc'[w] \in Busy, Task(v)' = Task(w)'
             PROVE  FALSE
  BY DEF LeaseExclusive, Holds
<1> USE DEF jobVars, dataVars, queueVars, workerVars
<1>0. TypeOK /\ WorkersInOrder
  BY DEF Leased, Inductive
\* A worker that holds a job after the step held it before, or has just claimed it.
<1>1. ASSUME NEW u \in Workers, pc'[u] \in Busy
      PROVE  /\ Task(u)' = Task(u)
             /\ pc[u] \in Busy \/ Claim(u)
  <2>1. CASE pc'[u] = pc[u] /\ inHand'[u] = inHand[u]
    BY <1>0, <1>1, <2>1, MessagesKept DEF Leased, WorkersInOrder, Task
  <2>2. CASE WorkerStep(u)
    BY <1>0, <1>1, <2>2
    DEF WorkerStep, OwnStep, PollEmpty, PollStop, Receive, ReceiveError,
        Discard, Claim, ClaimSkip, ClaimError,
        Load, Analyze, CreateIfAbsent, InsertError, Reread, Complete, Fail, Ack, Restart,
        Goto, Leave, TypeOK, Busy, Task, vars
  <2>3. QED
    BY <1>1, <2>1, <2>2, MovesItself DEF Leased, Busy
<1>2. ASSUME NEW u \in Workers, Claim(u) PROVE Claimable(Task(u))
  BY <1>2 DEF Claim
<1>3. ~(Claim(v) /\ Claim(w))
  <2>1. ASSUME NEW u \in Workers, Claim(u), NEW x \in Workers, x # u
        PROVE  pc[u] = "claim" /\ pc'[x] = pc[x]
    BY <1>0, <2>1 DEF Claim, Goto, Leave, TypeOK
  <2>2. QED
    BY <2>1 DEF Busy
<1>4. CASE pc[v] \in Busy /\ pc[w] \in Busy
  BY <1>0, <1>1, <1>4 DEF Leased, LeaseExclusive, Holds, WorkersInOrder
<1>5. CASE Claim(v) /\ pc[w] \in Busy
  BY <1>1, <1>2, <1>5, HeldNotClaimable
<1>6. CASE Claim(w) /\ pc[v] \in Busy
  BY <1>1, <1>2, <1>6, HeldNotClaimable
<1>7. QED
  BY <1>1, <1>3, <1>4, <1>5, <1>6

LEMMA LeasedHolds ==
  ASSUME Tuned
  PROVE  Spec => []Leased
<1>1. Leased /\ [Next]_vars => Leased'
  <2>1. Inductive /\ [Next]_vars => Inductive'
    BY TypeStep, RowsStep, WorkersStep, AnalysesStep, CompletionsStep, CompletedStep,
       PendingStep DEF Inductive
  <2>2. QED
    BY <2>1, ClaimsStep, ExclusiveStep DEF Leased
<1>2. QED
  BY LeasedInit, <1>1, PTL DEF Spec

\* With provider calls that fit the lease no two workers are ever between claim
\* and record of one job, whatever crashes, is lost or is delivered twice.
THEOREM OneWinner ==
  ASSUME Tuned
  PROVE  Spec => []LeaseExclusive
<1>1. Leased => LeaseExclusive
  BY DEF Leased
<1>2. QED
  BY LeasedHolds, <1>1, PTL

\* If moreover no answer to an update is lost, COMPLETED is the end of a job:
\* the unconditional update of a failing worker never meets a finished row.
THEOREM CompletedStays ==
  ASSUME Tuned, "ambiguous" \notin Faults
  PROVE  Spec => CompletedIsTerminal
<1>1. ASSUME Leased, [Next]_vars, NEW j \in Jobs, status[j] = "COMPLETED"
      PROVE  status'[j] = "COMPLETED"
  <2> USE DEF jobVars, dataVars, queueVars, workerVars
  <2>0. TypeOK /\ WorkersInOrder /\ RowsFollowRequests
    BY <1>1 DEF Leased, Inductive
  <2>1. ASSUME NEW w \in Workers, Claim(w) PROVE status'[j] = status[j]
    <3>1. Claimable(Task(w)) /\ ClaimRow(Task(w))
      BY <2>1, Zenon DEF Claim
    <3>2. QED
      BY <1>1, <2>0, <3>1 DEF Claimable, ClaimRow, TypeOK
  <2>2. ASSUME NEW w \in Workers, Complete(w) \/ Fail(w) PROVE status'[j] = status[j]
    <3>1. Task(w) # j
      BY <1>1, <2>2 DEF Leased, ClaimsCurrent, Complete, Fail, Busy
    <3>2. QED
      BY <2>0, <2>2, <3>1 DEF Complete, Fail, UpdateRow, TypeOK
  <2>3. ASSUME NEW w \in Workers, WorkerStep(w), ~Claim(w), ~Complete(w), ~Fail(w)
        PROVE  status' = status
    BY <2>3 DEF WorkerStep, OwnStep, PollEmpty, PollStop, Receive, ReceiveError,
                Discard, ClaimSkip, ClaimError,
       Load, Analyze, CreateIfAbsent, InsertError, Reread, Ack, Restart, vars
  <2>4. ASSUME NEW k \in Jobs, Request(k) PROVE status'[j] = status[j]
    BY <1>1, <2>0, <2>4
    DEF Request, RequestFind, CreateElsewhere, RequestStep, RequestCreate, RequestSend,
        RequestLink, CreateRow, RowsFollowRequests, TypeOK
  <2>5. CASE Environment
    BY <1>1, <2>5
       DEF Environment, Disturbance, HandWrite, DeleteCompany, Crash, Sigterm, Tick,
           TimePasses
  <2>6. QED
    BY <1>1, <2>1, <2>2, <2>3, <2>4, <2>5 DEF Next, vars
<1>2. Leased /\ [Next]_vars =>
        \A j \in Jobs : status[j] = "COMPLETED" => status'[j] = "COMPLETED"
  BY <1>1
<1>3. QED
  BY LeasedHolds, <1>2, PTL DEF Spec, CompletedIsTerminal
=============================================================================
