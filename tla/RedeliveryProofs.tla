-------------------------- MODULE RedeliveryProofs --------------------------
(***************************************************************************)
(* Proofs about what AnalysisPipeline leaves on the queue: a message stays *)
(* hidden while its job is worked on, the message of a job that failed     *)
(* retryably is never deleted, that of one that failed for good does not   *)
(* run it again, and that of an abandoned claim comes back when the claim  *)
(* can be taken over.  The first needs provider calls that fit the         *)
(* visibility timeout, the others also a queue that delivers a message to  *)
(* one worker at a time; the third, that no worker is killed and no answer *)
(* is lost; the last, that the lease is shorter than the visibility        *)
(* timeout, in which case claims are still exclusive.                      *)
(***************************************************************************)
EXTENDS AnalysisPipelineProofs

\* Apart from the clock, only a delivery touches what is hidden.
LEMMA HiddenKept ==
  ASSUME TypeOK, [Next]_vars, ~Tick,
         NEW m \in Messages, place[m] # "unsent", place'[m] = "queued"
  PROVE  place[m] = "queued" /\ hidden'[m] \in {hidden[m], Visibility}
<1> USE DEF jobVars, dataVars, queueVars, workerVars
<1>1. ASSUME NEW n \in Messages, NEW k, Enqueue(n, k)
      PROVE  place[m] = "queued" /\ hidden' = hidden
  BY <1>1 DEF Enqueue, TypeOK
<1>2. ASSUME NEW w \in Workers, Ack(w)
      PROVE  place[m] = "queued" /\ hidden'[m] = hidden[m]
  BY <1>2 DEF Ack, TypeOK
<1>3. ASSUME NEW w \in Workers, NEW n \in Messages, Receive(w, n) \/ ReceiveError(w, n)
      PROVE  place' = place /\ hidden'[m] \in {hidden[m], Visibility}
  BY <1>3 DEF Receive, ReceiveError, TypeOK
<1>4. ASSUME NEW w \in Workers, WorkerStep(w), ~Ack(w),
             \A n \in Messages : ~Receive(w, n) /\ ~ReceiveError(w, n)
      PROVE  place' = place /\ hidden' = hidden
  BY <1>4
  DEF WorkerStep, OwnStep, PollEmpty, PollStop, Discard, Claim, ClaimSkip, ClaimError,
      Load, Analyze, CreateIfAbsent, InsertError, Reread, Complete, Fail, Restart, vars
<1>5. ASSUME NEW j \in Jobs, Request(j)
      PROVE  place[m] = "queued" /\ hidden' = hidden
  BY <1>1, <1>5 DEF Request, RequestFind, CreateElsewhere, RequestStep, RequestCreate,
     RequestSend, RequestLink
<1>6. CASE Environment
  BY <1>1, <1>6
  DEF Environment, Disturbance, HandWrite, DeleteCompany, Crash, Sigterm
<1>7. QED
  BY <1>2, <1>3, <1>4, <1>5, <1>6 DEF Next, vars

\* A worker that holds a message after a step held it before, or received it.
LEMMA HoldsOn ==
  ASSUME Inductive, [Next]_vars, NEW v \in Workers, pc'[v] \in Holding
  PROVE  \/ pc[v] \in Holding /\ inHand'[v] = inHand[v]
         \/ \E m \in Messages : Receive(v, m)
<1> USE DEF jobVars, dataVars, queueVars, workerVars, Holding, Busy
<1>0. TypeOK
  BY DEF Inductive
<1>1. CASE WorkerStep(v)
  BY <1>0, <1>1
  DEF WorkerStep, OwnStep, PollEmpty, PollStop, ReceiveError, Discard, Claim, ClaimSkip,
      ClaimError, Load, Analyze, CreateIfAbsent, InsertError, Reread, Complete, Fail, Ack,
      Restart, Goto, Leave, TypeOK, vars
<1>2. CASE pc'[v] = pc[v] /\ inHand'[v] = inHand[v]
  BY <1>2
<1>3. QED
  BY <1>1, <1>2, MovesItself

\* Nothing but the worker that holds it takes a message off the queue.
LEMMA QueuedStays ==
  ASSUME Inductive, [Next]_vars, NEW m \in Messages, place[m] = "queued"
  PROVE  place'[m] = "queued" \/ \E w \in Workers : Ack(w) /\ inHand[w] = m
<1> USE DEF jobVars, dataVars, queueVars, workerVars
<1>0. TypeOK
  BY DEF Inductive
<1>1. ASSUME NEW w \in Workers, Ack(w), inHand[w] # m PROVE place'[m] = "queued"
  BY <1>0, <1>1 DEF Ack, TypeOK
<1>2. ASSUME NEW w \in Workers, WorkerStep(w), ~Ack(w) PROVE place' = place
  BY <1>2
  DEF WorkerStep, OwnStep, PollEmpty, PollStop, Receive, ReceiveError, Discard, Claim,
      ClaimSkip, ClaimError, Load, Analyze, CreateIfAbsent, InsertError, Reread,
      Complete, Fail, Restart, vars
<1>3. ASSUME NEW n \in Messages, NEW k, Enqueue(n, k) PROVE place'[m] = "queued"
  BY <1>0, <1>3 DEF Enqueue, TypeOK
<1>4. ASSUME NEW j \in Jobs, Request(j) PROVE place'[m] = "queued"
  BY <1>3, <1>4 DEF Request, RequestFind, CreateElsewhere, RequestStep,
     RequestCreate, RequestSend, RequestLink
<1>5. ASSUME Environment PROVE place'[m] = "queued"
  BY <1>3, <1>5
  DEF Environment, Disturbance, HandWrite, DeleteCompany, Crash, Sigterm, Tick, TimePasses
<1>6. QED
  BY <1>1, <1>2, <1>4, <1>5 DEF Next, vars

\* A row that exists is changed only by a worker that has its job, and by time.
LEMMA RowMoves ==
  ASSUME Inductive, [Next]_vars, NEW j \in Jobs
  PROVE  \/ status'[j] = status[j] /\ (Tick \/ age'[j] = age[j])
         \/ status[j] = "absent" /\ status'[j] = "PENDING"
         \/ \E w \in Workers : (Claim(w) \/ Complete(w) \/ Fail(w)) /\ Task(w) = j
<1> USE DEF jobVars, dataVars, queueVars, workerVars
<1>0. TypeOK /\ RowsFollowRequests
  BY DEF Inductive
<1>1. ASSUME NEW w \in Workers, Claim(w), Task(w) # j
      PROVE  status'[j] = status[j] /\ age'[j] = age[j]
  <2>1. ClaimRow(Task(w))
    BY <1>1, Zenon DEF Claim
  <2>2. QED
    BY <1>0, <1>1, <2>1 DEF ClaimRow, TypeOK
<1>2. ASSUME NEW w \in Workers, Complete(w), Task(w) # j
      PROVE  status'[j] = status[j] /\ age'[j] = age[j]
  BY <1>0, <1>2 DEF Complete, UpdateRow, TypeOK
<1>3. ASSUME NEW w \in Workers, Fail(w), Task(w) # j
      PROVE  status'[j] = status[j] /\ age'[j] = age[j]
  <2>1. UNCHANGED jobVars \/ UpdateRow(Task(w), "FAILED", FailureDetails(w))
    BY <1>3, Zenon DEF Fail
  <2>2. QED
    BY <1>0, <1>3, <2>1 DEF UpdateRow, TypeOK
<1>4. ASSUME NEW w \in Workers, WorkerStep(w), ~Claim(w), ~Complete(w), ~Fail(w)
      PROVE  status' = status /\ age' = age
  BY <1>4
  DEF WorkerStep, OwnStep, PollEmpty, PollStop, Receive, ReceiveError, Discard, ClaimSkip,
      ClaimError, Load, Analyze, CreateIfAbsent, InsertError, Reread, Ack, Restart, vars
<1>5. ASSUME NEW k \in Jobs, Request(k)
      PROVE  \/ status'[j] = status[j] /\ age'[j] = age[j]
             \/ status[j] = "absent" /\ status'[j] = "PENDING"
  BY <1>0, <1>5
  DEF Request, RequestFind, CreateElsewhere, RequestStep, RequestCreate, RequestSend,
      RequestLink, CreateRow, RowsFollowRequests, TypeOK
<1>6. ASSUME Environment PROVE status' = status /\ (Tick \/ age' = age)
  BY <1>6
  DEF Environment, Disturbance, HandWrite, DeleteCompany, Crash, Sigterm, Tick, TimePasses
<1>7. QED
  BY <1>1, <1>2, <1>3, <1>4, <1>5, <1>6 DEF Next, vars

-----------------------------------------------------------------------------
(* A message in hand stays hidden. *)

LEMMA HiddenStep ==
  ASSUME CallsFitVisibility, Inductive, HeldHidden, [Next]_vars
  PROVE  HeldHidden'
<1> SUFFICES ASSUME NEW v \in Workers, pc'[v] \in Holding, place'[inHand'[v]] = "queued"
             PROVE  /\ hidden'[inHand'[v]] > 0
                    /\ pc'[v] \in {"claim", "load", "analyze"} =>
                         hidden'[inHand'[v]] >= Visibility - elapsed'[v]
  BY StopwatchRuns DEF HeldHidden, Inductive
<1> USE DEF jobVars, dataVars, queueVars, workerVars, Holding, Busy
<1>0. /\ TypeOK /\ WorkersInOrder
      /\ Visibility \in Nat /\ Visibility > 0
      /\ pc[v] # "analyze" => elapsed[v] = 0
  BY TimeAssumption, MaxCallNat DEF Inductive, CallsFitVisibility, HeldHidden
<1>1. CASE Tick
  <2>1. /\ pc[v] = "analyze" /\ pc'[v] = "analyze" /\ inHand' = inHand /\ place' = place
        /\ elapsed[v] < MaxCall /\ elapsed'[v] = elapsed[v] + 1
    BY <1>0, <1>1 DEF Tick, TimePasses, CallsFitVisibility
  <2>2. /\ inHand[v] \in Messages
        /\ hidden[inHand[v]] >= Visibility - elapsed[v]
    BY <1>0, <2>1 DEF WorkersInOrder, HeldHidden
  <2>3. hidden[inHand[v]] \in Nat /\ elapsed[v] \in Nat /\ MaxCall < Visibility
    BY <1>0, <2>2, MaxCallNat DEF TypeOK, CallsFitVisibility
  <2>4. hidden[inHand[v]] > 0
    BY <1>0, <2>1, <2>2, <2>3, MaxCallNat
  <2>5. hidden'[inHand[v]] = hidden[inHand[v]] - 1
    BY <1>1, <2>2, <2>4 DEF Tick, TimePasses
  <2>6. QED
    BY <1>0, <2>1, <2>2, <2>3, <2>5, MaxCallNat
<1>2. CASE ~Tick /\ pc[v] \in Holding /\ inHand'[v] = inHand[v]
  <2>1. inHand[v] \in Messages /\ place[inHand[v]] # "unsent"
    BY <1>0, <1>2 DEF WorkersInOrder
  <2>2. /\ place[inHand[v]] = "queued"
        /\ hidden'[inHand[v]] \in {hidden[inHand[v]], Visibility}
    BY <1>0, <1>2, <2>1, HiddenKept
  <2>3. hidden[inHand[v]] > 0 /\ hidden[inHand[v]] \in Nat /\ elapsed'[v] \in Nat
    BY <1>0, <1>2, <2>1, <2>2, TypeStep, MaxCallNat DEF HeldHidden, TypeOK
  <2>4. ASSUME pc'[v] \in {"claim", "load", "analyze"}
        PROVE  /\ pc[v] \in {"claim", "load", "analyze"}
               /\ elapsed'[v] = elapsed[v]
    <3>1. CASE pc'[v] = pc[v]
      BY <1>0, <1>2, <2>4, <3>1, StopwatchRuns DEF HeldHidden
    <3>2. CASE WorkerStep(v)
      BY <1>0, <1>2, <2>4, <3>2
      DEF WorkerStep, OwnStep, PollEmpty, PollStop, Receive, ReceiveError, Discard, Claim,
          ClaimSkip, ClaimError, Load, Analyze, CreateIfAbsent, InsertError, Reread,
          Complete, Fail, Ack, Restart, Goto, Leave, TypeOK, vars
    <3>3. QED
      BY <2>4, <3>1, <3>2, MovesItself
  <2>5. QED
    BY <1>0, <1>2, <2>1, <2>2, <2>3, <2>4 DEF HeldHidden
<1>3. ASSUME NEW m \in Messages, Receive(v, m)
      PROVE  hidden'[inHand'[v]] = Visibility /\ elapsed'[v] = 0
  BY <1>0, <1>3 DEF Receive, TypeOK
<1>4. QED
  BY <1>0, <1>1, <1>2, <1>3, HoldsOn

\* With provider calls that fit the visibility timeout no message is delivered
\* anew while the provider is asked about it, whatever crashes or is lost.
THEOREM SlowCallsHidden ==
  ASSUME CallsFitVisibility
  PROVE  Spec => []CallKeepsMessage
<1>1. Init => HeldHidden
  BY DEF Init, HeldHidden, Holding, Busy
<1>2. Inductive /\ HeldHidden /\ [Next]_vars => HeldHidden'
  BY HiddenStep
<1>3. HeldHidden => CallKeepsMessage
  BY DEF HeldHidden, CallKeepsMessage, Holding, Busy
<1>4. QED
  BY InductiveHolds, <1>1, <1>2, <1>3, PTL DEF Spec

-----------------------------------------------------------------------------
(* One message per job, held by one worker at a time. *)

\* Without hand-written messages only a request puts one on the queue.
LEMMA MailStep ==
  ASSUME Inductive, "replay" \notin Faults, [Next]_vars
  PROVE  \/ \E j \in Jobs, n \in Messages : RequestSend(j) /\ Enqueue(n, j)
         \/ \A m \in Messages :
              (place'[m] = "unsent" <=> place[m] = "unsent") /\ body'[m] = body[m]
<1> USE DEF jobVars, dataVars, queueVars, workerVars
<1>0. TypeOK /\ WorkersInOrder
  BY DEF Inductive
<1>1. ASSUME NEW w \in Workers, Ack(w)
      PROVE  \A m \in Messages :
               (place'[m] = "unsent" <=> place[m] = "unsent") /\ body'[m] = body[m]
  BY <1>0, <1>1 DEF Ack, WorkersInOrder, TypeOK
<1>2. ASSUME NEW w \in Workers, WorkerStep(w), ~Ack(w)
      PROVE  place' = place /\ body' = body
  BY <1>2
  DEF WorkerStep, OwnStep, PollEmpty, PollStop, Receive, ReceiveError, Discard, Claim,
      ClaimSkip, ClaimError, Load, Analyze, CreateIfAbsent, InsertError, Reread, Complete,
      Fail, Restart, vars
<1>3. ASSUME NEW j \in Jobs, Request(j)
      PROVE  \/ \E n \in Messages : RequestSend(j) /\ Enqueue(n, j)
             \/ place' = place /\ body' = body
  BY <1>3 DEF Request, RequestFind, CreateElsewhere, RequestStep, RequestCreate,
     RequestSend, RequestLink
<1>4. CASE Environment
  BY <1>4
  DEF Environment, Disturbance, HandWrite, Fault, DeleteCompany, Crash, Sigterm, Tick,
      TimePasses
<1>5. QED
  BY <1>1, <1>2, <1>3, <1>4 DEF Next, vars

LEMMA OneMessageStep ==
  ASSUME Inductive, OneMessage, "replay" \notin Faults, [Next]_vars
  PROVE  OneMessage'
<1> USE DEF jobVars, dataVars, queueVars, workerVars
<1>0. TypeOK /\ RowsFollowRequests
  BY DEF Inductive
<1>1. ASSUME NEW j \in Jobs, NEW n \in Messages, RequestSend(j), Enqueue(n, j)
      PROVE  OneMessage'
  <2>1. \A m \in Messages : place[m] # "unsent" => body[m] \in Jobs /\ body[m] # j
    BY <1>1 DEF OneMessage, RequestSend
  <2>2. /\ \A m \in Messages \ {n} : place'[m] = place[m] /\ body'[m] = body[m]
        /\ place'[n] = "queued" /\ body'[n] = j
        /\ place[n] = "unsent"
    BY <1>0, <1>1 DEF Enqueue, TypeOK
  <2>3. /\ \A k \in Jobs \ {j} : req'[k] = req[k]
        /\ req'[j] \in {"sent", "failed"}
    BY <1>0, <1>1 DEF RequestSend, TypeOK
  <2>4. QED
    BY <2>1, <2>2, <2>3 DEF OneMessage
<1>2. CASE \A m \in Messages :
             (place'[m] = "unsent" <=> place[m] = "unsent") /\ body'[m] = body[m]
  <2>1. ASSUME NEW j \in Jobs, req[j] \notin {"idle", "found", "created"}
        PROVE  req'[j] \notin {"idle", "found", "created"}
    <3>1. ASSUME NEW k \in Jobs, Request(k) PROVE req'[j] \notin {"idle", "found", "created"}
      BY <1>0, <2>1, <3>1
      DEF Request, RequestFind, CreateElsewhere, RequestStep, RequestCreate, RequestSend,
          RequestLink, TypeOK
    <3>2. QED
      BY <2>1, <3>1, RowsStable DEF Next
  <2>2. QED
    BY <1>2, <2>1 DEF OneMessage
<1>3. QED
  BY <1>0, <1>1, <1>2, MailStep

LEMMA HandsApartStep ==
  ASSUME Inductive, HeldHidden, HandsApart, "duplicate" \notin Faults, [Next]_vars
  PROVE  HandsApart'
<1> USE DEF jobVars, dataVars, queueVars, workerVars, Holding, Busy
<1>0. TypeOK /\ WorkersInOrder
  BY DEF Inductive
<1>1. ASSUME NEW v \in Workers, NEW m \in Messages, Receive(v, m)
      PROVE  /\ place'[m] = "queued" /\ inHand'[v] = m
             /\ \A w \in Workers \ {v} : pc[w] \in Holding => inHand[w] # m
             /\ \A w \in Workers \ {v}, n \in Messages : ~Receive(w, n)
  <2>1. hidden[m] = 0 /\ place[m] = "queued" /\ place' = place /\ inHand'[v] = m
    BY <1>0, <1>1 DEF Receive, Fault, TypeOK
  <2>2. \A w \in Workers \ {v}, n \in Messages : ~Receive(w, n)
    BY <1>0, <1>1 DEF Receive, TypeOK
  <2>3. \A w \in Workers : pc[w] \in Holding => inHand[w] # m
    BY <1>0, <2>1 DEF HeldHidden, TypeOK
  <2>4. QED
    BY <2>1, <2>2, <2>3
<1>2. ASSUME NEW v \in Workers, pc[v] \in Holding, pc'[v] \in Holding, inHand'[v] = inHand[v]
      PROVE  place'[inHand'[v]] = "queued"
  <2>1. inHand[v] \in Messages /\ place[inHand[v]] = "queued"
    BY <1>0, <1>2 DEF WorkersInOrder, HandsApart
  <2>2. ASSUME NEW w \in Workers, Ack(w) PROVE inHand[w] # inHand[v]
    <3>1. w # v
      BY <1>0, <1>2, <2>2 DEF Ack, Leave, TypeOK
    <3>2. QED
      BY <1>2, <2>2, <3>1 DEF HandsApart, Ack
  <2>3. QED
    BY <1>2, <2>1, <2>2, QueuedStays
<1>3. QED
  BY <1>1, <1>2, HoldsOn DEF HandsApart

-----------------------------------------------------------------------------
(* The message of a retryable failure. *)

FailedWith(j, details) == status[j] = "FAILED" /\ errorDetails[j] = details
FailedRetryably(j) == FailedWith(j, "retryable")

\* A row comes to say so only by the catch block of a worker that holds its job.
LEMMA FailedBy ==
  ASSUME Inductive, [Next]_vars, NEW j \in Jobs, NEW details, FailedWith(j, details)'
  PROVE  \/ FailedWith(j, details)
         \/ \E w \in Workers : Fail(w) /\ Task(w) = j /\ FailureDetails(w) = details
<1> USE DEF jobVars, dataVars, queueVars, workerVars, FailedWith
<1>0. TypeOK
  BY DEF Inductive
<1>1. ASSUME NEW w \in Workers, Claim(w) PROVE FailedWith(j, details)
  <2>1. ClaimRow(Task(w))
    BY <1>1, Zenon DEF Claim
  <2>2. QED
    BY <1>0, <2>1 DEF ClaimRow, TypeOK
<1>2. ASSUME NEW w \in Workers, Complete(w) PROVE FailedWith(j, details)
  BY <1>0, <1>2 DEF Complete, UpdateRow, TypeOK
<1>3. ASSUME NEW w \in Workers, Fail(w)
      PROVE  FailedWith(j, details) \/ (Task(w) = j /\ FailureDetails(w) = details)
  <2>1. UNCHANGED jobVars \/ UpdateRow(Task(w), "FAILED", FailureDetails(w))
    BY <1>3, Zenon DEF Fail
  <2>2. QED
    BY <1>0, <2>1 DEF UpdateRow, TypeOK
<1>4. ASSUME NEW w \in Workers, WorkerStep(w), ~Claim(w), ~Complete(w), ~Fail(w)
      PROVE  status' = status /\ errorDetails' = errorDetails
  BY <1>4
  DEF WorkerStep, OwnStep, PollEmpty, PollStop, Receive, ReceiveError, Discard, ClaimSkip,
      ClaimError, Load, Analyze, CreateIfAbsent, InsertError, Reread, Ack, Restart, vars
<1>5. ASSUME NEW k \in Jobs, Request(k) PROVE FailedWith(j, details)
  BY <1>0, <1>5
  DEF Request, RequestFind, CreateElsewhere, RequestStep, RequestCreate, RequestSend,
      RequestLink, CreateRow, TypeOK
<1>6. CASE Environment
  BY <1>6
  DEF Environment, Disturbance, HandWrite, DeleteCompany, Crash, Sigterm, Tick, TimePasses
<1>7. QED
  BY <1>1, <1>2, <1>3, <1>4, <1>5, <1>6 DEF Next, vars

LEMMA AckSafeStep ==
  ASSUME Inductive, OneMessage, HandsApart, AckSafe, [Next]_vars
  PROVE  AckSafe'
<1> USE DEF jobVars, dataVars, queueVars, workerVars, Busy
<1>0. TypeOK /\ RowsFollowRequests /\ WorkersInOrder
  BY DEF Inductive
\* Jobs of unknown type.
<1>1. ASSUME NEW j \in Jobs, info'[j] = None \/ info'[j].type = "UNKNOWN"
      PROVE  errorDetails'[j] = "null"
  <2>1. info[j] = None \/ info[j].type = "UNKNOWN"
    BY <1>1, InfoKept
  <2>2. errorDetails[j] = "null"
    BY <2>1 DEF AckSafe
  <2>3. ASSUME NEW w \in Workers, Fail(w) PROVE errorDetails'[j] = "null"
    <3>1. Task(w) = j => FailureDetails(w) = errorDetails[j]
      <4>1. Task(w) = j => pc[w] = "failUnknown"
        BY <1>0, <2>1, <2>3, NoneAssumption
        DEF Fail, AckSafe, WorkersInOrder, RowsFollowRequests
      <4>2. QED
        BY <4>1 DEF FailureDetails
    <3>2. UNCHANGED jobVars \/ UpdateRow(Task(w), "FAILED", FailureDetails(w))
      BY <2>3, Zenon DEF Fail
    <3>3. QED
      BY <1>0, <2>2, <3>1, <3>2 DEF UpdateRow, TypeOK
  <2>4. ASSUME NEW w \in Workers, Claim(w) PROVE errorDetails'[j] = "null"
    <3>1. ClaimRow(Task(w))
      BY <2>4, Zenon DEF Claim
    <3>2. QED
      BY <2>2, <3>1 DEF ClaimRow
  <2>5. ASSUME NEW w \in Workers, Complete(w) PROVE errorDetails'[j] = "null"
    BY <1>0, <2>2, <2>5 DEF Complete, UpdateRow, TypeOK
  <2>6. ASSUME NEW w \in Workers, WorkerStep(w), ~Claim(w), ~Complete(w), ~Fail(w)
        PROVE  errorDetails' = errorDetails
    BY <2>6
    DEF WorkerStep, OwnStep, PollEmpty, PollStop, Receive, ReceiveError, Discard,
        ClaimSkip, ClaimError, Load, Analyze, CreateIfAbsent, InsertError, Reread, Ack,
        Restart, vars
  <2>7. ASSUME NEW k \in Jobs, Request(k) PROVE errorDetails' = errorDetails
    BY <2>7
    DEF Request, RequestFind, CreateElsewhere, RequestStep, RequestCreate, RequestSend,
        RequestLink, CreateRow
  <2>8. ASSUME Environment PROVE errorDetails' = errorDetails
    BY <2>8
    DEF Environment, Disturbance, HandWrite, DeleteCompany, Crash, Sigterm, Tick,
        TimePasses
  <2>9. QED
    BY <2>2, <2>3, <2>4, <2>5, <2>6, <2>7, <2>8 DEF Next, vars
\* A worker knows the type of its job from the claim on.
<1>2. ASSUME NEW w \in Workers, pc'[w] \in Busy
      PROVE  pc'[w] = "failUnknown" <=> info'[Task(w)'].type = "UNKNOWN"
  <2>1. CASE pc[w] \in Busy /\ inHand'[w] = inHand[w]
    <3>1. /\ inHand[w] \in Messages /\ place[inHand[w]] # "unsent"
          /\ Task(w) \in Jobs /\ info[Task(w)] # None
          /\ pc[w] = "failUnknown" <=> info[Task(w)].type = "UNKNOWN"
      BY <1>0, <2>1 DEF WorkersInOrder, RowsFollowRequests, AckSafe
    <3>2. Task(w)' = Task(w) /\ info'[Task(w)] = info[Task(w)]
      BY <2>1, <3>1, MessagesKept, InfoKept DEF Task
    <3>3. pc'[w] = "failUnknown" <=> pc[w] = "failUnknown"
      <4>1. CASE WorkerStep(w)
        BY <1>0, <1>2, <2>1, <4>1
        DEF WorkerStep, OwnStep, PollEmpty, PollStop, Receive, ReceiveError, Discard,
            Claim, ClaimSkip, ClaimError, Load, Analyze, CreateIfAbsent, InsertError,
            Reread, Complete, Fail, Ack, Restart, Goto, Leave, TypeOK, vars
      <4>2. QED
        BY <1>2, <4>1, MovesItself
    <3>4. QED
      BY <3>1, <3>2, <3>3
  <2>2. CASE Claim(w)
    <3>1. /\ inHand[w] \in Messages /\ place[inHand[w]] # "unsent"
          /\ inHand'[w] = inHand[w]
          /\ pc'[w] = Dispatch(info[Task(w)].type)
          /\ Claimable(Task(w))
      BY <1>0, <1>2, <2>2 DEF Claim, Goto, Leave, WorkersInOrder, TypeOK
    <3>2. Task(w) \in Jobs /\ info[Task(w)] \in Info
      BY <1>0, <3>1 DEF OneMessage, Task, Claimable, RowsFollowRequests, TypeOK
    <3>3. Task(w)' = Task(w) /\ info'[Task(w)] = info[Task(w)]
      BY <3>1, <3>2, NoneAssumption, MessagesKept, InfoKept DEF Task
    <3>4. info[Task(w)].type \in JobTypes
      BY <3>2 DEF Info
    <3>5. QED
      BY <3>1, <3>3, <3>4 DEF Dispatch, JobTypes
  <2>3. (pc[w] \in Busy /\ inHand'[w] = inHand[w]) \/ Claim(w)
    <3>1. CASE WorkerStep(w)
      BY <1>0, <1>2, <3>1
      DEF WorkerStep, OwnStep, PollEmpty, PollStop, Receive, ReceiveError, Discard,
          ClaimSkip, ClaimError, Load, Analyze, CreateIfAbsent, InsertError, Reread,
          Complete, Fail, Ack, Restart, Goto, Leave, TypeOK, vars
    <3>2. QED
      BY <1>2, <3>1, MovesItself
  <2>4. QED
    BY <2>1, <2>2, <2>3
\* A message about to be deleted is not that of a retryable failure.
<1>3. ASSUME NEW w \in Workers, pc'[w] = "ack", FailedRetryably(Task(w))'
      PROVE  FALSE
  <2>1. pc[w] \in Holding /\ inHand'[w] = inHand[w]
    BY <1>0, <1>3, HoldsOn DEF Holding, Receive, TypeOK
  <2>2. /\ inHand[w] \in Messages /\ place[inHand[w]] # "unsent"
        /\ Task(w) \in Jobs /\ Task(w)' = Task(w)
    BY <1>0, <2>1, MessagesKept DEF WorkersInOrder, Holding, OneMessage, Task
  <2>3. ASSUME NEW u \in Workers, Fail(u), Task(u) = Task(w) PROVE u = w
    <3>1. inHand[u] \in Messages /\ place[inHand[u]] # "unsent" /\ pc[u] \in Holding
      BY <1>0, <2>3 DEF Fail, WorkersInOrder, Holding
    <3>2. inHand[u] = inHand[w]
      BY <2>2, <2>3, <3>1 DEF OneMessage, Task
    <3>3. QED
      BY <2>1, <3>1, <3>2 DEF HandsApart
  <2>4. CASE WorkerStep(w)
    <3>1. CASE Discard(w)
      BY <2>2, <3>1, NoneAssumption DEF Discard
    <3>2. CASE ClaimSkip(w)
      BY <1>3, <2>2, <3>2 DEF ClaimSkip, Claimable, FailedRetryably, FailedWith
    <3>3. CASE Complete(w)
      BY <1>0, <1>3, <2>2, <3>3
      DEF Complete, UpdateRow, Goto, FailedRetryably, FailedWith, TypeOK
    <3>4. CASE Fail(w)
      <4>1. /\ pc[w] \in {"failPermanent", "failUnknown"}
            /\ UpdateRow(Task(w), "FAILED", FailureDetails(w))
        BY <1>0, <1>3, <3>4 DEF Fail, Goto, Leave, Rethrows, TypeOK
      <4>2. errorDetails'[Task(w)] = FailureDetails(w)
        BY <1>0, <2>2, <4>1 DEF UpdateRow, TypeOK
      <4>3. pc[w] = "failUnknown" => errorDetails[Task(w)] = "null"
        BY <2>2, <4>1 DEF AckSafe
      <4>4. QED
        BY <1>3, <2>2, <4>1, <4>2, <4>3 DEF FailureDetails, FailedRetryably, FailedWith
    <3>5. QED
      BY <1>0, <1>3, <2>1, <2>4, <3>1, <3>2, <3>3, <3>4
      DEF WorkerStep, OwnStep, PollEmpty, PollStop, Receive, ReceiveError, Claim,
          ClaimError, Load, Analyze, CreateIfAbsent, InsertError, Reread, Ack, Restart,
          Goto, Leave, Dispatch, Holding, TypeOK, vars
  <2>5. CASE pc[w] = "ack" /\ ~WorkerStep(w)
    <3>1. FailedRetryably(Task(w))
      BY <1>3, <2>2, <2>3, <2>5, FailedBy
      DEF WorkerStep, OwnStep, FailedRetryably, FailedWith
    <3>2. QED
      BY <2>5, <3>1 DEF AckSafe, FailedRetryably, FailedWith
  <2>6. QED
    BY <1>3, <2>4, <2>5, MovesItself
<1>4. QED
  BY <1>1, <1>2, <1>3 DEF AckSafe, FailedRetryably, FailedWith

LEMMA RedrivenStep ==
  ASSUME Inductive, HandsApart, AckSafe, RetryableFailureRedriven,
         [Next]_vars
  PROVE  RetryableFailureRedriven'
<1> SUFFICES ASSUME NEW j \in Jobs, FailedRetryably(j)'
             PROVE  \E m \in Messages : place'[m] = "queued" /\ body'[m] = j
  BY DEF RetryableFailureRedriven, FailedRetryably, FailedWith
<1> USE DEF jobVars, dataVars, queueVars, workerVars, Busy
<1>0. TypeOK /\ WorkersInOrder
  BY DEF Inductive
<1>1. ASSUME NEW w \in Workers, Fail(w), Task(w) = j
      PROVE  \E m \in Messages : place'[m] = "queued" /\ body'[m] = j
  BY <1>0, <1>1 DEF Fail, WorkersInOrder, HandsApart, Holding, Task
<1>2. ASSUME FailedRetryably(j)
      PROVE  \E m \in Messages : place'[m] = "queued" /\ body'[m] = j
  <2>1. PICK m \in Messages : place[m] = "queued" /\ body[m] = j
    BY <1>2 DEF RetryableFailureRedriven, FailedRetryably, FailedWith
  <2>2. ASSUME NEW w \in Workers, Ack(w) PROVE inHand[w] # m
    BY <1>2, <2>1, <2>2 DEF AckSafe, FailedRetryably, FailedWith, Ack, Task
  <2>3. QED
    BY <2>1, <2>2, QueuedStays, MessagesKept
<1>3. QED
  BY <1>1, <1>2, FailedBy DEF FailedRetryably

\* On a queue that delivers a message to one worker at a time, with provider
\* calls that fit its visibility timeout, a job that failed retryably always
\* has a message left, whatever crashes, is lost or fails.
THEOREM RetryableRedriven ==
  ASSUME OneDelivery
  PROVE  Spec => []RetryableFailureRedriven
<1> DEFINE Safe == /\ HeldHidden /\ OneMessage /\ HandsApart /\ AckSafe
                   /\ RetryableFailureRedriven
<1>1. Init => Safe
  BY DEF Init, HeldHidden, OneMessage, HandsApart, AckSafe, RetryableFailureRedriven,
         Holding, Busy
<1>2. Inductive /\ Safe /\ [Next]_vars => Safe'
  <2>1. "duplicate" \notin Faults /\ "replay" \notin Faults /\ CallsFitVisibility
    BY DEF OneDelivery
  <2>2. QED
    BY <2>1, HiddenStep, OneMessageStep, HandsApartStep, AckSafeStep, RedrivenStep
<1>3. Safe => RetryableFailureRedriven
  OBVIOUS
<1>4. QED
  BY InductiveHolds, <1>1, <1>2, <1>3, PTL DEF Spec

-----------------------------------------------------------------------------
(* The message of a permanent failure. *)

\* A row is PENDING until its request has sent the message.
LEMMA CreatedStep ==
  ASSUME Inductive, OneMessage, PermanentDone, [Next]_vars,
         NEW j \in Jobs, req'[j] = "created"
  PROVE  status'[j] = "PENDING"
<1> USE DEF jobVars, dataVars, queueVars, workerVars, Busy
<1>0. TypeOK /\ WorkersInOrder /\ RowsFollowRequests
  BY DEF Inductive
<1>1. ASSUME NEW k \in Jobs, Request(k) PROVE status'[j] = "PENDING"
  BY <1>0, <1>1
  DEF Request, RequestFind, CreateElsewhere, RequestStep, RequestCreate, RequestSend,
      RequestLink, CreateRow, PermanentDone, TypeOK
<1>2. CASE (\E w \in Workers : WorkerStep(w)) \/ Environment \/ UNCHANGED vars
  <2>1. req'[j] = req[j] /\ status[j] = "PENDING"
    BY <1>2, RowsStable DEF PermanentDone
  <2>2. ASSUME NEW w \in Workers, Claim(w) \/ Complete(w) \/ Fail(w) PROVE Task(w) # j
    BY <1>0, <2>1, <2>2 DEF Claim, Complete, Fail, OneMessage, WorkersInOrder, Task
  <2>3. QED
    BY <2>1, <2>2, RowMoves
<1>3. QED
  BY <1>1, <1>2 DEF Next

\* The worker about to delete a message does so before it does anything else.
LEMMA LeavesDeleting ==
  ASSUME Inductive, NothingLost, [Next]_vars, NEW w \in Workers, pc[w] = "ack"
  PROVE  \/ pc'[w] = "ack" /\ inHand'[w] = inHand[w]
         \/ place'[inHand[w]] = "deleted"
<1> USE DEF jobVars, dataVars, queueVars, workerVars
<1>0. TypeOK /\ WorkersInOrder
  BY DEF Inductive
<1>1. CASE WorkerStep(w)
  <2>1. Ack(w)
    BY <1>1
    DEF WorkerStep, OwnStep, PollEmpty, PollStop, Receive, ReceiveError, Discard, Claim,
        ClaimSkip, ClaimError, Load, Analyze, CreateIfAbsent, InsertError, Reread,
        Complete, Fail, Restart
  <2>2. QED
    BY <1>0, <2>1 DEF Ack, Fault, NothingLost, WorkersInOrder, TypeOK
<1>2. ASSUME pc'[w] = "down" PROVE WorkerStep(w)
  <2>1. ASSUME NEW u \in Workers, WorkerStep(u), u # w PROVE FALSE
    BY <1>0, <1>2, <2>1
    DEF WorkerStep, OwnStep, PollEmpty, PollStop, Receive, ReceiveError, Discard, Claim,
        ClaimSkip, ClaimError, Load, Analyze, CreateIfAbsent, InsertError, Reread,
        Complete, Fail, Ack, Restart, Goto, Leave, TypeOK, vars
  <2>2. ASSUME NEW k \in Jobs, Request(k) PROVE FALSE
    BY <1>2, <2>2
    DEF Request, RequestFind, CreateElsewhere, RequestStep, RequestCreate, RequestSend,
        RequestLink
  <2>3. CASE Environment
    BY <1>2, <2>3
    DEF Environment, Disturbance, HandWrite, DeleteCompany, Crash, Fault, NothingLost,
        Sigterm, Tick, TimePasses
  <2>4. QED
    BY <1>2, <2>1, <2>2, <2>3 DEF Next, vars
<1>3. QED
  BY <1>1, <1>2, MovesItself

LEMMA PermanentStep ==
  ASSUME NothingLost, Inductive, OneMessage, HandsApart, PermanentDone, [Next]_vars
  PROVE  PermanentDone'
<1> USE DEF jobVars, dataVars, queueVars, workerVars, Busy
<1>0. /\ TypeOK /\ WorkersInOrder
      /\ "replay" \notin Faults /\ "ambiguous" \notin Faults
  BY DEF Inductive, NothingLost, OneDelivery
<1>1. \A j \in Jobs : req'[j] = "created" => status'[j] = "PENDING"
  BY CreatedStep
<1>2. SUFFICES ASSUME NEW j \in Jobs, NEW m \in Messages, FailedWith(j, "permanent")',
                      place'[m] = "queued", body'[m] = j
               PROVE  \E w \in Workers : pc'[w] = "ack" /\ inHand'[w] = m
  BY <1>1 DEF PermanentDone, FailedWith
\* The message was there before: a job that was run sends none.
<1>3. place[m] = "queued" /\ body[m] = j
  <2>1. ASSUME NEW k \in Jobs, NEW n \in Messages, RequestSend(k), Enqueue(n, k)
        PROVE  m # n
    <3>1. status[k] = "PENDING" /\ status' = status
      BY <2>1 DEF RequestSend, PermanentDone
    <3>2. body'[n] = k
      BY <1>0, <2>1 DEF Enqueue, TypeOK
    <3>3. QED
      BY <1>2, <3>1, <3>2 DEF FailedWith
  <2>2. place[m] # "unsent"
    <3>1. ASSUME NEW k \in Jobs, NEW n \in Messages, RequestSend(k), Enqueue(n, k)
          PROVE  place'[m] = place[m]
      BY <1>0, <2>1, <3>1 DEF Enqueue, TypeOK
    <3>2. QED
      BY <1>0, <1>2, <3>1, MailStep
  <2>3. QED
    <3>1. CASE Tick
      BY <1>2, <2>2, <3>1, MessagesKept DEF Tick, TimePasses
    <3>2. CASE ~Tick
      BY <1>0, <1>2, <2>2, <3>2, MessagesKept, HiddenKept
    <3>3. QED
      BY <3>1, <3>2
\* It failed just now, and its worker goes on to delete the message it holds.
<1>4. ASSUME NEW w \in Workers, Fail(w), Task(w) = j, FailureDetails(w) = "permanent",
             ~FailedWith(j, "permanent")
      PROVE  \E u \in Workers : pc'[u] = "ack" /\ inHand'[u] = m
  <2>1. inHand[w] = m
    BY <1>0, <1>3, <1>4 DEF Fail, WorkersInOrder, OneMessage, Task
  <2>2. ~UNCHANGED jobVars
    BY <1>2, <1>4 DEF FailedWith
  <2>3. pc[w] # "failRetryable"
    BY <1>4 DEF FailureDetails
  <2>4. Goto(w, "ack")
    BY <1>0, <1>4, <2>2, <2>3 DEF Fail, Rethrows, Fault
  <2>5. QED
    BY <1>0, <2>1, <2>4 DEF Goto, TypeOK
<1>5. CASE FailedWith(j, "permanent")
  <2>1. PICK w \in Workers : pc[w] = "ack" /\ inHand[w] = m
    BY <1>3, <1>5 DEF PermanentDone, FailedWith
  <2>2. QED
    BY <1>2, <2>1, LeavesDeleting
<1>6. QED
  BY <1>2, <1>4, <1>5, FailedBy

LEMMA NotRerunStep ==
  ASSUME Inductive, HandsApart, PermanentDone, [Next]_vars,
         NEW j \in Jobs, FailedWith(j, "permanent")
  PROVE  status'[j] = "FAILED"
<1> USE DEF Busy, FailedWith
<1>0. WorkersInOrder
  BY DEF Inductive
\* Who works on the job, or is about to claim it, would hold its message.
<1>1. ASSUME NEW w \in Workers, pc[w] \in Busy \cup {"claim"}, Task(w) = j
      PROVE  FALSE
  <2>1. inHand[w] \in Messages /\ place[inHand[w]] = "queued" /\ body[inHand[w]] = j
    BY <1>0, <1>1 DEF WorkersInOrder, HandsApart, Holding, Task
  <2>2. PICK u \in Workers : pc[u] = "ack" /\ inHand[u] = inHand[w]
    BY <2>1 DEF PermanentDone
  <2>3. u = w
    BY <1>1, <2>2 DEF HandsApart, Holding
  <2>4. QED
    BY <1>1, <2>2, <2>3
<1>2. ASSUME NEW w \in Workers, Claim(w) \/ Complete(w) \/ Fail(w) PROVE Task(w) # j
  BY <1>1, <1>2 DEF Claim, Complete, Fail
<1>3. QED
  BY <1>2, RowMoves

\* Where besides no worker is killed and no answer of the queue or the database
\* is lost, a job that failed for good is not claimed again.
THEOREM PermanentStays ==
  ASSUME NothingLost
  PROVE  Spec => PermanentFailureNotRerun
<1> DEFINE Safe == HeldHidden /\ OneMessage /\ HandsApart /\ PermanentDone
<1>1. Init => Safe
  BY DEF Init, HeldHidden, OneMessage, HandsApart, PermanentDone, Holding, Busy
<1>2. Inductive /\ Safe /\ [Next]_vars => Safe'
  <2>1. "duplicate" \notin Faults /\ "replay" \notin Faults /\ CallsFitVisibility
    BY DEF NothingLost, OneDelivery
  <2>2. QED
    BY <2>1, HiddenStep, OneMessageStep, HandsApartStep, PermanentStep
<1>3. Inductive /\ Safe /\ [Next]_vars =>
        [\A j \in Jobs : (status[j] = "FAILED" /\ errorDetails[j] = "permanent")
                           => status'[j] = "FAILED"]_vars
  BY NotRerunStep DEF FailedWith
<1>4. QED
  BY InductiveHolds, <1>1, <1>2, <1>3, PTL DEF Spec, PermanentFailureNotRerun

-----------------------------------------------------------------------------
(* The claims of a job, where its message is delivered to one worker at a  *)
(* time.                                                                   *)

\* Two workers that have the same job are one worker.
LEMMA OneHolder ==
  ASSUME WorkersInOrder, OneMessage, HandsApart,
         NEW v \in Workers, pc[v] \in Holding,
         NEW w \in Workers, pc[w] \in Holding, Task(v) = Task(w)
  PROVE  v = w
<1>1. /\ inHand[v] \in Messages /\ place[inHand[v]] # "unsent"
      /\ inHand[w] \in Messages /\ place[inHand[w]] # "unsent"
  BY DEF WorkersInOrder, Holding
<1>2. inHand[v] = inHand[w]
  BY <1>1 DEF OneMessage, Task
<1>3. QED
  BY <1>2 DEF HandsApart

\* With provider calls that fit the visibility timeout, and a message delivered
\* to one worker at a time, a claim is exclusive whatever the lease is: not even
\* a lease shorter than a call lets a second worker in.
THEOREM OneWinnerByDelivery ==
  ASSUME OneDelivery
  PROVE  Spec => []LeaseExclusive
<1> DEFINE Safe == HeldHidden /\ OneMessage /\ HandsApart
<1>1. Init => Safe
  BY DEF Init, HeldHidden, OneMessage, HandsApart, Holding, Busy
<1>2. Inductive /\ Safe /\ [Next]_vars => Safe'
  BY HiddenStep, OneMessageStep, HandsApartStep DEF OneDelivery
<1>3. Inductive /\ Safe => LeaseExclusive
  BY OneHolder DEF Inductive, LeaseExclusive, Holds, Holding
<1>4. QED
  BY InductiveHolds, <1>1, <1>2, <1>3, PTL DEF Spec

\* Where no answer of the database is lost, the row of a job some worker holds a
\* claim on is PROCESSING.
HeldProcessing ==
  \A w \in Workers : pc[w] \in Busy => status[Task(w)] = "PROCESSING"

LEMMA HeldProcessingStep ==
  ASSUME Inductive, OneMessage, HandsApart, HeldProcessing, "ambiguous" \notin Faults,
         [Next]_vars
  PROVE  HeldProcessing'
<1> SUFFICES ASSUME NEW w \in Workers, pc'[w] \in Busy
             PROVE  status'[Task(w)'] = "PROCESSING"
  BY DEF HeldProcessing
<1> USE DEF jobVars, dataVars, queueVars, workerVars, Busy
<1>0. TypeOK /\ WorkersInOrder
  BY DEF Inductive
<1>1. pc[w] \in Holding /\ inHand'[w] = inHand[w]
  BY <1>0, HoldsOn DEF Holding, Receive, TypeOK
<1>2. Task(w) \in Jobs /\ Task(w)' = Task(w)
  BY <1>0, <1>1, MessagesKept DEF WorkersInOrder, Holding, OneMessage, Task
<1>3. CASE pc[w] \in Busy
  <2>1. status[Task(w)] = "PROCESSING"
    BY <1>3 DEF HeldProcessing
  <2>2. ASSUME NEW u \in Workers, Claim(u) \/ Complete(u) \/ Fail(u), Task(u) = Task(w)
        PROVE  u = w
    BY <1>0, <1>1, <2>2, OneHolder DEF Claim, Complete, Fail, Holding
  <2>3. CASE Complete(w)
    BY <1>0, <1>2, <2>1, <2>3 DEF Complete, Goto, Fault, TypeOK
  <2>4. ~Claim(w)
    BY <1>3 DEF Claim
  <2>5. ~Fail(w)
    BY <1>0 DEF Fail, Goto, Leave, TypeOK
  <2>6. QED
    BY <1>2, <2>1, <2>2, <2>3, <2>4, <2>5, RowMoves
<1>4. CASE pc[w] \notin Busy
  <2>1. WorkerStep(w)
    BY <1>4, MovesItself
  <2>2. Claim(w)
    BY <1>0, <1>1, <1>4, <2>1
    DEF WorkerStep, OwnStep, PollEmpty, PollStop, Receive, ReceiveError, Discard,
        ClaimSkip, ClaimError, Load, Analyze, CreateIfAbsent, InsertError, Reread, Complete,
        Fail, Ack, Restart, Goto, Leave, Holding, TypeOK, vars
  <2>3. ClaimRow(Task(w))
    BY <2>2, Zenon DEF Claim
  <2>4. QED
    BY <1>0, <1>2, <2>3 DEF ClaimRow, TypeOK
<1>5. QED
  BY <1>3, <1>4

\* Nor, as long as no answer of the database is lost, is a finished job taken up
\* again under such a lease.
THEOREM CompletedStaysByDelivery ==
  ASSUME OneDelivery, "ambiguous" \notin Faults
  PROVE  Spec => CompletedIsTerminal
<1> DEFINE Safe == HeldHidden /\ OneMessage /\ HandsApart /\ HeldProcessing
<1>1. Init => Safe
  BY DEF Init, HeldHidden, OneMessage, HandsApart, HeldProcessing, Holding, Busy
<1>2. Inductive /\ Safe /\ [Next]_vars => Safe'
  BY HiddenStep, OneMessageStep, HandsApartStep, HeldProcessingStep DEF OneDelivery
<1>3. ASSUME Inductive, Safe, [Next]_vars, NEW j \in Jobs, status[j] = "COMPLETED"
      PROVE  status'[j] = "COMPLETED"
  <2>1. ASSUME NEW w \in Workers, Task(w) = j PROVE ~Claim(w) /\ ~Complete(w) /\ ~Fail(w)
    <3>1. ~Claim(w)
      BY <1>3, <2>1 DEF Claim, Claimable
    <3>2. pc[w] \notin Busy
      BY <1>3, <2>1 DEF HeldProcessing
    <3>3. QED
      BY <3>1, <3>2 DEF Complete, Fail, Busy
  <2>2. QED
    BY <1>3, <2>1, RowMoves
<1>4. Inductive /\ Safe /\ [Next]_vars =>
        [\A j \in Jobs : status[j] = "COMPLETED" => status'[j] = "COMPLETED"]_vars
  BY <1>3
<1>5. QED
  BY InductiveHolds, <1>1, <1>2, <1>4, PTL DEF Spec, CompletedIsTerminal

-----------------------------------------------------------------------------
(* The message of an abandoned claim.                                      *)

\* A row is PROCESSING because it was, or because it is claimed in this step.
LEMMA ProcessingBy ==
  ASSUME Inductive, OneMessage, [Next]_vars, NEW j \in Jobs, status'[j] = "PROCESSING"
  PROVE  \/ status[j] = "PROCESSING" /\ (Tick \/ age'[j] = age[j])
         \/ \E w \in Workers : Claim(w) /\ Task(w) = j /\ age'[j] = 0
<1> USE DEF jobVars, dataVars, queueVars, workerVars
<1>0. TypeOK
  BY DEF Inductive
<1>1. ASSUME NEW w \in Workers, Claim(w), Task(w) = j PROVE age'[j] = 0
  <2>1. ClaimRow(Task(w))
    BY <1>1, Zenon DEF Claim
  <2>2. QED
    BY <1>0, <1>1, <2>1 DEF ClaimRow, TypeOK
<1>2. ASSUME NEW w \in Workers, Complete(w), Task(w) = j
      PROVE  status[j] = "PROCESSING" /\ age'[j] = age[j]
  BY <1>0, <1>2 DEF Complete, UpdateRow, TypeOK
<1>3. ASSUME NEW w \in Workers, Fail(w), Task(w) = j
      PROVE  status[j] = "PROCESSING" /\ age'[j] = age[j]
  <2>1. UNCHANGED jobVars \/ UpdateRow(Task(w), "FAILED", FailureDetails(w))
    BY <1>3, Zenon DEF Fail
  <2>2. QED
    BY <1>0, <1>3, <2>1 DEF UpdateRow, TypeOK
<1>4. QED
  BY <1>1, <1>2, <1>3, RowMoves

LEMMA ClaimsRedrivenStep ==
  ASSUME LeaseRunsOut, Inductive, HeldHidden, OneMessage, HandsApart, ClaimsRedriven,
         [Next]_vars
  PROVE  ClaimsRedriven'
<1> USE DEF jobVars, dataVars, queueVars, workerVars, Busy
<1>0. /\ TypeOK /\ WorkersInOrder
      /\ "duplicate" \notin Faults /\ "replay" \notin Faults /\ Prompt
      /\ Lease \in Nat /\ Visibility \in Nat /\ Lease < Visibility
  BY TimeAssumption DEF Inductive, LeaseRunsOut, OneDelivery, CallsFitVisibility
<1>1. ASSUME NEW u \in Workers, Claim(u)
      PROVE  /\ pc[u] = "claim" /\ pc'[u] \notin {"claim", "ack"}
             /\ inHand[u] \in Messages /\ place[inHand[u]] = "queued"
  BY <1>0, <1>1 DEF Claim, Goto, Leave, Dispatch, WorkersInOrder, HandsApart, Holding, TypeOK
\* The message stays: who could delete it is not at that step.
<1>2. ASSUME NEW j \in Jobs, status'[j] = "PROCESSING"
      PROVE  \E m \in Messages : place'[m] = "queued" /\ body'[m] = j
  <2>1. CASE status[j] = "PROCESSING"
    <3>1. PICK m \in Messages : place[m] = "queued" /\ body[m] = j
      BY <2>1 DEF ClaimsRedriven
    <3>2. ASSUME NEW w \in Workers, Ack(w) PROVE inHand[w] # m
      BY <2>1, <3>1, <3>2 DEF ClaimsRedriven, Ack, Task
    <3>3. QED
      BY <3>1, <3>2, QueuedStays, MessagesKept
  <2>2. ASSUME NEW u \in Workers, Claim(u), Task(u) = j
        PROVE  place'[inHand[u]] = "queued" /\ body'[inHand[u]] = j
    BY <1>1, <2>2 DEF Claim, Task
  <2>3. QED
    BY <1>1, <1>2, <2>1, <2>2, ProcessingBy
\* It comes back no sooner than the claim is stale.
<1>3. ASSUME NEW m \in Messages, place'[m] = "queued",
             NEW j \in Jobs, body'[m] = j, status'[j] = "PROCESSING"
      PROVE  age'[j] + hidden'[m] > Lease
  <2>1. place[m] # "unsent"
    <3>1. ASSUME NEW n \in Messages, RequestSend(j), Enqueue(n, j) PROVE FALSE
      BY <1>3, <3>1 DEF RequestSend, ClaimsRedriven, OneMessage
    <3>2. ASSUME NEW k \in Jobs, NEW n \in Messages, RequestSend(k), Enqueue(n, k), m = n
          PROVE  k = j
      BY <1>0, <1>3, <3>2 DEF Enqueue, TypeOK
    <3>3. ASSUME NEW k \in Jobs, NEW n \in Messages, RequestSend(k), Enqueue(n, k), m # n
          PROVE  place'[m] = place[m]
      BY <1>0, <3>3 DEF Enqueue, TypeOK
    <3>4. QED
      BY <1>0, <1>3, <3>1, <3>2, <3>3, MailStep
  <2>2. body[m] = j
    BY <1>3, <2>1, MessagesKept
  <2>3. CASE Tick
    <3>1. /\ place[m] = "queued" /\ status[j] = "PROCESSING"
          /\ age'[j] = IF age[j] <= Lease THEN age[j] + 1 ELSE age[j]
          /\ hidden'[m] = IF hidden[m] > 0 THEN hidden[m] - 1 ELSE 0
      BY <1>3, <2>3 DEF Tick, TimePasses
    <3>2. age[j] + hidden[m] > Lease /\ age[j] \in Nat /\ hidden[m] \in Nat
      BY <1>0, <2>2, <3>1 DEF ClaimsRedriven, TypeOK
    <3>3. QED
      BY <1>0, <3>1, <3>2
  <2>4. CASE ~Tick
    <3>1. place[m] = "queued" /\ hidden'[m] \in {hidden[m], Visibility}
      BY <1>0, <1>3, <2>1, <2>4, HiddenKept
    <3>2. hidden[m] \in 0..Visibility /\ age[j] \in Nat
      BY <1>0 DEF TypeOK
    <3>3. CASE status[j] = "PROCESSING" /\ age'[j] = age[j]
      <4>1. age[j] + hidden[m] > Lease
        BY <2>2, <3>1, <3>3 DEF ClaimsRedriven
      <4>2. QED
        BY <1>0, <3>1, <3>2, <3>3, <4>1
    <3>4. ASSUME NEW u \in Workers, Claim(u), Task(u) = j, age'[j] = 0
          PROVE  age'[j] + hidden'[m] > Lease
      <4>1. inHand[u] = m
        BY <1>1, <2>1, <2>2, <3>4 DEF OneMessage, Task
      <4>2. elapsed[u] = 0 /\ hidden[m] >= Visibility - elapsed[u]
        BY <1>1, <3>1, <3>4, <4>1 DEF HeldHidden, Holding
      <4>3. QED
        BY <1>0, <3>1, <3>2, <3>4, <4>2
    <3>5. QED
      BY <1>3, <2>4, <3>3, <3>4, ProcessingBy
  <2>5. QED
    BY <2>3, <2>4
\* A worker with the message in hand is the only one to have the job.
<1>4. ASSUME NEW w \in Workers, pc[w] \in Holding,
             NEW u \in Workers, Claim(u), Task(u) = Task(w)
      PROVE  u = w
  BY <1>0, <1>1, <1>4, OneHolder DEF Holding
<1>5. ASSUME NEW w \in Workers, pc'[w] = "claim",
             NEW j \in Jobs, Task(w)' = j, status'[j] = "PROCESSING"
      PROVE  age'[j] > Lease
  <2>1. ASSUME NEW m \in Messages, Receive(w, m) PROVE age'[j] > Lease
    <3>1. /\ place[m] = "queued" /\ hidden[m] = 0 /\ body[m] = j
          /\ status[j] = "PROCESSING" /\ age'[j] = age[j]
      BY <1>0, <1>5, <2>1 DEF Receive, Fault, Task, TypeOK
    <3>2. age[j] + hidden[m] > Lease /\ age[j] \in Nat
      BY <1>0, <3>1 DEF ClaimsRedriven, TypeOK
    <3>3. QED
      BY <1>0, <3>1, <3>2
  <2>2. CASE pc[w] \in Holding /\ inHand'[w] = inHand[w]
    <3>1. pc[w] = "claim"
      <4>1. CASE WorkerStep(w)
        BY <1>0, <1>5, <2>2, <4>1
        DEF WorkerStep, OwnStep, PollEmpty, PollStop, Receive, ReceiveError, Discard, Claim,
            ClaimSkip, ClaimError, Load, Analyze, CreateIfAbsent, InsertError, Reread,
            Complete, Fail, Ack, Restart, Goto, Leave, Dispatch, Holding, TypeOK, vars
      <4>2. QED
        BY <1>5, <4>1, MovesItself
    <3>2. Task(w) = j
      BY <1>0, <1>5, <2>2, <3>1, MessagesKept DEF WorkersInOrder, Task
    <3>3. ~Tick
      BY <1>0, <3>1 DEF Tick, TimePasses
    <3>4. ASSUME NEW u \in Workers, Claim(u) PROVE Task(u) # j
      BY <1>1, <1>4, <1>5, <2>2, <3>2, <3>4
    <3>5. status[j] = "PROCESSING" /\ age'[j] = age[j]
      BY <1>5, <3>3, <3>4, ProcessingBy
    <3>6. QED
      BY <3>1, <3>2, <3>5 DEF ClaimsRedriven
  <2>3. QED
    BY <1>5, <2>1, <2>2, HoldsOn DEF Holding
<1>6. ASSUME NEW w \in Workers, pc'[w] = "ack",
             NEW j \in Jobs, Task(w)' = j, status'[j] = "PROCESSING"
      PROVE  FALSE
  <2>1. pc[w] \in Holding /\ inHand'[w] = inHand[w]
    BY <1>0, <1>6, HoldsOn DEF Holding, Receive, TypeOK
  <2>2. Task(w) = j
    BY <1>0, <1>6, <2>1, MessagesKept DEF WorkersInOrder, Holding, Task
  <2>3. ASSUME NEW u \in Workers, Claim(u) PROVE Task(u) # j
    BY <1>1, <1>4, <1>6, <2>1, <2>2, <2>3
  <2>4. status[j] = "PROCESSING"
    BY <1>6, <2>3, ProcessingBy
  <2>5. pc[w] # "ack"
    BY <2>2, <2>4 DEF ClaimsRedriven
  <2>6. WorkerStep(w)
    BY <1>6, <2>5, MovesItself
  <2>7. ~Discard(w)
    BY <2>2, NoneAssumption DEF Discard
  <2>8. ~ClaimSkip(w)
    BY <2>2, <2>4 DEF ClaimSkip, Claimable, ClaimsRedriven
  <2>9. ~Complete(w)
    BY <1>0, <1>6, <2>2 DEF Complete, UpdateRow, Goto, TypeOK
  <2>10. ~Fail(w)
    <3>1. Fail(w) => UpdateRow(Task(w), "FAILED", FailureDetails(w))
      BY <1>0, <1>6 DEF Fail, Leave, TypeOK
    <3>2. QED
      BY <1>0, <1>6, <2>2, <3>1 DEF UpdateRow, TypeOK
  <2>11. QED
    BY <1>0, <1>6, <2>1, <2>5, <2>6, <2>7, <2>8, <2>9, <2>10
    DEF WorkerStep, OwnStep, PollEmpty, PollStop, Receive, ReceiveError, Claim, ClaimError,
        Load, Analyze, CreateIfAbsent, InsertError, Reread, Ack, Restart, Goto, Leave,
        Dispatch, Holding, TypeOK, vars
<1>7. QED
  BY <1>2, <1>3, <1>5, <1>6 DEF ClaimsRedriven

\* Where moreover the lease is shorter than the visibility timeout, a claim that
\* nobody holds any more has a message left, whatever crashed, was lost or failed.
THEOREM AbandonedRedriven ==
  ASSUME LeaseRunsOut
  PROVE  Spec => []AbandonedClaimRedriven
<1> DEFINE Safe == HeldHidden /\ OneMessage /\ HandsApart /\ ClaimsRedriven
<1>1. Init => Safe
  BY DEF Init, HeldHidden, OneMessage, HandsApart, ClaimsRedriven, Holding, Busy
<1>2. Inductive /\ Safe /\ [Next]_vars => Safe'
  BY HiddenStep, OneMessageStep, HandsApartStep, ClaimsRedrivenStep
  DEF LeaseRunsOut, OneDelivery
<1>3. Safe => AbandonedClaimRedriven
  BY DEF ClaimsRedriven, AbandonedClaimRedriven
<1>4. QED
  BY InductiveHolds, <1>1, <1>2, <1>3, PTL DEF Spec
=============================================================================
