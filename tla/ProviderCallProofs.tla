------------------------- MODULE ProviderCallProofs -------------------------
(***************************************************************************)
(* Proofs that a worker with the provider it really calls is a worker of   *)
(* AnalysisPipeline, for every timeout, number of attempts and answer, so  *)
(* that every theorem about AnalysisPipeline holds of it.                  *)
(***************************************************************************)
EXTENDS ProviderCall, RedeliveryProofs

\* The attempts made so far are allowed no more time than all of them.
LEMMA AttemptsFit ==
  ASSUME NEW a \in 1..(MaxRetries + 1)
  PROVE  (a - 1) * AttemptTimeout + AttemptTimeout <= MaxCall
<1> DEFINE left == MaxRetries + 1 - a
<1>1. a \in Nat /\ left \in Nat /\ MaxRetries \in Nat /\ AttemptTimeout \in Nat
  BY TimeAssumption
<1>2. left * AttemptTimeout >= 0
  BY <1>1
<1>3. MaxCall = (a - 1) * AttemptTimeout + AttemptTimeout + left * AttemptTimeout
  BY <1>1 DEF MaxCall
<1>4. (a - 1) * AttemptTimeout \in Int /\ left * AttemptTimeout \in Int /\ MaxCall \in Int
  BY <1>1, MaxCallNat
<1>5. QED
  BY ONLY <1>1, <1>2, <1>3, <1>4

CallInv == Inductive /\ CallTypeOK

\* Before the clock moves on, a call that is still running has time left.
LEMMA TimeLeft ==
  ASSUME CallInv, NEW w \in Workers, pc[w] = "analyze", sent[w] > 0, ~TimedOut(w)
  PROVE  elapsed[w] < MaxCall
<1>1. /\ sent[w] \in 1..(MaxRetries + 1)
      /\ waited[w] \in Nat /\ waited[w] < AttemptTimeout /\ AttemptTimeout \in Nat
      /\ elapsed[w] \in Nat
      /\ elapsed[w] <= (sent[w] - 1) * AttemptTimeout + waited[w]
  BY TimeAssumption, MaxCallNat DEF CallInv, CallTypeOK, TimedOut, Inductive, TypeOK
<1>2. (sent[w] - 1) * AttemptTimeout \in Int /\ MaxCall \in Int
  BY <1>1, MaxCallNat
<1>3. (sent[w] - 1) * AttemptTimeout + AttemptTimeout <= MaxCall
  BY <1>1, AttemptsFit
<1>4. QED
  BY ONLY <1>1, <1>2, <1>3

\* A request, its answer and its repetition are the worker's one await.
LEMMA StepIsPipeline ==
  ASSUME CallInv, [CallNext]_allVars
  PROVE  [Next]_vars
<1>1. ASSUME NEW w \in Workers, CallStep(w) PROVE Analyze(w) \/ UNCHANGED vars
  BY <1>1 DEF CallStep, Resolve, Mocked, Unconfigured, Answered, Resend, Conclude
<1>2. CASE Others
  BY <1>2 DEF Others, Next, WorkerStep, Environment
<1>3. CASE CallTick
  <2>1. Tick
    BY <1>3, TimeLeft DEF CallTick, Tick
  <2>2. QED
    BY <2>1 DEF Next, Environment
<1>4. QED
  BY <1>1, <1>2, <1>3 DEF CallNext, Next, WorkerStep, allVars

\* Only the clock and the end of a call move a stopwatch.
LEMMA OthersKeepTime ==
  ASSUME TypeOK, \A w \in Workers : pc[w] # "analyze" => elapsed[w] = 0, Others
  PROVE  \A w \in Workers : /\ elapsed'[w] \in {0, elapsed[w]}
                            /\ pc'[w] = pc[w] => elapsed'[w] = elapsed[w]
<1> USE DEF jobVars, dataVars, queueVars, workerVars
<1>1. ASSUME NEW j \in Jobs, Request(j) PROVE elapsed' = elapsed
  BY <1>1 DEF Request, RequestFind, CreateElsewhere, RequestStep, RequestCreate,
     RequestSend, RequestLink
<1>2. ASSUME NEW w \in Workers, OwnStep(w) PROVE elapsed' = elapsed
  BY <1>2
  DEF OwnStep, PollEmpty, PollStop, Receive, ReceiveError, Discard, Claim, ClaimSkip,
      ClaimError, Load, CreateIfAbsent, InsertError, Reread, Complete, Fail, Ack, Restart,
      Goto, Leave, vars
<1>3. ASSUME NEW w \in Workers, Crash(w)
      PROVE  \A u \in Workers : /\ elapsed'[u] \in {0, elapsed[u]}
                                /\ pc'[u] = pc[u] => elapsed'[u] = elapsed[u]
  BY <1>3 DEF Crash, TypeOK
<1>4. ASSUME Disturbance, \A w \in Workers : ~Crash(w) PROVE elapsed' = elapsed
  BY <1>4 DEF Disturbance, HandWrite, DeleteCompany, Sigterm
<1>5. QED
  BY <1>1, <1>2, <1>3, <1>4 DEF Others

\* A worker's stopwatch is back at zero when it leaves the provider.
LEMMA CallTypeStep ==
  ASSUME CallInv, [CallNext]_allVars
  PROVE  CallTypeOK'
<1> USE DEF jobVars, dataVars, queueVars, workerVars
<1>0. /\ TypeOK /\ CallTypeOK /\ [Next]_vars
      /\ AttemptTimeout \in Nat /\ MaxRetries \in Nat
      /\ \A w \in Workers : pc[w] # "analyze" => elapsed[w] = 0
  BY StepIsPipeline, TimeAssumption DEF CallInv, CallTypeOK, Inductive
<1>1. TypeOK'
  BY <1>0, TypeStep DEF CallInv
\* Calls that are cleared for the workers that leave the provider, or enter it.
<1>2. ASSUME ClearCalls,
             \A w \in Workers :
               pc'[w] = "analyze" /\ sent[w] > 0 => elapsed'[w] = elapsed[w],
             \A w \in Workers :
               pc'[w] = "analyze" /\ sent[w] = 0 => elapsed'[w] = 0
      PROVE  CallTypeOK'
  <2>1. /\ sent' \in [Workers -> 0..(MaxRetries + 1)]
        /\ waited' \in [Workers -> 0..AttemptTimeout]
    BY <1>0, <1>2 DEF ClearCalls, CallTypeOK
  <2>2. ASSUME NEW w \in Workers
        PROVE  /\ pc'[w] # "analyze" => sent'[w] = 0
               /\ sent'[w] = 0 => waited'[w] = 0 /\ elapsed'[w] = 0
               /\ sent'[w] > 0 =>
                    elapsed'[w] <= (sent'[w] - 1) * AttemptTimeout + waited'[w]
    <3>1. CASE pc'[w] = "analyze"
      <4>1. sent'[w] = sent[w] /\ waited'[w] = waited[w] /\ sent[w] \in Nat
        BY <1>0, <1>2, <3>1 DEF ClearCalls, CallTypeOK
      <4>2. CASE sent[w] = 0
        BY <1>0, <1>2, <3>1, <4>1, <4>2 DEF CallTypeOK
      <4>3. CASE sent[w] > 0
        BY <1>0, <1>2, <3>1, <4>1, <4>3 DEF CallTypeOK
      <4>4. QED
        BY <4>1, <4>2, <4>3
    <3>2. CASE pc'[w] # "analyze"
      <4>1. sent'[w] = 0 /\ waited'[w] = 0
        BY <1>2, <3>2 DEF ClearCalls
      <4>2. elapsed'[w] = 0
        BY <1>0, <3>2, StopwatchRuns
      <4>3. QED
        BY <3>2, <4>1, <4>2
    <3>3. QED
      BY <3>1, <3>2
  <2>3. QED
    BY <2>1, <2>2 DEF CallTypeOK
<1>3. ASSUME \A w \in Workers :
               /\ elapsed'[w] \in {0, elapsed[w]}
               /\ pc'[w] = pc[w] => elapsed'[w] = elapsed[w]
      PROVE  \A w \in Workers :
               /\ pc'[w] = "analyze" /\ sent[w] > 0 => elapsed'[w] = elapsed[w]
               /\ pc'[w] = "analyze" /\ sent[w] = 0 => elapsed'[w] = 0
  <2>1. \A w \in Workers : /\ sent[w] > 0 => pc[w] = "analyze"
                           /\ sent[w] = 0 => elapsed[w] = 0
    BY <1>0 DEF CallTypeOK
  <2>2. QED
    BY <1>3, <2>1
<1>4. ASSUME NEW w \in Workers, CallStep(w) PROVE CallTypeOK'
  <2>1. ASSUME NEW step, Conclude(w, step) PROVE CallTypeOK'
    <3>1. /\ pc[w] = "analyze" /\ pc'[w] # "analyze"
          /\ pc' = [pc EXCEPT ![w] = pc'[w]] /\ elapsed' = [elapsed EXCEPT ![w] = 0]
      BY <1>0, <2>1 DEF Conclude, Analyze, TypeOK
    <3>2. \A u \in Workers :
            /\ elapsed'[u] \in {0, elapsed[u]}
            /\ pc'[u] = pc[u] => elapsed'[u] = elapsed[u]
      BY <1>0, <3>1 DEF TypeOK
    <3>3. QED
      BY <1>2, <1>3, <2>1, <3>2 DEF Conclude
  <2>2. CASE Resolve(w)
    BY <1>0, <2>1, <2>2 DEF Resolve, Mocked, Unconfigured, CallTypeOK, vars
  <2>3. CASE Resend(w)
    <3>1. /\ sent[w] \in 1..MaxRetries /\ sent[w] + 1 \in 1..(MaxRetries + 1)
          /\ waited[w] \in Nat /\ waited[w] <= AttemptTimeout
          /\ elapsed[w] <= (sent[w] - 1) * AttemptTimeout + waited[w]
      BY <1>0, <2>3 DEF Resend, AttemptsLeft, CallTypeOK
    <3>2. elapsed[w] <= (sent[w] + 1 - 1) * AttemptTimeout + 0
      <4>1. (sent[w] - 1) * AttemptTimeout + AttemptTimeout = sent[w] * AttemptTimeout
        BY <1>0, <3>1
      <4>2. (sent[w] - 1) * AttemptTimeout \in Int /\ sent[w] * AttemptTimeout \in Int
            /\ elapsed[w] \in Int
        BY <1>0, <3>1, MaxCallNat DEF TypeOK
      <4>3. elapsed[w] <= sent[w] * AttemptTimeout
        BY ONLY <1>0, <3>1, <4>1, <4>2
      <4>4. sent[w] + 1 - 1 = sent[w]
        BY <3>1
      <4>5. QED
        BY <4>2, <4>3, <4>4
    <3>3. /\ sent' = [sent EXCEPT ![w] = sent[w] + 1]
          /\ waited' = [waited EXCEPT ![w] = 0]
          /\ pc' = pc /\ elapsed' = elapsed /\ pc[w] = "analyze"
      BY <2>3 DEF Resend, vars
    <3>4. QED
      BY <1>0, <3>1, <3>2, <3>3 DEF CallTypeOK
  <2>4. QED
    BY <1>4, <2>1, <2>2, <2>3 DEF CallStep, Answered
<1>5. CASE Others /\ ClearCalls
  BY <1>0, <1>2, <1>3, <1>5, OthersKeepTime
<1>6. CASE CallTick
  BY <1>0, <1>6 DEF CallTick, TimePasses, TimedOut, CallTypeOK, TypeOK
<1>7. CASE UNCHANGED allVars
  BY <1>0, <1>7 DEF allVars, vars, callVars, CallTypeOK
<1>8. QED
  BY <1>4, <1>5, <1>6, <1>7 DEF CallNext

LEMMA CallInvHolds == CallSpec => []CallInv
<1>1. CallInit => CallInv
  <2>1. CallInit => Inductive
    BY InitInductive DEF CallInit
  <2>2. CallInit => CallTypeOK
    BY TimeAssumption DEF CallInit, Init, CallTypeOK
  <2>3. QED
    BY <2>1, <2>2 DEF CallInv
<1>2. CallInv /\ [CallNext]_allVars => CallInv'
  <2>1. Inductive /\ [Next]_vars => Inductive'
    BY TypeStep, RowsStep, WorkersStep, AnalysesStep, CompletionsStep, CompletedStep,
       PendingStep DEF Inductive
  <2>2. QED
    BY <2>1, StepIsPipeline, CallTypeStep DEF CallInv
<1>3. QED
  BY <1>1, <1>2, PTL DEF CallSpec

\* The SDK sends no more requests than configured, and a call has lasted no
\* longer than the attempts it made may last.
THEOREM CallsBounded == CallSpec => []CallTypeOK
<1>1. CallInv => CallTypeOK
  BY DEF CallInv
<1>2. QED
  BY CallInvHolds, <1>1, PTL

\* A worker waiting for the SDK is a worker of AnalysisPipeline: the call ends
\* by MaxCall, and the theorems about AnalysisPipeline hold of it.
THEOREM ImplementsPipeline == CallSpec => PipelineSpec
<1>1. CallInit => Init
  BY DEF CallInit
<1>2. CallInv /\ [CallNext]_allVars => [Next]_vars
  BY StepIsPipeline
<1>3. QED
  BY CallInvHolds, <1>1, <1>2, PTL DEF CallSpec, PipelineSpec, Spec

\* What carries over, for the properties this module's run checks.
COROLLARY CallsRedriven ==
  ASSUME OneDelivery
  PROVE  CallSpec => [](RetryableFailureRedriven /\ CallKeepsMessage)
BY ImplementsPipeline, RetryableRedriven, SlowCallsHidden, PTL
   DEF PipelineSpec, OneDelivery
=============================================================================
