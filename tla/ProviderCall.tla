---------------------------- MODULE ProviderCall ----------------------------
(***************************************************************************)
(* The job worker together with the provider call it waits for: the        *)
(* configuration that picks a provider, the requests the Anthropic SDK     *)
(* sends with its own timeout and retries, and what each answer becomes    *)
(* for the job.  AnalysisPipeline knows of a call only that it lasts at    *)
(* most MaxCall and ends in one of three ways; this module shows why.      *)
(***************************************************************************)
EXTENDS AnalysisPipeline

CONSTANT Backends  \* what the workers' environments may resolve to

BackendKinds == {"anthropic", "mock", "misconfigured"}

ASSUME BackendAssumption == Backends \subseteq BackendKinds

VARIABLES
  sent,    \* requests the SDK has sent for a worker's current call
  waited   \* time since the last of them

callVars == <<sent, waited>>
allVars  == <<vars, callVars>>

\* What a request may come back with: a parsed result, a refusal, a response
\* without one or that does not parse (a truncated one, say), a status, silence.
Replies == {"ok", "refusal", "unparsed", "malformed", "badRequest",
            "unauthorized", "forbidden", "notFound", "requestTimeout",
            "conflict", "rateLimit", "serverError", "noConnection"}

-----------------------------------------------------------------------------
(* What an answer means. *)

\* The statuses the SDK tries again by itself, and a connection that fails.
SdkRetries(reply) ==
  reply \in {"requestTimeout", "conflict", "rateLimit", "serverError", "noConnection"}

\* The errors that toProviderError, once the SDK has given up, and the checks of
\* analyze make retryable: the others end the job.
Retryable(reply) == reply \in {"rateLimit", "serverError", "noConnection"}

\* Where the worker goes on: runAnalysis, or the catch block of processJob.
Outcome(reply) ==
  IF reply = "ok" THEN "insert"
  ELSE IF Retryable(reply) THEN "failRetryable" ELSE "failPermanent"

\* Slip: one request more than configured, as a retry loop of our own would send.
AttemptsLeftExtra(w) == sent[w] <= MaxRetries + 1

AttemptsLeft(w) == sent[w] <= MaxRetries

\* Slip: the SDK's default of ten minutes in place of AI_TIMEOUT_MS.
TimedOutLate(w) == waited[w] >= 5 * AttemptTimeout

TimedOut(w) == waited[w] >= AttemptTimeout

-----------------------------------------------------------------------------
(* The call. *)

\* No call is running for a worker that is not at the provider.
ClearCalls ==
  /\ sent' = [w \in Workers |-> IF pc'[w] = "analyze" THEN sent[w] ELSE 0]
  /\ waited' = [w \in Workers |-> IF pc'[w] = "analyze" THEN waited[w] ELSE 0]

\* The call ends: Analyze, with the one outcome that the answer has.
Conclude(w, step) ==
  /\ Analyze(w)
  /\ pc'[w] = step
  /\ ClearCalls

\* The mock answers at once; an environment that names no provider or lacks the
\* key throws.
Mocked(w) == Conclude(w, "insert")
Unconfigured(w) == Conclude(w, "failPermanent")

\* getAnalysisProvider and getClient.  What throws here throws again for the next
\* job, since a provider is cached only once it was built.
Resolve(w) ==
  /\ pc[w] = "analyze"
  /\ sent[w] = 0
  /\ \E backend \in Backends :
       \/ /\ backend = "anthropic"
          /\ sent' = [sent EXCEPT ![w] = 1]
          /\ UNCHANGED <<waited, vars>>
       \/ backend = "mock" /\ Mocked(w)
       \/ backend = "misconfigured" /\ Unconfigured(w)

\* A reply that is final, or that no attempt is left for.
Answered(w, reply) ==
  /\ sent[w] > 0
  /\ SdkRetries(reply) => ~AttemptsLeft(w)
  /\ Conclude(w, Outcome(reply))

\* The SDK sends the request again, after a reply it retries or on its timeout.
Resend(w) ==
  /\ pc[w] = "analyze"
  /\ sent[w] > 0
  /\ AttemptsLeft(w)
  /\ sent' = [sent EXCEPT ![w] = @ + 1]
  /\ waited' = [waited EXCEPT ![w] = 0]
  /\ UNCHANGED vars

CallStep(w) ==
  \/ Resolve(w)
  \/ \E reply \in Replies : Answered(w, reply)
  \/ Resend(w)

\* Resolving takes no time, and the SDK lets no attempt outlast its timeout.
CallTick ==
  /\ \A w \in Workers : pc[w] = "analyze" => sent[w] > 0 /\ ~TimedOut(w)
  /\ TimePasses
  /\ waited' = [w \in Workers |-> IF pc[w] = "analyze" THEN waited[w] + 1 ELSE 0]
  /\ UNCHANGED sent

-----------------------------------------------------------------------------
CallInit ==
  /\ Init
  /\ sent = [w \in Workers |-> 0]
  /\ waited = [w \in Workers |-> 0]

Others ==
  \/ \E j \in Jobs : Request(j)
  \/ \E w \in Workers : OwnStep(w)
  \/ Disturbance

CallNext ==
  \/ \E w \in Workers : CallStep(w)
  \/ Others /\ ClearCalls
  \/ CallTick

CallSpec == CallInit /\ [][CallNext]_allVars

\* As in AnalysisPipeline; the SDK's timer is part of the passing of time.
CallFairness ==
  /\ \A j \in Jobs : WF_allVars(RequestStep(j) /\ ClearCalls)
  /\ \A w \in Workers : WF_allVars((OwnStep(w) /\ ClearCalls) \/ CallStep(w))
  /\ WF_allVars(CallTick)

CallFairSpec == CallSpec /\ CallFairness

-----------------------------------------------------------------------------
(* Correctness. *)

\* The SDK sends at most one request per configured attempt, and a call has
\* lasted no longer than the attempts it made were allowed to.
CallTypeOK ==
  /\ sent \in [Workers -> 0..(MaxRetries + 1)]
  /\ waited \in [Workers -> 0..AttemptTimeout]
  /\ \A w \in Workers :
       /\ pc[w] # "analyze" => sent[w] = 0
       /\ sent[w] = 0 => waited[w] = 0 /\ elapsed[w] = 0
       /\ sent[w] > 0 => elapsed[w] <= (sent[w] - 1) * AttemptTimeout + waited[w]

\* A call in the hands of the SDK is to the worker what AnalysisPipeline says:
\* it ends by MaxCall, in an answer or a failure of either kind.  What is proved
\* about AnalysisPipeline holds of the worker with the provider it really has.
PipelineSpec == Spec
=============================================================================
