--------------------------- MODULE CompanyAnalyses ---------------------------
(***************************************************************************)
(* A company's page: it loads the company, then the analyses; a question   *)
(* is posted and the analyses are polled until the job's own shows up.     *)
(* Each request is read by the server and answered to the page later.      *)
(*                                                                         *)
(* The server is the ledger that AnalysisPipeline is shown to implement:   *)
(* the page's questions, other users' and the deletion of the company are  *)
(* steps of AnalysisLedger, and no more is assumed of the worker.          *)
(***************************************************************************)
EXTENDS Integers, SequencesExt

CONSTANTS
  Jobs,         \* analyses requested for this company
  Company,
  Org,
  Workers,
  None,
  PollAttempts, \* POLL_ATTEMPTS
  PageSize      \* the newest analyses that the API returns, 50

ASSUME AnalysesAssumption ==
  /\ None \notin Jobs
  /\ PollAttempts \in Nat \ {0}
  /\ PageSize \in Nat \ {0}

VARIABLES
  terms, answers, open,  \* the ledger
  created,   \* the rows of company_analyses, by their jobs, newest first
  page,      \* what CompanyDetail shows, or that the user has left
  analyses, question, pending, error, notice,   \* CompanyAnalyses' state; of the
                                                \* question, whether there is one
  load,      \* the first request for the analyses, and what it read
  submit,    \* the await submit is at
  job,       \* the job it waits for
  attempt,   \* its polls so far
  data,      \* what its poll read
  beside     \* history: a poll was sent while the first load was still out

serverVars == <<terms, answers, open, created>>
viewVars == <<analyses, question, pending, error, notice>>
pollVars == <<submit, job, attempt, data, beside>>
vars == <<serverVars, page, viewVars, load, pollVars>>

Asked == [stage |-> "asked", data |-> <<>>]

-----------------------------------------------------------------------------
(* The server. *)

Question == [org |-> Org, company |-> Company]

Ledger == INSTANCE AnalysisLedger WITH
  Companies <- {Company}, CompanyOrg <- [c \in {Company} |-> Org],
  Attempts <- Workers, Terms <- {Question}

\* getAnalyses for this company, which need not exist any more
Recorded == SubSeq(created, 1, Min({PageSize, Len(created)}))

\* The worker answers; a job that fails for good is one it never answers.
Work(j, w) ==
  /\ Ledger!Answer(j, w)
  /\ created' = <<j>> \o created
  /\ UNCHANGED <<page, viewVars, load, pollVars>>

\* requestAnalysis finds the company; that it may be gone before the job's row
\* is there makes no difference to anyone.
Accept(j) ==
  /\ Company \in open
  /\ Ledger!Accept(j, Question)
  /\ UNCHANGED created

\* Somebody else asks about the same company.
AskElsewhere(j) ==
  /\ Accept(j)
  /\ UNCHANGED <<page, viewVars, load, pollVars>>

\* Somebody deletes it, and the analyses with it.
DeleteCompany ==
  /\ Ledger!Drop(Company)
  /\ created' = <<>>
  /\ UNCHANGED <<page, viewVars, load, pollVars>>

-----------------------------------------------------------------------------
(* CompanyDetail, and the analyses' first load. *)

CompanyRead ==
  /\ page = "loading"
  /\ Company \in open
  /\ page' = "found"
  /\ UNCHANGED <<serverVars, viewVars, load, pollVars>>

\* The page opens, and load's effect asks for the analyses.
CompanyArrives ==
  /\ \/ page = "found" /\ page' = "open" /\ load' = Asked
     \/ page \in {"loading", "found"} /\ page' = "error" /\ UNCHANGED load
  /\ UNCHANGED <<serverVars, viewVars, pollVars>>

Leave ==
  /\ page # "left"
  /\ page' = "left"
  /\ UNCHANGED <<serverVars, viewVars, load, pollVars>>

\* Slip: mounted is not looked at.
MountedAlways == TRUE

\* mounted.current
Mounted == page = "open"

LoadRead ==
  /\ load.stage = "asked"
  /\ load' = [stage |-> "read", data |-> Recorded]
  /\ UNCHANGED <<serverVars, page, viewVars, pollVars>>

LoadArrives ==
  /\ load.stage # "none"
  /\ load' = [load EXCEPT !.stage = "none"]
  /\ \/ load.stage = "read" /\ Mounted /\ analyses' = load.data /\ UNCHANGED error
     \/ Mounted /\ error' = TRUE /\ UNCHANGED analyses
     \/ ~Mounted /\ UNCHANGED <<analyses, error>>
  /\ UNCHANGED <<serverVars, page, question, pending, notice, pollVars>>

-----------------------------------------------------------------------------
(* submit *)

Goes(await) == submit' = await /\ UNCHANGED <<job, attempt, data, beside>>

\* Slip: no finally.
EndsPending == submit' = "idle" /\ UNCHANGED pending

\* finally: the button comes back.
Ends == submit' = "idle" /\ pending' = (pending /\ ~Mounted)

\* The user writes a question, or clears it; the box is disabled while a submit
\* is pending.
Write ==
  /\ page = "open"
  /\ ~pending
  /\ question' = ~question
  /\ UNCHANGED <<serverVars, page, analyses, pending, error, notice, load, pollVars>>

\* The button is disabled while a submit is pending or there is no question.
Submit ==
  /\ page = "open"
  /\ ~pending
  /\ question
  /\ pending' = TRUE
  /\ error' = FALSE
  /\ notice' = FALSE
  /\ Goes("posting")
  /\ UNCHANGED <<serverVars, page, analyses, question, load>>

\* requestAnalysis creates the job and queues it.
Post(j) ==
  /\ submit = "posting"
  /\ Accept(j)
  /\ job' = j
  /\ submit' = "posted"
  /\ UNCHANGED <<page, viewVars, load, attempt, data, beside>>

\* Slip: the count of the last submit is kept.
LastAttempt == attempt

FirstAttempt == 0

\* The box is emptied, mounted or not.
PostArrives ==
  /\ submit = "posted"
  /\ submit' = "sleeping"
  /\ question' = FALSE
  /\ attempt' = FirstAttempt
  /\ UNCHANGED <<serverVars, page, analyses, pending, error, notice, load, job, data, beside>>

\* sleep(POLL_INTERVAL_MS)
Wake ==
  /\ submit = "sleeping"
  /\ \/ /\ Mounted
        /\ submit' = "polling"
        /\ beside' = (beside \/ load.stage # "none")
        /\ UNCHANGED pending
     \/ ~Mounted /\ Ends /\ UNCHANGED beside
  /\ UNCHANGED <<serverVars, page, analyses, question, error, notice, load, job,
                 attempt, data>>

PollRead ==
  /\ submit = "polling"
  /\ submit' = "polled"
  /\ data' = Recorded
  /\ UNCHANGED <<serverVars, page, viewVars, load, job, attempt, beside>>

\* Slip: one more analysis than before is taken for the one waited for.
ArrivedByCount == analyses # None /\ Len(data) > Len(analyses)

\* data.some((analysis) => analysis.jobId === jobId)
Arrived == job \in ToSet(data)

\* Slip: only the analysis that was asked for is kept.
ShownAlone == SelectSeq(data, LAMBDA j : j = job)

\* setAnalyses(data)
Shown == data

\* Slip: attempt is never incremented.
SameAttempt == attempt

NextAttempt == attempt + 1

PollArrives ==
  /\ submit = "polled"
  /\ \/ /\ ~Mounted
        /\ Ends
        /\ UNCHANGED <<analyses, notice, attempt>>
     \/ /\ Mounted
        /\ analyses' = Shown
        /\ IF Arrived
             THEN Ends /\ UNCHANGED <<notice, attempt>>
             ELSE /\ attempt' = NextAttempt
                  /\ IF NextAttempt = PollAttempts
                       THEN Ends /\ notice' = TRUE
                       ELSE submit' = "sleeping" /\ UNCHANGED <<pending, notice>>
  /\ UNCHANGED <<serverVars, page, question, error, load, job, data, beside>>

\* A request fails, or its answer is lost.
SubmitFails ==
  /\ submit \in {"posting", "posted", "polling", "polled"}
  /\ error' = (error \/ Mounted)
  /\ Ends
  /\ UNCHANGED <<serverVars, page, analyses, question, notice, load, job, attempt, data,
                 beside>>

-----------------------------------------------------------------------------
Init ==
  /\ Ledger!Init
  /\ created = <<>>
  /\ page = "loading"
  /\ analyses = None
  /\ question = FALSE
  /\ pending = FALSE
  /\ error = FALSE
  /\ notice = FALSE
  /\ load = [stage |-> "none", data |-> <<>>]
  /\ submit = "idle"
  /\ job = None
  /\ attempt = 0
  /\ data = <<>>
  /\ beside = FALSE

LoadStep == LoadRead \/ LoadArrives

SubmitStep ==
  \/ \E j \in Jobs : Post(j)
  \/ PostArrives \/ Wake \/ PollRead \/ PollArrives \/ SubmitFails

Next ==
  \/ CompanyRead \/ CompanyArrives \/ Leave
  \/ Write \/ Submit
  \/ LoadStep
  \/ SubmitStep
  \/ \E j \in Jobs : AskElsewhere(j) \/ \E w \in Workers : Work(j, w)
  \/ DeleteCompany

Spec == Init /\ [][Next]_vars

\* A request ends, with an answer or an error, and a timer fires.  No worker need
\* run.
FairSpec == Spec /\ WF_vars(LoadStep) /\ WF_vars(SubmitStep)

-----------------------------------------------------------------------------
(* Correctness. *)

\* Every variable holds a value the code can give it.
AnalysesTypeOK ==
  /\ terms \in [Jobs -> {Question, None}]
  /\ answers \subseteq [job : Jobs, org : {Org}, company : {Company}, attempt : Workers]
  /\ open \subseteq {Company}
  /\ created \in Seq(Jobs)
  /\ page \in {"loading", "found", "error", "open", "left"}
  /\ analyses \in Seq(Jobs) \cup {None}
  /\ question \in BOOLEAN /\ pending \in BOOLEAN /\ error \in BOOLEAN /\ notice \in BOOLEAN
  /\ load \in [stage : {"none", "asked", "read"}, data : Seq(Jobs)]
  /\ submit \in {"idle", "posting", "posted", "sleeping", "polling", "polled"}
  /\ job \in Jobs \cup {None}
  /\ attempt \in 0..PollAttempts
  /\ data \in Seq(Jobs)
  /\ beside \in BOOLEAN

\* The disabled button is what keeps a second submit from running beside the
\* first, so it is disabled exactly while one runs, whatever fails.
PendingIsSubmit == page = "open" => (pending <=> submit # "idle")

\* A submit does not end in silence: the analysis that was asked for is on the
\* page, or an error, or the notice.  "The only check that cannot be fooled by a
\* stale count" (CompanyAnalyses.tsx): somebody else's analysis does not pass for it.
OutcomeTold ==
  [][pending /\ ~pending' =>
       error' \/ notice' \/ job \in ToSet(analyses')]_vars

\* "Polling outlives a navigation away; this stops it writing to a dead tree"
\* (CompanyAnalyses.tsx): once the user has left, no request that was still out
\* changes the page's state, but for the answer to a POST, which empties the
\* question without asking whether anybody is there.
QuietAfterLeaving ==
  [][page = "left" =>
       /\ UNCHANGED <<analyses, pending, error, notice>>
       /\ question' # question => submit = "posted" /\ submit' = "sleeping" /\ ~question']_vars

\* "The poll gives up instead of spinning forever": the button comes back, with
\* and without a worker.
PollEnds == pending ~> ~pending \/ page = "left"

\* One list was read after the other: it has new rows in front, and has lost
\* old ones only to the limit.
Later(new, old) ==
  \E k \in 0..Len(new) :
    /\ IsPrefix(SubSeq(new, k + 1, Len(new)), old)
    /\ Len(new) - k = Len(old) \/ Len(new) = PageSize

\* What the page has shown it does not take back while the company exists: a
\* list is replaced by an older one only if a poll and the first load were out
\* at once, since nothing tells their answers apart.
PageMovesOn ==
  [][analyses # None /\ analyses' # analyses /\ Company \in open =>
       beside \/ Later(analyses', analyses)]_vars

\* "Still queued. It will appear here once a worker has picked the job up.": what
\* the notice promises, as long as the company is there.
NoticeKept ==
  \A j \in Jobs :
    notice /\ job = j /\ (\E a \in answers : a.job = j) ~>
      \/ page = "left" \/ ~notice \/ Company \notin open
      \/ analyses # None /\ j \in ToSet(analyses)

-----------------------------------------------------------------------------
(* Why they hold. *)

\* Polls go on while attempts are left, and nothing is submitted before the page
\* is open.
SubmitInOrder ==
  /\ submit \in {"sleeping", "polling", "polled"} => attempt < PollAttempts
  /\ page \in {"loading", "found"} => submit = "idle" /\ ~pending

AnalysesInductive == AnalysesTypeOK /\ PendingIsSubmit /\ SubmitInOrder

\* The list was read when the n newest of the rows were not there yet.
ReadBefore(list, rows, n) ==
  /\ Len(list) = Min({PageSize, Len(rows) - n})
  /\ \A i \in 1..Len(list) : list[i] = rows[n + i]

\* Unless a poll was sent beside the first load, that load comes before all
\* polls; and a poll's answer was read after what the page shows.
ReadsInOrder ==
  /\ page \in {"loading", "found"} => analyses = None /\ load.stage = "none"
  /\ load.stage # "none" /\ ~beside =>
       analyses = None /\ submit \notin {"polling", "polled"}
  /\ Company \in open /\ ~beside =>
       /\ load.stage = "read" => \E n \in 0..Len(created) : ReadBefore(load.data, created, n)
       /\ submit = "polled" => \E m \in 0..Len(created) : ReadBefore(data, created, m)
       /\ analyses # None =>
            \E n \in 0..Len(created) :
              /\ ReadBefore(analyses, created, n)
              /\ submit = "polled" => \E m \in 0..n : ReadBefore(data, created, m)
=============================================================================
