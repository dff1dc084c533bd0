--------------------------- MODULE AnalysisLedger ---------------------------
(***************************************************************************)
(* What the analysis pipeline promises its tenants, with no queue, worker, *)
(* claim or clock in it: a job is accepted on terms that never change, and *)
(* is answered at most once, for a company of its own tenant that still    *)
(* exists.  Answers leave only with their company, and a company that is   *)
(* gone never returns.                                                     *)
(***************************************************************************)
CONSTANTS Jobs, Companies, CompanyOrg, Attempts, Terms, None

VARIABLES
  terms,    \* the terms of an accepted job, None before
  answers,  \* who was told what: [job, org, company, attempt]
  open      \* the companies that exist

ledger == <<terms, answers, open>>

Init ==
  /\ terms = [j \in Jobs |-> None]
  /\ answers = {}
  /\ open = Companies

Accept(j, t) ==
  /\ terms[j] = None
  /\ terms' = [terms EXCEPT ![j] = t]
  /\ UNCHANGED <<answers, open>>

Answer(j, attempt) ==
  /\ terms[j] # None
  /\ terms[j].company \in open
  /\ terms[j].org = CompanyOrg[terms[j].company]
  /\ \A a \in answers : a.job # j
  /\ answers' = answers \cup
       {[job |-> j, org |-> terms[j].org,
         company |-> terms[j].company, attempt |-> attempt]}
  /\ UNCHANGED <<terms, open>>

Drop(c) ==
  /\ c \in open
  /\ open' = open \ {c}
  /\ answers' = {a \in answers : a.company # c}
  /\ UNCHANGED terms

Next ==
  \/ \E j \in Jobs, t \in Terms : Accept(j, t)
  \/ \E j \in Jobs, attempt \in Attempts : Answer(j, attempt)
  \/ \E c \in Companies : Drop(c)

Spec == Init /\ [][Next]_ledger
=============================================================================
