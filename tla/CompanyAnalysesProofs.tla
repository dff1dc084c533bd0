------------------------ MODULE CompanyAnalysesProofs ------------------------
(* Theorems about CompanyAnalyses, for any jobs, workers, page size and number *)
(* of polls.                                                                   *)
EXTENDS CompanyAnalyses, SequenceTheorems, TLAPS

-----------------------------------------------------------------------------
(* The list of analyses. *)

\* The first page is a list of jobs as long as the rows are.
LEMMA RecordedType ==
  ASSUME created \in Seq(Jobs)
  PROVE  Recorded \in Seq(Jobs)
<1> DEFINE n == Min({PageSize, Len(created)})
<1>1. Len(created) \in Nat /\ PageSize \in Nat
  BY AnalysesAssumption
<1>2. \E m \in {PageSize, Len(created)} : \A y \in {PageSize, Len(created)} : m <= y
  BY <1>1
<1>3. n \in 0..Len(created)
  BY <1>1, <1>2 DEF Min
<1> HIDE DEF n
<1>4. SubSeq(created, 1, n) \in Seq(Jobs)
  BY <1>1, <1>3
<1> QED
  BY <1>4 DEF Recorded, n

\* A new analysis goes in front.
LEMMA InFront ==
  ASSUME created \in Seq(Jobs), NEW j \in Jobs
  PROVE  <<j>> \o created \in Seq(Jobs)
OBVIOUS

-----------------------------------------------------------------------------
(* The inductive invariant. *)

\* It holds when the page is opened.
LEMMA InitInductive == Init => AnalysesInductive
<1> SUFFICES ASSUME Init
             PROVE  AnalysesInductive
  OBVIOUS
<1>1. load \in [stage : {"none", "asked", "read"}, data : Seq(Jobs)]
  BY DEF Init
<1>2. attempt \in 0..PollAttempts /\ job \in Jobs \cup {None}
      /\ data \in Seq(Jobs) /\ created \in Seq(Jobs) /\ analyses \in Seq(Jobs) \cup {None}
  BY AnalysesAssumption DEF Init
<1>3. terms \in [Jobs -> {Question, None}] /\ answers = {} /\ open = {Company}
  BY DEF Init, Ledger!Init
<1>4. AnalysesTypeOK
  BY <1>1, <1>2, <1>3 DEF Init, AnalysesTypeOK
<1>5. PendingIsSubmit /\ SubmitInOrder
  BY DEF Init, PendingIsSubmit, SubmitInOrder
<1> QED
  BY <1>4, <1>5 DEF AnalysesInductive

\* The server's variables keep to their types, whoever writes them.
LEMMA ServerTyped ==
  ASSUME AnalysesTypeOK,
         \/ \E j \in Jobs : Accept(j) \/ \E w \in Workers : Work(j, w)
         \/ DeleteCompany
  PROVE  /\ terms' \in [Jobs -> {Question, None}]
         /\ answers' \subseteq [job : Jobs, org : {Org}, company : {Company}, attempt : Workers]
         /\ open' \subseteq {Company}
         /\ created' \in Seq(Jobs)
<1> USE DEF AnalysesTypeOK
<1>1. ASSUME NEW j \in Jobs, Accept(j)
      PROVE  /\ terms' \in [Jobs -> {Question, None}]
             /\ UNCHANGED <<answers, open, created>>
  BY <1>1 DEF Accept, Ledger!Accept
<1>2. ASSUME NEW j \in Jobs, NEW w \in Workers, Work(j, w)
      PROVE  /\ UNCHANGED <<terms, open>>
             /\ answers' \subseteq [job : Jobs, org : {Org}, company : {Company}, attempt : Workers]
             /\ created' \in Seq(Jobs)
  <2>1. terms[j] = Question
    BY <1>2 DEF Work, Ledger!Answer
  <2>2. answers' = answers \cup {[job |-> j, org |-> Org, company |-> Company, attempt |-> w]}
    BY <1>2, <2>1 DEF Work, Ledger!Answer, Question
  <2>3. created' \in Seq(Jobs)
    BY <1>2, InFront DEF Work
  <2> QED
    BY <1>2, <2>2, <2>3 DEF Work, Ledger!Answer
<1>3. CASE DeleteCompany
  BY <1>3 DEF DeleteCompany, Ledger!Drop
<1> QED
  BY <1>1, <1>2, <1>3

\* The server's steps, the first load and the user's leaving keep it.
LEMMA OutsideKeeps ==
  ASSUME AnalysesInductive,
         \/ CompanyRead \/ CompanyArrives \/ Leave \/ Write \/ LoadStep \/ DeleteCompany
         \/ \E j \in Jobs : AskElsewhere(j) \/ \E w \in Workers : Work(j, w)
  PROVE  AnalysesInductive'
<1> USE DEF AnalysesInductive, AnalysesTypeOK, PendingIsSubmit, SubmitInOrder,
            viewVars, pollVars, serverVars
<1>1. CASE CompanyRead
  BY <1>1 DEF CompanyRead
<1>2. CASE CompanyArrives
  <2>1. Asked \in [stage : {"none", "asked", "read"}, data : Seq(Jobs)]
    <3>1. <<>> \in Seq(Jobs)
      OBVIOUS
    <3> QED
      BY <3>1 DEF Asked
  <2> QED
    BY <1>2, <2>1 DEF CompanyArrives
<1>3. CASE Leave
  BY <1>3 DEF Leave
<1>4. CASE Write
  <2>1. /\ question' = ~question /\ question' \in BOOLEAN
        /\ UNCHANGED <<serverVars, page, analyses, pending, error, notice, load, pollVars>>
    BY <1>4 DEF Write
  <2> QED
    BY <2>1
<1>5. CASE LoadRead
  BY <1>5, RecordedType DEF LoadRead
<1>6. CASE LoadArrives
  BY <1>6 DEF LoadArrives, Mounted
<1>7. ASSUME \/ DeleteCompany
             \/ \E j \in Jobs : AskElsewhere(j) \/ \E w \in Workers : Work(j, w)
      PROVE  AnalysesInductive'
  <2>1. UNCHANGED <<page, viewVars, load, pollVars>>
    BY <1>7 DEF DeleteCompany, AskElsewhere, Work
  <2>2. \/ \E j \in Jobs : Accept(j) \/ \E w \in Workers : Work(j, w)
        \/ DeleteCompany
    BY <1>7 DEF AskElsewhere
  <2> QED
    BY <2>1, <2>2, ServerTyped
<1> QED
  BY <1>1, <1>2, <1>3, <1>4, <1>5, <1>6, <1>7 DEF LoadStep

\* So does every step of a submit.
LEMMA SubmitKeeps ==
  ASSUME AnalysesInductive, Submit \/ SubmitStep
  PROVE  AnalysesInductive'
<1> USE AnalysesAssumption
    DEF AnalysesInductive, AnalysesTypeOK, PendingIsSubmit, SubmitInOrder, viewVars,
        serverVars, Goes
<1>1. CASE Submit
  BY <1>1 DEF Submit
<1>2. ASSUME NEW j \in Jobs, Post(j)
      PROVE  AnalysesInductive'
  <2>1. /\ terms' \in [Jobs -> {Question, None}]
        /\ UNCHANGED <<answers, open, created>>
    BY <1>2 DEF Post, Accept, Ledger!Accept
  <2> QED
    BY <1>2, <2>1 DEF Post
<1>3. CASE PostArrives
  <2>1. /\ submit = "posted" /\ submit' = "sleeping" /\ question' = FALSE /\ attempt' = 0
        /\ UNCHANGED <<serverVars, page, analyses, pending, error, notice, load, job, data,
                       beside>>
    BY <1>3 DEF PostArrives, FirstAttempt
  <2>2. question' \in BOOLEAN
    BY <2>1
  <2>3. attempt' \in 0..PollAttempts /\ attempt' < PollAttempts
    BY <2>1
  <2>4. AnalysesTypeOK'
    BY <2>1, <2>2, <2>3
  <2>5. PendingIsSubmit' /\ SubmitInOrder'
    BY <2>1, <2>3
  <2> QED
    BY <2>4, <2>5
<1>4. CASE Wake
  BY <1>4 DEF Wake, Mounted, Ends
<1>5. CASE PollRead
  BY <1>5, RecordedType DEF PollRead
<1>6. CASE PollArrives
  <2>1. CASE ~Mounted
    BY <1>6, <2>1 DEF PollArrives, Mounted, Ends
  <2>2. CASE Mounted /\ Arrived
    BY <1>6, <2>2 DEF PollArrives, Mounted, Ends, Shown
  <2>3. CASE Mounted /\ ~Arrived /\ NextAttempt = PollAttempts
    <3>1. attempt' \in 0..PollAttempts
      BY <1>6, <2>3 DEF PollArrives
    <3>2. submit' = "idle" /\ ~pending' /\ pending' \in BOOLEAN /\ notice' = TRUE
          /\ analyses' = data
      BY <1>6, <2>3 DEF PollArrives, Ends, Shown
    <3> QED
      BY <1>6, <2>3, <3>1, <3>2 DEF PollArrives, Mounted
  <2>4. CASE Mounted /\ ~Arrived /\ NextAttempt # PollAttempts
    <3>1. attempt' \in 0..PollAttempts /\ attempt' < PollAttempts
      BY <1>6, <2>4 DEF PollArrives, NextAttempt
    <3>2. submit' = "sleeping" /\ pending' = pending /\ notice' = notice /\ analyses' = data
      BY <1>6, <2>4 DEF PollArrives, Shown
    <3> QED
      BY <1>6, <2>4, <3>1, <3>2 DEF PollArrives, Mounted
  <2> QED
    BY <2>1, <2>2, <2>3, <2>4
<1>7. CASE SubmitFails
  BY <1>7 DEF SubmitFails, Mounted, Ends
<1> QED
  BY <1>1, <1>2, <1>3, <1>4, <1>5, <1>6, <1>7 DEF SubmitStep

\* The invariant holds throughout.
THEOREM AnalysesInvariant == Spec => []AnalysesInductive
<1>1. Init => AnalysesInductive
  BY InitInductive
<1>2. AnalysesInductive /\ [Next]_vars => AnalysesInductive'
  <2> SUFFICES ASSUME AnalysesInductive, [Next]_vars
               PROVE  AnalysesInductive'
    OBVIOUS
  <2>1. CASE Next
    BY <2>1, OutsideKeeps, SubmitKeeps DEF Next
  <2>2. CASE UNCHANGED vars
    BY <2>2 DEF vars, viewVars, pollVars, serverVars, AnalysesInductive, AnalysesTypeOK,
                PendingIsSubmit, SubmitInOrder
  <2> QED
    BY <2>1, <2>2
<1> QED
  BY <1>1, <1>2, PTL DEF Spec

-----------------------------------------------------------------------------
(* The properties. *)

\* Every variable of the page keeps to its type.
THEOREM AnalysesTypeCorrect == Spec => []AnalysesTypeOK
BY AnalysesInvariant, PTL DEF AnalysesInductive

\* On an open page the button is disabled exactly while a submit runs.
THEOREM OneSubmitAtATime == Spec => []PendingIsSubmit
BY AnalysesInvariant, PTL DEF AnalysesInductive

\* The steps of others leave what the page shows alone.
LEMMA ViewIsOurs ==
  ASSUME \/ CompanyRead \/ CompanyArrives \/ Leave \/ LoadRead \/ DeleteCompany
         \/ \E j \in Jobs : AskElsewhere(j) \/ Post(j) \/ \E w \in Workers : Work(j, w)
  PROVE  UNCHANGED viewVars
BY
   DEF CompanyRead, CompanyArrives, Leave, LoadRead, DeleteCompany, AskElsewhere, Post,
       Work

\* No submit ends without the analysis, an error or the notice.
THEOREM NoSilentEnd == Spec => OutcomeTold
<1> DEFINE Told == pending /\ ~pending' => error' \/ notice' \/ job \in ToSet(analyses')
<1>1. AnalysesInductive /\ [Next]_vars => [Told]_vars
  <2> SUFFICES ASSUME AnalysesInductive, Next
               PROVE  Told
    OBVIOUS
  <2> USE DEF AnalysesInductive, AnalysesTypeOK
  <2>1. CASE \/ CompanyRead \/ CompanyArrives \/ Leave \/ LoadRead \/ DeleteCompany
             \/ \E j \in Jobs : AskElsewhere(j) \/ Post(j) \/ \E w \in Workers : Work(j, w)
    BY <2>1, ViewIsOurs DEF viewVars
  <2>2. CASE Write \/ Submit \/ LoadArrives \/ PostArrives \/ Wake \/ PollRead
    BY <2>2 DEF Write, Submit, LoadArrives, PostArrives, Wake, PollRead, Ends, viewVars
  <2>3. CASE PollArrives
    BY <2>3 DEF PollArrives, Ends, Arrived, Shown
  <2>4. CASE SubmitFails
    BY <2>4 DEF SubmitFails, Ends
  <2> QED
    BY <2>1, <2>2, <2>3, <2>4 DEF Next, SubmitStep, LoadStep
<1> QED
  BY <1>1, AnalysesInvariant, PTL DEF Spec, OutcomeTold

\* A page that was left is not written to, but for the question that the answer to
\* a POST empties.
THEOREM LeftAlone == Spec => QuietAfterLeaving
<1> DEFINE Quiet ==
      page = "left" =>
        /\ UNCHANGED <<analyses, pending, error, notice>>
        /\ question' # question => submit = "posted" /\ submit' = "sleeping" /\ ~question'
<1>1. AnalysesInductive /\ [Next]_vars => [Quiet]_vars
  <2> SUFFICES ASSUME AnalysesInductive, Next, page = "left"
               PROVE  /\ UNCHANGED <<analyses, pending, error, notice>>
                      /\ question' # question =>
                           submit = "posted" /\ submit' = "sleeping" /\ ~question'
    OBVIOUS
  <2> USE DEF AnalysesInductive, AnalysesTypeOK, Mounted
  <2>1. CASE \/ CompanyRead \/ CompanyArrives \/ Leave \/ LoadRead \/ DeleteCompany
             \/ \E j \in Jobs : AskElsewhere(j) \/ Post(j) \/ \E w \in Workers : Work(j, w)
    BY <2>1, ViewIsOurs DEF viewVars
  <2>2. CASE PostArrives
    BY <2>2 DEF PostArrives
  <2>3. CASE Write \/ Submit \/ LoadArrives \/ Wake \/ PollRead
    BY <2>3 DEF Write, Submit, LoadArrives, Wake, PollRead, Ends, viewVars
  <2>4. CASE PollArrives \/ SubmitFails
    BY <2>4 DEF PollArrives, SubmitFails, Ends
  <2> QED
    BY <2>1, <2>2, <2>3, <2>4 DEF Next, SubmitStep, LoadStep
<1> QED
  BY <1>1, AnalysesInvariant, PTL DEF Spec, QuietAfterLeaving

-----------------------------------------------------------------------------
(* Lists that were read one after the other. *)

LEMMA MinOfTwo ==
  ASSUME NEW a \in Nat, NEW b \in Nat
  PROVE  Min({a, b}) = IF a <= b THEN a ELSE b
<1>1. \E m \in {a, b} : \A y \in {a, b} : m <= y
  OBVIOUS
<1>2. Min({a, b}) \in {a, b} /\ \A y \in {a, b} : Min({a, b}) <= y
  BY <1>1 DEF Min
<1> QED
  BY <1>2

\* What is read now has every row of now before it.
LEMMA ReadNow ==
  ASSUME created \in Seq(Jobs)
  PROVE  ReadBefore(Recorded, created, 0)
<1> DEFINE n == Min({PageSize, Len(created)})
<1>1. Len(created) \in Nat /\ PageSize \in Nat
  BY AnalysesAssumption
<1>2. n \in 0..Len(created)
  BY <1>1, MinOfTwo
<1>3. Recorded = SubSeq(created, 1, n)
  BY DEF Recorded
<1>4. Min({PageSize, Len(created) - 0}) = n
  BY <1>1
<1> HIDE DEF n
<1>5. Len(Recorded) = n /\ \A i \in 1..n : Recorded[i] = created[i]
  BY <1>1, <1>2, <1>3
<1> QED
  BY <1>1, <1>2, <1>4, <1>5 DEF ReadBefore

\* A new row goes in front.
LEMMA OneMoreRow ==
  ASSUME NEW rows \in Seq(Jobs), NEW j \in Jobs, NEW list, NEW n \in 0..Len(rows),
         ReadBefore(list, rows, n)
  PROVE  /\ n + 1 \in 0..Len(<<j>> \o rows)
         /\ ReadBefore(list, <<j>> \o rows, n + 1)
<1> DEFINE more == <<j>> \o rows
<1>1. Len(rows) \in Nat /\ PageSize \in Nat /\ n \in Nat /\ Len(rows) - n \in Nat
  BY AnalysesAssumption
<1>2. Len(more) = Len(rows) + 1 /\ \A i \in 1..Len(rows) : more[i + 1] = rows[i]
  OBVIOUS
<1> HIDE DEF more
<1>3. Len(more) - (n + 1) = Len(rows) - n
  BY <1>1, <1>2
<1>4. Len(list) = Min({PageSize, Len(rows) - n}) /\ Len(list) <= Len(rows) - n
      /\ Len(list) \in Nat
  BY <1>1, MinOfTwo DEF ReadBefore
<1>5. ASSUME NEW i \in 1..Len(list)
      PROVE  list[i] = more[n + 1 + i]
  <2>1. list[i] = rows[n + i] /\ n + i \in 1..Len(rows)
    BY <1>1, <1>4 DEF ReadBefore
  <2>2. more[(n + i) + 1] = rows[n + i]
    BY <1>2, <2>1
  <2>3. (n + i) + 1 = n + 1 + i
    BY <1>1, <1>4
  <2> QED
    BY <2>1, <2>2, <2>3
<1>6. n + 1 \in 0..Len(more)
  BY <1>1, <1>2
<1>7. ReadBefore(list, more, n + 1)
  BY <1>3, <1>4, <1>5 DEF ReadBefore
<1> QED
  BY <1>6, <1>7 DEF more

\* Of two reads the later one has new rows in front.
LEMMA LaterRead ==
  ASSUME NEW rows \in Seq(Jobs), NEW old \in Seq(Jobs), NEW new \in Seq(Jobs),
         NEW n \in 0..Len(rows), NEW m \in 0..n,
         ReadBefore(old, rows, n), ReadBefore(new, rows, m)
  PROVE  Later(new, old)
<1>1. /\ Len(rows) \in Nat /\ PageSize \in Nat /\ n \in Nat /\ m \in Nat
      /\ Len(rows) - n \in Nat /\ Len(rows) - m \in Nat
  BY AnalysesAssumption
<1>2. /\ Len(old) = IF PageSize <= Len(rows) - n THEN PageSize ELSE Len(rows) - n
      /\ Len(new) = IF PageSize <= Len(rows) - m THEN PageSize ELSE Len(rows) - m
  BY <1>1, MinOfTwo DEF ReadBefore
<1>3. Len(old) \in Nat /\ Len(new) \in Nat
  OBVIOUS
<1>4. CASE n - m <= Len(new)
  <2> DEFINE k == n - m
             kept == SubSeq(new, k + 1, Len(new))
  <2>1. k \in 0..Len(new)
    BY <1>1, <1>3, <1>4
  <2>2. /\ kept \in Seq(Jobs) /\ Len(kept) = Len(new) - k
        /\ \A i \in 1..Len(kept) : kept[i] = new[k + i]
    BY <1>3, <2>1
  <2>3. Len(kept) <= Len(old) /\ (Len(new) - k = Len(old) \/ Len(new) = PageSize)
    BY <1>1, <1>2, <1>4, <2>2
  <2>4. k = n - m /\ Len(kept) = Len(new) - k
    BY <2>2
  <2> HIDE DEF kept, k
  <2>5. ASSUME NEW i \in 1..Len(kept)
        PROVE  kept[i] = old[i]
    <3>1. k + i \in 1..Len(new) /\ i \in 1..Len(old)
      BY <1>3, <2>1, <2>3, <2>4
    <3>2. new[k + i] = rows[m + (k + i)] /\ old[i] = rows[n + i]
      BY <3>1 DEF ReadBefore
    <3>3. m + (k + i) = n + i
      BY <1>1, <2>4
    <3> QED
      BY <2>2, <3>2, <3>3
  <2>6. IsPrefix(kept, old)
    <3>1. SubSeq(kept, 1, Len(kept)) = kept
      BY <2>2
    <3>2. /\ SubSeq(old, 1, Len(kept)) \in Seq(Jobs)
          /\ Len(SubSeq(old, 1, Len(kept))) = Len(kept)
          /\ \A i \in 1..Len(kept) : SubSeq(old, 1, Len(kept))[i] = old[i]
      BY <1>3, <2>2, <2>3
    <3>3. SubSeq(old, 1, Len(kept)) = kept
      BY <2>2, <2>5, <3>2, SeqEqual
    <3> QED
      BY <2>3, <3>1, <3>3 DEF IsPrefix
  <2> QED
    BY <2>1, <2>3, <2>6 DEF Later, kept
<1>5. CASE n - m > Len(new)
  <2>1. Len(new) = PageSize /\ Len(new) \in 0..Len(new)
    BY <1>1, <1>2, <1>3, <1>5
  <2>2. SubSeq(new, Len(new) + 1, Len(new)) = <<>>
    BY <1>3
  <2>3. IsPrefix(<<>>, old)
    BY <1>3 DEF IsPrefix
  <2> QED
    BY <2>1, <2>2, <2>3 DEF Later
<1> QED
  BY <1>1, <1>3, <1>4, <1>5

\* The server's steps keep what was read, or the company is gone.
LEMMA RowsKeepReads ==
  ASSUME AnalysesInductive, ReadsInOrder,
         \/ DeleteCompany
         \/ \E j \in Jobs : AskElsewhere(j) \/ \E w \in Workers : Work(j, w)
  PROVE  ReadsInOrder'
<1> USE DEF viewVars, pollVars
<1>1. CASE DeleteCompany
  BY <1>1 DEF DeleteCompany, Ledger!Drop, ReadsInOrder
<1>2. ASSUME NEW j \in Jobs, AskElsewhere(j)
      PROVE  ReadsInOrder'
  BY <1>2 DEF AskElsewhere, Accept, Ledger!Accept, ReadsInOrder
<1>3. ASSUME NEW j \in Jobs, NEW w \in Workers, Work(j, w)
      PROVE  ReadsInOrder'
  <2>0. created \in Seq(Jobs)
    BY DEF AnalysesInductive, AnalysesTypeOK
  <2>1. /\ created' = <<j>> \o created /\ open' = open
        /\ UNCHANGED <<page, viewVars, load, pollVars>>
    BY <1>3 DEF Work, Ledger!Answer
  <2>2. ASSUME NEW list, NEW n \in 0..Len(created), ReadBefore(list, created, n)
        PROVE  n + 1 \in 0..Len(created') /\ ReadBefore(list, created', n + 1)
    BY <2>0, <2>1, <2>2, OneMoreRow
  <2> SUFFICES ASSUME Company \in open, ~beside
               PROVE  /\ load.stage = "read" =>
                           \E n \in 0..Len(created') : ReadBefore(load.data, created', n)
                      /\ submit = "polled" =>
                           \E m \in 0..Len(created') : ReadBefore(data, created', m)
                      /\ analyses # None =>
                           \E n \in 0..Len(created') :
                             /\ ReadBefore(analyses, created', n)
                             /\ submit = "polled" =>
                                  \E m \in 0..n : ReadBefore(data, created', m)
    BY <2>1 DEF ReadsInOrder
  <2>3. load.stage = "read" =>
          \E n \in 0..Len(created') : ReadBefore(load.data, created', n)
    BY <2>2 DEF ReadsInOrder
  <2>4. submit = "polled" =>
          \E m \in 0..Len(created') : ReadBefore(data, created', m)
    BY <2>2 DEF ReadsInOrder
  <2>5. ASSUME analyses # None
        PROVE  \E n \in 0..Len(created') :
                 /\ ReadBefore(analyses, created', n)
                 /\ submit = "polled" => \E m \in 0..n : ReadBefore(data, created', m)
    <3>1. PICK n \in 0..Len(created) :
            /\ ReadBefore(analyses, created, n)
            /\ submit = "polled" => \E m \in 0..n : ReadBefore(data, created, m)
      BY <2>5 DEF ReadsInOrder
    <3>2. n + 1 \in 0..Len(created') /\ ReadBefore(analyses, created', n + 1)
      BY <2>2, <3>1
    <3>3. ASSUME submit = "polled"
          PROVE  \E m \in 0..(n + 1) : ReadBefore(data, created', m)
      <4>1. PICK m \in 0..n : ReadBefore(data, created, m)
        BY <3>1, <3>3
      <4>2. m \in 0..Len(created) /\ m + 1 \in 0..(n + 1)
        BY <2>0
      <4> QED
        BY <2>2, <4>1, <4>2
    <3> QED
      BY <3>2, <3>3
  <2> QED
    BY <2>3, <2>4, <2>5
<1> QED
  BY <1>1, <1>2, <1>3

\* So do the page's.
LEMMA PageKeepsReads ==
  ASSUME AnalysesInductive, ReadsInOrder,
         \/ CompanyRead \/ CompanyArrives \/ Leave \/ Write \/ Submit
         \/ LoadStep \/ SubmitStep
  PROVE  ReadsInOrder'
<1> USE DEF viewVars, pollVars, serverVars, Goes, Ends
<1>0. created \in Seq(Jobs) /\ SubmitInOrder
  BY DEF AnalysesInductive, AnalysesTypeOK
<1>1. ReadBefore(Recorded, created, 0) /\ 0 \in 0..Len(created)
  BY <1>0, ReadNow
<1>2. CASE CompanyRead \/ Leave \/ Write \/ Submit
  BY <1>2 DEF CompanyRead, Leave, Write, Submit, ReadsInOrder
<1>3. CASE CompanyArrives
  BY <1>0, <1>3 DEF CompanyArrives, ReadsInOrder, SubmitInOrder, Asked
<1>4. CASE LoadRead
  BY <1>1, <1>4 DEF LoadRead, ReadsInOrder
<1>5. CASE LoadArrives
  <2>1. load'.stage = "none" /\ load.stage # "none"
    BY <1>5 DEF LoadArrives, AnalysesInductive, AnalysesTypeOK
  <2>2. /\ UNCHANGED <<created, open, beside, submit, data, page>>
        /\ analyses' = analyses \/ (load.stage = "read" /\ Mounted /\ analyses' = load.data)
    BY <1>5 DEF LoadArrives
  <2>3. ~beside => submit \notin {"polling", "polled"}
    BY <2>1 DEF ReadsInOrder
  <2> QED
    BY <2>1, <2>2, <2>3 DEF ReadsInOrder, Mounted
<1>6. CASE \E j \in Jobs : Post(j)
  BY <1>6 DEF Post, Accept, Ledger!Accept, ReadsInOrder
<1>7. CASE PostArrives
  BY <1>7 DEF PostArrives, ReadsInOrder
<1>8. CASE Wake
  BY <1>8 DEF Wake, ReadsInOrder
<1>9. CASE PollRead
  <2>1. /\ submit' = "polled" /\ data' = Recorded /\ submit = "polling"
        /\ UNCHANGED <<created, open, beside, page, analyses, load>>
    BY <1>9 DEF PollRead
  <2>2. ASSUME NEW n \in 0..Len(created)
        PROVE  0 \in 0..n
    BY <1>0
  <2> QED
    BY <1>1, <2>1, <2>2 DEF ReadsInOrder
<1>10. CASE PollArrives
  <2>1. /\ submit = "polled" /\ submit' \in {"idle", "sleeping"}
        /\ UNCHANGED <<created, open, beside, page, load, data>>
        /\ analyses' = analyses \/ (Mounted /\ analyses' = data)
    BY <1>10 DEF PollArrives, Shown
  <2> QED
    BY <2>1 DEF ReadsInOrder, Mounted
<1>11. CASE SubmitFails
  BY <1>11 DEF SubmitFails, ReadsInOrder
<1> QED
  BY <1>2, <1>3, <1>4, <1>5, <1>6, <1>7, <1>8, <1>9, <1>10, <1>11
  DEF LoadStep, SubmitStep

\* What the page has shown it does not take back while the company exists, but for a
\* first load that answers after a poll did.
THEOREM ListMovesOn == Spec => PageMovesOn
<1> DEFINE MovesOn ==
      analyses # None /\ analyses' # analyses /\ Company \in open =>
        beside \/ Later(analyses', analyses)
<1>1. Init => ReadsInOrder
  BY DEF Init, ReadsInOrder
<1>2. AnalysesInductive /\ ReadsInOrder /\ [Next]_vars => ReadsInOrder'
  <2> SUFFICES ASSUME AnalysesInductive, ReadsInOrder, [Next]_vars
               PROVE  ReadsInOrder'
    OBVIOUS
  <2>1. CASE Next
    BY <2>1, RowsKeepReads, PageKeepsReads DEF Next
  <2>2. CASE UNCHANGED vars
    BY <2>2 DEF vars, viewVars, pollVars, serverVars, ReadsInOrder
  <2> QED
    BY <2>1, <2>2
<1>3. AnalysesInductive /\ ReadsInOrder /\ [Next]_vars => [MovesOn]_vars
  <2> SUFFICES ASSUME AnalysesInductive, ReadsInOrder, Next, analyses # None,
                      analyses' # analyses, Company \in open, ~beside
               PROVE  Later(analyses', analyses)
    OBVIOUS
  <2> USE DEF viewVars
  <2>1. CASE \/ CompanyRead \/ CompanyArrives \/ Leave \/ LoadRead \/ DeleteCompany
             \/ \E j \in Jobs : AskElsewhere(j) \/ Post(j) \/ \E w \in Workers : Work(j, w)
    BY <2>1, ViewIsOurs
  <2>2. CASE Write \/ Submit \/ PostArrives \/ Wake \/ PollRead \/ SubmitFails
    BY <2>2 DEF Write, Submit, PostArrives, Wake, PollRead, SubmitFails, Ends
  <2>3. CASE LoadArrives
    BY <2>3 DEF LoadArrives, ReadsInOrder
  <2>4. CASE PollArrives
    <3>1. submit = "polled" /\ analyses' = data
      BY <2>4 DEF PollArrives, Shown
    <3>2. PICK n \in 0..Len(created) :
            /\ ReadBefore(analyses, created, n)
            /\ \E m \in 0..n : ReadBefore(data, created, m)
      BY <3>1 DEF ReadsInOrder
    <3>3. created \in Seq(Jobs) /\ analyses \in Seq(Jobs) /\ data \in Seq(Jobs)
      BY DEF AnalysesInductive, AnalysesTypeOK
    <3> QED
      BY <3>1, <3>2, <3>3, LaterRead
  <2> QED
    BY <2>1, <2>2, <2>3, <2>4 DEF Next, SubmitStep, LoadStep
<1> QED
  BY <1>1, <1>2, <1>3, AnalysesInvariant, PTL DEF Spec, PageMovesOn
=============================================================================
