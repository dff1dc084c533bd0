-------------------------- MODULE CompanyListProofs --------------------------
(* Theorems about CompanyList, for any companies, keywords and page length,   *)
(* and any number of requests, failures and writes.                           *)
EXTENDS CompanyList, FiniteSetTheorems, SequenceTheorems, TLAPS

-----------------------------------------------------------------------------
(* The server's answers. *)

\* A set of companies has a size.
LEMMA SizeOfSet ==
  ASSUME NEW S \in SUBSET Companies
  PROVE  IsFiniteSet(S) /\ Cardinality(S) \in Sizes
<1>1. IsFiniteSet(Companies)
  BY ListAssumption
<1>2. IsFiniteSet(S) /\ Cardinality(S) <= Cardinality(Companies)
  BY <1>1, FS_Subset
<1>3. Cardinality(S) \in Nat /\ Cardinality(Companies) \in Nat
  BY <1>1, <1>2, FS_CardinalityType
<1> QED
  BY <1>2, <1>3 DEF Sizes

\* There is a first page.
LEMMA FirstPage == Cardinality(Companies) \in Nat /\ 1 \in Sizes \ {0}
<1>1. IsFiniteSet(Companies) /\ Companies # {}
  BY ListAssumption
<1>2. Cardinality(Companies) \in Nat /\ Cardinality(Companies) # 0
  BY <1>1, FS_CardinalityType, FS_EmptySet
<1> QED
  BY <1>2 DEF Sizes

\* There are no more pages than companies.
LEMMA PagesBounded ==
  ASSUME NEW t \in Sizes
  PROVE  TotalPages(t) \in Sizes
<1>1. t \in Nat /\ Limit \in Nat \ {0} /\ Cardinality(Companies) \in Nat
      /\ t <= Cardinality(Companies)
  BY ListAssumption, FirstPage DEF Sizes
<1> DEFINE n == TotalPages(t)
<1>2. n \in Nat /\ n * Limit <= t + Limit - 1
  BY <1>1 DEF TotalPages
<1> HIDE DEF n
<1>3. n <= t
  <2>1. SUFFICES ASSUME n > t
                 PROVE  FALSE
    BY <1>1, <1>2
  <2>2. PICK k \in Nat : n = t + 1 + k
    <3>1. n - t - 1 \in Nat /\ n = t + 1 + (n - t - 1)
      BY <1>1, <1>2, <2>1
    <3> QED
      BY <3>1
  <2>3. PICK m \in Nat : Limit = m + 1
    <3>1. Limit - 1 \in Nat /\ Limit = (Limit - 1) + 1
      BY <1>1
    <3> QED
      BY <3>1
  <2>4. t * m \in Nat /\ k * m \in Nat
    BY <1>1, <2>2, <2>3
  <2>5. n * Limit = t * m + m + k * m + t + 1 + k
    BY <1>1, <2>2, <2>3
  <2> QED
    BY <1>1, <1>2, <2>2, <2>3, <2>4, <2>5
<1> QED
  BY <1>1, <1>2, <1>3 DEF Sizes, n

-----------------------------------------------------------------------------
(* What the page shows. *)

\* It holds when the page is opened.
LEMMA InitList == Init => ListInductive
<1> SUFFICES ASSUME Init
             PROVE  ListInductive
  OBVIOUS
<1>1. Call(Any, 1) \in Requests
  BY ListAssumption, FirstPage DEF Init, Call, Requests, Sizes
<1>2. calls \in Seq(Requests) /\ Len(calls) = 1 /\ calls[1] = Call(Any, 1)
  BY <1>1 DEF Init
<1>3. \A i \in DOMAIN calls : calls[i].since >= writes
  BY <1>2, ListAssumption DEF Call, Init
<1>4. ListTypeOK
  <2>1. failures \in 0..MaxFailures /\ writes \in 0..MaxWrites
    BY ListAssumption DEF Init
  <2>2. open \subseteq DOMAIN calls
    BY <1>2 DEF Init
  <2> QED
    BY <1>2, <1>3, <2>1, <2>2, ListAssumption, FirstPage DEF Init, ListTypeOK
<1>5. LoadingBacked
  BY DEF Init, LoadingBacked
<1>6. LatestIsCurrent
  BY <1>2 DEF Init, LatestIsCurrent, Call
<1>7. LatestIsLast
  BY <1>2 DEF Init, LatestIsLast
<1> QED
  BY <1>4, <1>5, <1>6, <1>7 DEF ListInductive

\* A new request is the last, and it is open.
LEMMA SendsOne ==
  ASSUME ListInductive, NEW k \in Keywords, NEW p \in Sizes \ {0},
         Sends(<<Call(k, p)>>)
  PROVE  /\ calls' \in Seq(Requests)
         /\ Len(calls') = Len(calls) + 1
         /\ calls'[Len(calls')] = Call(k, p)
         /\ \A i \in DOMAIN calls : calls'[i] = calls[i]
         /\ open' = open \cup {Len(calls')}
         /\ isLoading' /\ ~error'
<1>1. calls \in Seq(Requests)
  BY DEF ListInductive, ListTypeOK
<1>2. Call(k, p) \in Requests
  BY DEF ListInductive, ListTypeOK, Call, Requests
<1>3. calls' = calls \o <<Call(k, p)>> /\ Len(<<Call(k, p)>>) = 1
  BY DEF Sends
<1>4. open' = open \cup {Len(calls) + 1} /\ isLoading' /\ ~error'
  <2>1. (Len(calls) + 1)..(Len(calls) + 1) = {Len(calls) + 1}
    BY <1>1
  <2>2. <<Call(k, p)>> # <<>>
    OBVIOUS
  <2> QED
    BY <1>3, <2>1, <2>2 DEF Sends, ListInductive, ListTypeOK
<1> QED
  BY <1>1, <1>2, <1>3, <1>4

\* Two are the last two.
LEMMA SendsTwo ==
  ASSUME ListInductive, NEW k \in Keywords, NEW p \in Sizes \ {0}, NEW q \in Sizes \ {0},
         Sends(<<Call(k, p)>> \o <<Call(k, q)>>)
  PROVE  /\ calls' \in Seq(Requests)
         /\ Len(calls') = Len(calls) + 2
         /\ calls'[Len(calls) + 1] = Call(k, p)
         /\ calls'[Len(calls')] = Call(k, q)
         /\ \A i \in DOMAIN calls : calls'[i] = calls[i]
         /\ open' = open \cup {Len(calls) + 1, Len(calls')}
         /\ isLoading' /\ ~error'
<1> DEFINE qs == <<Call(k, p)>> \o <<Call(k, q)>>
<1>1. calls \in Seq(Requests)
  BY DEF ListInductive, ListTypeOK
<1>2. Call(k, p) \in Requests /\ Call(k, q) \in Requests
  BY DEF ListInductive, ListTypeOK, Call, Requests
<1>3. /\ qs \in Seq(Requests) /\ qs # <<>>
      /\ Len(qs) = 2 /\ qs[1] = Call(k, p) /\ qs[2] = Call(k, q)
  <2> DEFINE a == <<Call(k, p)>>
             b == <<Call(k, q)>>
  <2>1. /\ a \in Seq(Requests) /\ Len(a) = 1 /\ a[1] = Call(k, p)
        /\ b \in Seq(Requests) /\ Len(b) = 1 /\ b[1] = Call(k, q)
    BY <1>2
  <2> HIDE DEF a, b
  <2>2. a \o b \in Seq(Requests) /\ Len(a \o b) = 2 /\ (a \o b)[1] = a[1] /\ (a \o b)[2] = b[1]
    BY <2>1, ConcatProperties
  <2>3. Len(<<>>) = 0
    OBVIOUS
  <2> QED
    BY <2>1, <2>2, <2>3 DEF a, b
<1> HIDE DEF qs
<1>4. calls' = calls \o qs /\ isLoading' /\ ~error'
  BY <1>3 DEF qs, Sends, ListInductive, ListTypeOK
<1>5. open' = open \cup {Len(calls) + 1, Len(calls) + 2}
  <2>1. (Len(calls) + 1)..(Len(calls) + 2) = {Len(calls) + 1, Len(calls) + 2}
    BY <1>1
  <2> QED
    BY <1>3, <2>1 DEF Sends, qs
<1> QED
  <2>1. /\ calls \o qs \in Seq(Requests) /\ Len(calls \o qs) = Len(calls) + Len(qs)
        /\ \A i \in 1..Len(calls) + Len(qs) :
             (calls \o qs)[i] = IF i <= Len(calls) THEN calls[i] ELSE qs[i - Len(calls)]
    BY <1>1, <1>3, ConcatProperties, Zenon
  <2>2. (calls \o qs)[Len(calls) + 1] = qs[1] /\ (calls \o qs)[Len(calls) + 2] = qs[2]
    BY <1>1, <1>3, <2>1
  <2> QED
    BY <1>1, <1>3, <1>4, <1>5, <2>1, <2>2

\* What the user does appends requests that nobody has answered; the last has the
\* page's keyword and number.
LEMMA Appends ==
  ASSUME ListInductive,
         \/ \E k \in Keywords : Type(k)
         \/ \E p \in {page - 1, page + 1} : Turn(p)
         \/ Search
  PROVE  /\ UNCHANGED <<rows, listVars, failures, writes>>
         /\ keyword' \in Keywords /\ page' \in Sizes \ {0} /\ searched' \in BOOLEAN
         /\ calls' \in Seq(Requests)
         /\ Len(calls') \in {Len(calls) + 1, Len(calls) + 2}
         /\ calls'[Len(calls')] = Call(keyword', page')
         /\ \E k, p : calls'[Len(calls) + 1] = Call(k, p)
         /\ \A i \in DOMAIN calls : calls'[i] = calls[i]
         /\ open' = open \cup {Len(calls) + 1, Len(calls')}
         /\ isLoading' /\ ~error'
<1>1. /\ UNCHANGED <<rows, listVars, failures, writes>>
      /\ keyword' \in Keywords /\ page' \in Sizes \ {0} /\ searched' \in BOOLEAN
  <2>1. ASSUME NEW p \in {page - 1, page + 1}, Turn(p)
        PROVE  p \in Sizes \ {0}
    BY <2>1, FirstPage DEF Turn, CanTurn, ListInductive, ListTypeOK, Sizes
  <2> QED
    BY <2>1, FirstPage DEF Type, Turn, Search, Sends, ListInductive, ListTypeOK
<1>2. /\ calls' \in Seq(Requests)
      /\ Len(calls') \in {Len(calls) + 1, Len(calls) + 2}
      /\ calls'[Len(calls')] = Call(keyword', page')
      /\ \E k, p : calls'[Len(calls) + 1] = Call(k, p)
      /\ \A i \in DOMAIN calls : calls'[i] = calls[i]
      /\ open' = open \cup {Len(calls) + 1, Len(calls')}
      /\ isLoading' /\ ~error'
  <2>1. ASSUME NEW k \in Keywords, Type(k)
        PROVE  <1>2!:
    <3>1. Sends(<<Call(keyword', page')>>)
      BY <2>1 DEF Type, Effect
    <3> QED
      BY <1>1, <3>1, SendsOne DEF Call
  <2>2. ASSUME NEW p \in {page - 1, page + 1}, Turn(p)
        PROVE  <1>2!:
    <3>1. Sends(<<Call(keyword', page')>>)
      BY <2>2 DEF Turn, Effect, ListInductive, ListTypeOK, Sizes
    <3> QED
      BY <1>1, <3>1, SendsOne DEF Call
  <2>3. CASE Search /\ page = 1
    <3>1. Sends(<<Call(keyword', page')>>)
      BY <2>3 DEF Search, Effect, Call
    <3> QED
      BY <1>1, <3>1, SendsOne DEF Call
  <2>4. CASE Search /\ page # 1
    <3>1. Sends(<<Call(keyword, page)>> \o <<Call(keyword, page')>>) /\ keyword' = keyword
      BY <2>4 DEF Search, Effect
    <3> QED
      BY <1>1, <3>1, SendsTwo DEF Call, ListInductive, ListTypeOK
  <2> QED
    BY <2>1, <2>2, <2>3, <2>4
<1> QED
  BY <1>1, <1>2

\* Whatever is sent, the last request is the current one.
LEMMA SendKeeps ==
  ASSUME ListInductive,
         \/ \E k \in Keywords : Type(k)
         \/ \E p \in {page - 1, page + 1} : Turn(p)
         \/ Search
  PROVE  ListInductive'
<1>1. \A i \in DOMAIN calls' : calls'[i].since >= writes'
  <2>1. ASSUME NEW i \in DOMAIN calls'
        PROVE  i \in DOMAIN calls \/ i = Len(calls) + 1 \/ i = Len(calls')
    BY Appends DEF ListInductive, ListTypeOK
  <2>2. writes >= writes /\ \A k, p : Call(k, p).since = writes
    BY DEF ListInductive, ListTypeOK, Call
  <2> QED
    BY Appends, <2>1, <2>2 DEF ListInductive, ListTypeOK
<1>2. DOMAIN calls \subseteq DOMAIN calls' /\ open' \subseteq DOMAIN calls'
  BY Appends DEF ListInductive, ListTypeOK
<1>3. ListTypeOK'
  <2>1. isLoading' \in BOOLEAN /\ error' \in BOOLEAN
    BY Appends DEF Sends, Type, Turn, Search, ListInductive, ListTypeOK
  <2>2. shown' \in {0} \cup DOMAIN calls'
    BY Appends, <1>2 DEF ListInductive, ListTypeOK, listVars
  <2> QED
    BY Appends, <1>1, <1>2, <2>1, <2>2 DEF ListInductive, ListTypeOK, listVars
<1>4. LoadingBacked' /\ LatestIsCurrent'
  BY Appends DEF LoadingBacked, LatestIsCurrent, Call
<1>5. LatestIsLast'
  <2>1. open' # {}
    BY Appends
  <2>2. ASSUME InOrder, NEW i \in open', NEW j \in DOMAIN calls', i <= j
        PROVE  j \in open'
    BY Appends, <2>2 DEF ListInductive, LatestIsLast, ListTypeOK
  <2> QED
    BY <2>1, <2>2 DEF LatestIsLast
<1> QED
  BY <1>3, <1>4, <1>5 DEF ListInductive

\* A statement fills in its half of the answer.
LEMMA StatementFills ==
  ASSUME ListTypeOK, NEW i, FindMany(i) \/ Count(i)
  PROVE  /\ calls' \in Seq(Requests)
         /\ Len(calls') = Len(calls)
         /\ \A j \in DOMAIN calls :
              /\ calls'[j].keyword = calls[j].keyword
              /\ calls'[j].page = calls[j].page
              /\ calls'[j].since = calls[j].since
         /\ \A j \in DOMAIN calls \ {i} : calls'[j] = calls[j]
         /\ i \in DOMAIN calls
         /\ UNCHANGED <<rows, queryVars, listVars, error, isLoading, open, failures, writes>>
<1>1. calls \in Seq(Requests) /\ i \in DOMAIN calls
  BY DEF ListTypeOK, FindMany, Count
<1> DEFINE c == calls[i]
<1>0. c \in Requests
  BY <1>1
<1> HIDE DEF c
<1>2. Found(calls[i].keyword) \subseteq Companies
  BY DEF ListTypeOK, Found
<1>3. PICK r \in Requests :
        /\ calls' = [calls EXCEPT ![i] = r]
        /\ r.keyword = calls[i].keyword /\ r.page = calls[i].page /\ r.since = calls[i].since
  <2>1. CASE FindMany(i)
    <3>1. PICK D \in Pages(Found(calls[i].keyword), calls[i].page) :
            calls' = [calls EXCEPT ![i].data = D]
      BY <2>1 DEF FindMany
    <3>2. D \in SUBSET Companies
      BY <1>2, <3>1 DEF Pages
    <3>3. /\ [c EXCEPT !.data = D] \in Requests
          /\ [c EXCEPT !.data = D].keyword = c.keyword
          /\ [c EXCEPT !.data = D].page = c.page
          /\ [c EXCEPT !.data = D].since = c.since
      BY <1>0, <3>2 DEF Requests
    <3> QED
      BY <3>1, <3>3 DEF c
  <2>2. CASE Count(i)
    <3>1. Counted(calls[i].keyword) \in Sizes
      BY <1>2, SizeOfSet DEF Counted
    <3>2. ASSUME NEW n \in Sizes
          PROVE  /\ [c EXCEPT !.total = n] \in Requests
                 /\ [c EXCEPT !.total = n].keyword = c.keyword
                 /\ [c EXCEPT !.total = n].page = c.page
                 /\ [c EXCEPT !.total = n].since = c.since
      BY <1>0 DEF Requests
    <3> QED
      BY <2>2, <3>1, <3>2 DEF Count, c
  <2> QED
    BY <2>1, <2>2
<1> QED
  BY <1>1, <1>3 DEF FindMany, Count

\* The server and the answers keep the invariant.
LEMMA AnswerKeeps ==
  ASSUME ListInductive,
         \/ \E i \in 1..MaxCalls : FindMany(i) \/ Count(i) \/ Answer(i) \/ Fail(i)
         \/ \E c \in Companies : WriteCompany(c)
  PROVE  ListInductive'
<1> USE DEF ListInductive
<1>1. ASSUME NEW i, FindMany(i) \/ Count(i)
      PROVE  ListInductive'
  <2>1. ListTypeOK'
    BY <1>1, StatementFills DEF ListTypeOK, queryVars, listVars
  <2>2. LoadingBacked' /\ LatestIsCurrent' /\ LatestIsLast'
    <3>1. DOMAIN calls' = DOMAIN calls /\ (calls # <<>> => calls' # <<>>)
      BY <1>1, StatementFills DEF ListTypeOK
    <3>2. Len(calls) \in DOMAIN calls
      BY DEF ListTypeOK, LatestIsCurrent
    <3> QED
      BY <1>1, <3>1, <3>2, StatementFills
      DEF LoadingBacked, LatestIsCurrent, LatestIsLast, queryVars, listVars
  <2> QED
    BY <2>1, <2>2
<1>2. ASSUME NEW i, Answer(i)
      PROVE  ListInductive'
  <2>1. calls[i] \in Requests /\ i \in DOMAIN calls
    BY <1>2 DEF ListTypeOK, Answer, Arrives
  <2>2. /\ calls[i].data \in SUBSET Companies /\ calls[i].page \in Sizes \ {0}
        /\ TotalPages(calls[i].total) \in Sizes
    BY <1>2, <2>1, PagesBounded DEF Answer, Requests
  <2>3. pagination' \in [page : Sizes \ {0}, totalPages : Sizes]
    BY <1>2, <2>2 DEF Answer
  <2>4. ListTypeOK'
    BY <1>2, <2>1, <2>2, <2>3 DEF ListTypeOK, Answer, Arrives, queryVars
  <2>5. LatestIsLast'
    BY <1>2, <2>1 DEF LatestIsLast, LatestIsCurrent, ListTypeOK, Answer, Arrives
  <2> QED
    BY <1>2, <2>4, <2>5 DEF LoadingBacked, LatestIsCurrent, Answer, queryVars
<1>3. ASSUME NEW i, Fail(i)
      PROVE  ListInductive'
  <2>1. ListTypeOK'
    <3>1. failures' \in 0..MaxFailures
      BY <1>3, ListAssumption DEF ListTypeOK, Fail
    <3>2. open' \subseteq DOMAIN calls
      BY <1>3 DEF ListTypeOK, Fail, Arrives
    <3>3. error' \in BOOLEAN /\ isLoading' \in BOOLEAN
      BY <1>3 DEF Fail, LoadingAfterFailure
    <3> QED
      BY <1>3, <3>1, <3>2, <3>3 DEF ListTypeOK, Fail, queryVars, listVars
  <2>2. LatestIsLast'
    BY <1>3 DEF LatestIsLast, ListTypeOK, Fail, Arrives, listVars
  <2> QED
    BY <1>3, <2>1, <2>2
    DEF LoadingBacked, LatestIsCurrent, Fail, LoadingAfterFailure, queryVars
<1>4. ASSUME NEW c \in Companies, WriteCompany(c)
      PROVE  ListInductive'
  <2>1. ListTypeOK'
    <3>1. rows' \subseteq Companies /\ writes' \in 0..MaxWrites /\ writes' <= writes
      BY <1>4, ListAssumption DEF ListTypeOK, WriteCompany
    <3>2. \A i \in DOMAIN calls : calls[i].since \in 0..MaxWrites
      <4>1. \A i \in DOMAIN calls : calls[i] \in Requests
        BY DEF ListTypeOK
      <4> QED
        BY <4>1 DEF Requests
    <3>3. \A i \in DOMAIN calls : calls[i].since >= writes'
      BY <3>1, <3>2, ListAssumption DEF ListTypeOK
    <3> QED
      BY <1>4, <3>1, <3>3 DEF ListTypeOK, WriteCompany, queryVars, listVars
  <2> QED
    BY <1>4, <2>1
    DEF LoadingBacked, LatestIsCurrent, LatestIsLast, WriteCompany, queryVars, listVars
<1> QED
  BY <1>1, <1>2, <1>3, <1>4

\* The invariant holds throughout.
THEOREM ListInvariant == Spec => []ListInductive
<1>1. ListInductive /\ [Next]_vars => ListInductive'
  <2> SUFFICES ASSUME ListInductive, [Next]_vars
               PROVE  ListInductive'
    OBVIOUS
  <2>1. CASE Next
    BY <2>1, SendKeeps, AnswerKeeps DEF Next
  <2>2. CASE UNCHANGED vars
    BY <2>2 DEF vars, queryVars, listVars, ListInductive, ListTypeOK, LoadingBacked,
                LatestIsCurrent, LatestIsLast
  <2> QED
    BY <2>1, <2>2
<1> QED
  BY <1>1, InitList, PTL DEF Spec

\* Every variable of the list keeps to its type; the page number stays within the
\* pages there can be.
THEOREM ListTypeCorrect == Spec => []ListTypeOK
BY ListInvariant, PTL DEF ListInductive

\* The Loading row stands only while an answer is to come.
THEOREM LoadingEnds == Spec => []LoadingBacked
BY ListInvariant, PTL DEF ListInductive

\* With answers in order, the page settles on what its keyword and number say.
THEOREM SettlesInOrder ==
  ASSUME InOrder
  PROVE  Spec => []SettledIsCurrent
<1>1. ListInductive => SettledIsCurrent
  BY DEF ListInductive, LatestIsCurrent, LatestIsLast, SettledIsCurrent
<1> QED
  BY <1>1, ListInvariant, PTL

-----------------------------------------------------------------------------
(* The page and its total. *)

\* Rows are skipped from the first on.
LEMMA OffsetNat ==
  ASSUME NEW p \in Sizes \ {0}
  PROVE  Limit \in Nat /\ Offset(p) \in Nat
<1>1. Limit \in Nat /\ p - 1 \in Nat
  BY ListAssumption, FirstPage DEF Sizes
<1>2. ASSUME NEW x \in Nat, NEW y \in Nat
      PROVE  x * y \in Nat
  OBVIOUS
<1> QED
  BY <1>1, <1>2 DEF Offset

\* What a total leaves to a page follows the total: it moves no further.
LEMMA DueFollows ==
  ASSUME NEW p \in Sizes \ {0}, NEW a \in Nat, NEW b \in Nat, NEW n \in Nat
  PROVE  /\ Due(a, p) \in Nat
         /\ Within(a, b, n) => Within(Due(a, p), Due(b, p), n)
BY OffsetNat DEF Due, Within, Least

\* A page holds what the rows that are found leave to it.
LEMMA PageHolds ==
  ASSUME NEW M \in SUBSET Companies, NEW p \in Sizes \ {0}, NEW D \in Pages(M, p)
  PROVE  Cardinality(D) = Due(Cardinality(M), p)
<1>1. PICK before \in SUBSET (M \ D) :
        /\ Cardinality(before) = Least(Offset(p), Cardinality(M))
        /\ Cardinality(D) = Least(Limit, Cardinality(M) - Cardinality(before))
  BY DEF Pages
<1>2. Cardinality(M) \in Nat
  BY SizeOfSet, FirstPage DEF Sizes
<1> QED
  BY <1>1, <1>2, OffsetNat DEF Due, Least

\* A write adds or removes one of the rows that a keyword finds, or none.
LEMMA WriteMovesOne ==
  ASSUME ListTypeOK, NEW c \in Companies, WriteCompany(c), NEW k \in Keywords
  PROVE  Within(Cardinality(Found(k)), Cardinality(Found(k)'), 1)
<1> DEFINE M == rows \cap Matches[k]
           N == rows' \cap Matches[k]
<1>1. M \in SUBSET Companies /\ IsFiniteSet(M) /\ Cardinality(M) \in Nat
  BY SizeOfSet, FirstPage DEF ListTypeOK, Sizes
<1>2. N = M \/ (c \notin M /\ N = M \cup {c}) \/ (c \in M /\ N = M \ {c})
  BY DEF WriteCompany
<1> HIDE DEF M, N
<1>3. Cardinality(N) \in {Cardinality(M), Cardinality(M) + 1, Cardinality(M) - 1}
  BY <1>1, <1>2, FS_AddElement, FS_RemoveElement
<1> QED
  BY <1>1, <1>3 DEF Found, Within, M, N

\* What a request holds of its answer, and how close it is to the table.
Close(c, now, n) ==
  /\ c.data # None /\ c.total = None => Within(Cardinality(c.data), Due(now, c.page), n)
  /\ c.data = None /\ c.total # None => Within(c.total, now, n)
  /\ c.data # None /\ c.total # None =>
       Within(Cardinality(c.data), Due(c.total, c.page), n)

CallClose(i) ==
  Close(calls[i], Cardinality(Found(calls[i].keyword)), calls[i].since - writes)

\* The invariant says so of every request.
LEMMA TotalMeans ==
  TotalInductive <=> ListTypeOK /\ \A i \in DOMAIN calls : CallClose(i)
BY DEF TotalInductive, HalfReadClose, TotalMatchesPage, Close, CallClose

\* The sizes in it are numbers.
LEMMA CallSizes ==
  ASSUME ListTypeOK, NEW i \in DOMAIN calls
  PROVE  /\ calls[i] \in Requests
         /\ calls[i].keyword \in Keywords
         /\ calls[i].page \in Sizes \ {0}
         /\ calls[i].since - writes \in Nat
         /\ Found(calls[i].keyword) \in SUBSET Companies
         /\ Cardinality(Found(calls[i].keyword)) \in Nat
         /\ calls[i].data # None => Cardinality(calls[i].data) \in Nat
         /\ calls[i].total # None => calls[i].total \in Nat
<1>1. calls[i] \in Requests
  BY DEF ListTypeOK
<1>2. calls[i].data # None => calls[i].data \in SUBSET Companies
  BY <1>1 DEF Requests
<1>3. calls[i].since - writes \in Nat
  BY <1>1, ListAssumption DEF Requests, ListTypeOK
<1>4. Found(calls[i].keyword) \in SUBSET Companies
  BY DEF Found, ListTypeOK
<1> QED
  BY <1>1, <1>2, <1>3, <1>4, SizeOfSet, FirstPage DEF Requests, Sizes

\* A statement that runs finds what is in the table.
LEMMA StatementClose ==
  ASSUME TotalInductive, NEW i, FindMany(i) \/ Count(i)
  PROVE  CallClose(i)'
<1> DEFINE c == calls[i]
           now == Cardinality(Found(c.keyword))
           n == c.since - writes
<1>1. i \in DOMAIN calls /\ ListTypeOK
  BY DEF TotalInductive, FindMany, Count, ListTypeOK
<1>2. /\ now \in Nat /\ n \in Nat /\ c.page \in Sizes \ {0}
      /\ Found(c.keyword) \in SUBSET Companies /\ c \in Requests
      /\ c.total # None => c.total \in Nat
  BY <1>1, CallSizes
<1>3. Close(c, now, n)
  BY <1>1, TotalMeans DEF CallClose
<1>4. rows' = rows /\ writes' = writes
  BY DEF FindMany, Count
<1>5. CallClose(i)' <=> Close(calls'[i], now, n)
  BY <1>1, <1>4, StatementFills DEF Found, CallClose
<1>6. CASE FindMany(i)
  <2>1. PICK D \in Pages(Found(c.keyword), c.page) : calls' = [calls EXCEPT ![i].data = D]
    BY <1>6 DEF FindMany
  <2>2. Cardinality(D) = Due(now, c.page)
    BY <1>2, <2>1, PageHolds
  <2>3. /\ calls'[i].data = D /\ calls'[i].total = c.total /\ calls'[i].page = c.page
        /\ c.data = None
    BY <1>1, <1>2, <1>6, <2>1 DEF FindMany, Requests, ListTypeOK
  <2>4. Within(now, now, n)
    BY <1>2 DEF Within
  <2>5. c.total # None =>
          Within(c.total, now, n) /\ Within(now, c.total, n)
    BY <1>2, <1>3, <2>3 DEF Close, Within
  <2>6. Within(Due(now, c.page), Due(now, c.page), n)
    BY <1>2, <2>4, DueFollows
  <2>7. c.total # None => Within(Due(now, c.page), Due(c.total, c.page), n)
    BY <1>2, <2>5, DueFollows
  <2> HIDE DEF now, n, c
  <2> QED
    BY <1>5, <2>2, <2>3, <2>5, <2>6, <2>7 DEF Close
<1>7. CASE Count(i)
  <2>1. /\ calls'[i].data = c.data /\ calls'[i].total = now /\ calls'[i].page = c.page
        /\ c.total = None
    BY <1>1, <1>2, <1>7 DEF Count, Counted, Requests, ListTypeOK
  <2>2. Within(now, now, n)
    BY <1>2 DEF Within
  <2> HIDE DEF now, n
  <2> QED
    BY <1>3, <1>5, <2>1, <2>2 DEF Close
<1> QED
  BY <1>6, <1>7

\* Every step keeps the page and its total together.
LEMMA TotalKeeps ==
  ASSUME TotalInductive, ListInductive, ListTypeOK', Next
  PROVE  TotalInductive'
<1> SUFFICES ASSUME NEW i \in DOMAIN calls'
             PROVE  CallClose(i)'
  BY DEF TotalInductive, HalfReadClose, TotalMatchesPage, Close, CallClose
<1>1. i \in DOMAIN calls => CallClose(i)
  BY TotalMeans
<1>2. ASSUME NEW j, FindMany(j) \/ Count(j)
      PROVE  CallClose(i)'
  <2>1. CASE i = j
    BY <1>2, <2>1, StatementClose
  <2>2. CASE i # j
    <3>1. i \in DOMAIN calls /\ calls'[i] = calls[i] /\ rows' = rows /\ writes' = writes
      BY <1>2, <2>2, StatementFills DEF ListInductive, ListTypeOK
    <3> QED
      BY <1>1, <3>1 DEF Found, CallClose
  <2> QED
    BY <2>1, <2>2
<1>3. ASSUME NEW d \in Companies, WriteCompany(d)
      PROVE  CallClose(i)'
  <2>0. PICK c : c = calls[i]
    OBVIOUS
  <2> DEFINE now == Cardinality(Found(c.keyword))
             later == Cardinality(Found(c.keyword)')
             n == c.since - writes
  <2>1. i \in DOMAIN calls /\ calls' = calls /\ writes' = writes - 1
    BY <1>3 DEF WriteCompany
  <2>2. /\ now \in Nat /\ n \in Nat /\ c.page \in Sizes \ {0} /\ c.keyword \in Keywords
        /\ c.data # None => Cardinality(c.data) \in Nat
        /\ c.total # None => c.total \in Nat
    BY <2>0, <2>1, CallSizes DEF ListInductive
  <2>3. later \in Nat
    BY <2>1, SizeOfSet, FirstPage DEF Found, ListTypeOK, Sizes
  <2>4. Within(now, later, 1)
    BY <1>3, <2>2, WriteMovesOne DEF ListInductive
  <2>5. Within(Due(now, c.page), Due(later, c.page), 1)
        /\ Due(now, c.page) \in Nat /\ Due(later, c.page) \in Nat
    BY <2>2, <2>3, <2>4, DueFollows
  <2>6. c.total # None => Due(c.total, c.page) \in Nat
    BY <2>2, DueFollows
  <2>7. c.since - writes' = n + 1
    BY <2>0, <2>1, <2>2, CallSizes, ListAssumption DEF ListInductive, ListTypeOK, Requests
  <2> HIDE DEF now, later, n
  <2>8. Close(c, now, n)
    BY <1>1, <2>0, <2>1 DEF CallClose, now, n
  <2>9. Close(c, later, n + 1)
    BY <2>2, <2>3, <2>4, <2>5, <2>6, <2>8 DEF Close, Within
  <2> QED
    BY <2>0, <2>1, <2>7, <2>9 DEF later, CallClose
<1>4. CASE \/ \E k \in Keywords : Type(k)
           \/ \E p \in {page - 1, page + 1} : Turn(p)
           \/ Search
  <2>1. CASE i \in DOMAIN calls
    BY <1>1, <1>4, <2>1, Appends DEF Found, CallClose
  <2>2. CASE i \notin DOMAIN calls
    <3>1. \E k, p : calls'[i] = Call(k, p)
      BY <1>4, <2>2, Appends DEF ListInductive, ListTypeOK
    <3> QED
      BY <3>1 DEF Call, Close, CallClose
  <2> QED
    BY <2>1, <2>2
<1>5. ASSUME NEW j, Answer(j) \/ Fail(j)
      PROVE  CallClose(i)'
  BY <1>1, <1>5 DEF Answer, Fail, Found, CallClose
<1> QED
  BY <1>2, <1>3, <1>4, <1>5 DEF Next

\* A page and its total differ by the writes made while they were read, and not at
\* all when there were none.
THEOREM TotalsMatch == Spec => []TotalMatchesPage
<1>1. Init => TotalInductive
  <2> SUFFICES ASSUME Init
               PROVE  TotalInductive
    OBVIOUS
  <2>1. \A i \in DOMAIN calls : calls[i].data = None /\ calls[i].total = None
    BY DEF Init, Call
  <2> QED
    BY <2>1, InitList DEF ListInductive, TotalInductive, HalfReadClose, TotalMatchesPage
<1>2. TotalInductive /\ ListInductive /\ ListInductive' /\ [Next]_vars => TotalInductive'
  <2> SUFFICES ASSUME TotalInductive, ListInductive, ListInductive', [Next]_vars
               PROVE  TotalInductive'
    OBVIOUS
  <2>1. CASE Next
    BY <2>1, TotalKeeps DEF ListInductive
  <2>2. CASE UNCHANGED vars
    BY <2>2
       DEF vars, queryVars, listVars, TotalInductive, HalfReadClose, TotalMatchesPage,
                Found, ListInductive
  <2> QED
    BY <2>1, <2>2
<1>3. TotalInductive => TotalMatchesPage
  BY DEF TotalInductive
<1> QED
  BY <1>1, <1>2, <1>3, ListInvariant, PTL DEF Spec
=============================================================================
