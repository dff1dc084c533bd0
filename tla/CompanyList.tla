----------------------------- MODULE CompanyList -----------------------------
(***************************************************************************)
(* The companies page: a keyword box, a Search button, Previous and Next,  *)
(* and the list requests they send.  The server answers one with two       *)
(* statements; answers may overtake each other on their way back.          *)
(*                                                                         *)
(* The list is that of one organization, without archived companies.       *)
(***************************************************************************)
EXTENDS Integers, FiniteSets, Sequences

CONSTANTS
  Companies,
  Rank,         \* their order by name; companies of one name have one rank
  Keywords, Any,
  Matches,      \* the companies a keyword finds
  Limit,
  None,
  MaxCalls,     \* list requests (a bound)
  MaxFailures,  \* requests that may fail (a bound)
  MaxWrites,    \* companies created or deleted meanwhile (a bound)
  InOrder       \* TRUE: answers arrive in the order of their requests

ASSUME ListAssumption ==
  /\ IsFiniteSet(Companies)
  /\ Companies # {}
  /\ Rank \in [Companies -> Nat]
  /\ Any \in Keywords
  /\ Matches \in [Keywords -> SUBSET Companies]
  /\ Matches[Any] = Companies
  /\ Limit \in Nat \ {0}
  /\ {MaxCalls, MaxFailures, MaxWrites} \subseteq Nat
  /\ InOrder \in BOOLEAN

VARIABLES
  rows,       \* the companies there are
  keyword, page, companies, pagination, error, isLoading,  \* CompanyList's state
  calls,      \* the requests so far and what their statements returned
  open,       \* those without an answer
  shown,      \* the request whose answer is on the page, 0 for none
  searched,   \* TRUE: a search is the last the user did
  failures,   \* failures left
  writes      \* writes left

queryVars == <<keyword, page, searched>>
listVars  == <<companies, pagination, shown>>
vars == <<rows, queryVars, listVars, error, isLoading, calls, open, failures, writes>>

-----------------------------------------------------------------------------
(* The server. *)

\* buildWhere
Found(k) == rows \cap Matches[k]

Least(a, b) == IF a < b THEN a ELSE b

\* Slip: OFFSET page * limit.
OffsetOfNextPage(p) == p * Limit

Offset(p) == (p - 1) * Limit

\* What ORDER BY name LIMIT .. OFFSET .. may return of the set M: rows of equal
\* names come in any order.
Pages(M, p) ==
  {D \in SUBSET M : \E before \in SUBSET (M \ D) :
     /\ Cardinality(before) = Least(Offset(p), Cardinality(M))
     /\ Cardinality(D) = Least(Limit, Cardinality(M) - Cardinality(before))
     /\ \A d \in D : /\ \A x \in before : Rank[x] <= Rank[d]
                     /\ \A x \in M \ (before \cup D) : Rank[d] <= Rank[x]}

TotalPages(total) == (total + Limit - 1) \div Limit

\* getCompanies starts both statements at once.
FindMany(i) ==
  /\ i \in open
  /\ calls[i].data = None
  /\ \E D \in Pages(Found(calls[i].keyword), calls[i].page) :
       calls' = [calls EXCEPT ![i].data = D]
  /\ UNCHANGED <<rows, queryVars, listVars, error, isLoading, open, failures, writes>>

\* Slip: the filter of the page is not that of the total.
CountedAll(k) == Cardinality(rows)

Counted(k) == Cardinality(Found(k))

Count(i) ==
  /\ i \in open
  /\ calls[i].total = None
  /\ calls' = [calls EXCEPT ![i].total = Counted(calls[i].keyword)]
  /\ UNCHANGED <<rows, queryVars, listVars, error, isLoading, open, failures, writes>>

\* Somebody else creates or deletes a company.
WriteCompany(c) ==
  /\ writes > 0
  /\ writes' = writes - 1
  /\ rows' = IF c \in rows THEN rows \ {c} ELSE rows \cup {c}
  /\ UNCHANGED <<queryVars, listVars, error, isLoading, calls, open, failures>>

-----------------------------------------------------------------------------
(* The page. *)

\* "since" is history: the writes left when the request was sent.
Call(k, p) ==
  [keyword |-> k, page |-> p, data |-> None, total |-> None, since |-> writes]

\* Slip: page is missing from load's dependencies.
EffectOfKeyword(k, p) == IF k # keyword THEN <<Call(k, p)>> ELSE <<>>

\* load depends on keyword and page: when one changes, the effect runs it.
Effect(k, p) == IF k # keyword \/ p # page THEN <<Call(k, p)>> ELSE <<>>

Sends(qs) ==
  /\ Len(calls) + Len(qs) <= MaxCalls
  /\ calls' = calls \o qs
  /\ open' = open \cup (Len(calls) + 1)..(Len(calls) + Len(qs))
  /\ isLoading' = (isLoading \/ qs # <<>>)
  /\ error' = (error /\ qs = <<>>)
  /\ UNCHANGED <<rows, listVars, failures, writes>>

Type(k) ==
  /\ k # keyword
  /\ keyword' = k
  /\ searched' = FALSE
  /\ Sends(Effect(k, page))
  /\ UNCHANGED page

\* Slip: Previous is not disabled on the first page.
CanTurnBack(p) == p = page - 1 \/ (p = page + 1 /\ page < pagination.totalPages)

CanTurn(p) ==
  \/ p = page - 1 /\ page > 1
  \/ p = page + 1 /\ page < pagination.totalPages

\* The buttons appear with the first answer of several pages.
Turn(p) ==
  /\ pagination # None
  /\ pagination.totalPages > 1
  /\ CanTurn(p)
  /\ page' = p
  /\ searched' = FALSE
  /\ Sends(Effect(keyword, p))
  /\ UNCHANGED keyword

\* Slip: the page is not reset.
SearchStays ==
  /\ searched' = TRUE
  /\ Sends(<<Call(keyword, page)>>)
  /\ UNCHANGED <<keyword, page>>

\* The handler's own load() still has the old page; the effect follows.
Search ==
  /\ page' = 1
  /\ searched' = TRUE
  /\ Sends(<<Call(keyword, page)>> \o Effect(keyword, 1))
  /\ UNCHANGED keyword

Arrives(i) ==
  /\ i \in open
  /\ InOrder => \A j \in open : i <= j
  /\ open' = open \ {i}

Answer(i) ==
  LET c == calls[i] IN
  /\ Arrives(i)
  /\ c.data # None
  /\ c.total # None
  /\ companies' = c.data
  /\ pagination' = [page |-> c.page, totalPages |-> TotalPages(c.total)]
  /\ shown' = i
  /\ isLoading' = FALSE
  /\ UNCHANGED <<rows, queryVars, error, calls, failures, writes>>

\* Slip: isLoading is cleared after a success alone.
LoadingAfterFailureKept == isLoading

\* The finally of load.
LoadingAfterFailure == FALSE

\* A statement, the route or the network fails.
Fail(i) ==
  /\ Arrives(i)
  /\ failures > 0
  /\ failures' = failures - 1
  /\ error' = TRUE
  /\ isLoading' = LoadingAfterFailure
  /\ UNCHANGED <<rows, queryVars, listVars, calls, writes>>

-----------------------------------------------------------------------------
Init ==
  /\ writes = MaxWrites
  /\ rows \in SUBSET Companies
  /\ keyword = Any
  /\ page = 1
  /\ companies = {}
  /\ pagination = None
  /\ error = FALSE
  /\ isLoading = TRUE
  /\ calls = <<Call(Any, 1)>>
  /\ open = {1}
  /\ shown = 0
  /\ searched = FALSE
  /\ failures = MaxFailures

Next ==
  \/ \E i \in 1..MaxCalls : FindMany(i) \/ Count(i) \/ Answer(i) \/ Fail(i)
  \/ \E k \in Keywords : Type(k)
  \/ \E p \in {page - 1, page + 1} : Turn(p)
  \/ Search
  \/ \E c \in Companies : WriteCompany(c)

Spec == Init /\ [][Next]_vars

-----------------------------------------------------------------------------
(* Correctness. *)

Sizes == 0..Cardinality(Companies)

Requests ==
  [keyword : Keywords, page : Sizes \ {0}, data : {None} \cup SUBSET Companies,
   total : {None} \cup Sizes, since : 0..MaxWrites]

\* Every variable holds a value the code can give it.
ListTypeOK ==
  /\ rows \subseteq Companies
  /\ keyword \in Keywords
  /\ page \in Sizes \ {0}
  /\ companies \subseteq Companies
  /\ pagination \in {None} \cup [page : Sizes \ {0}, totalPages : Sizes]
  /\ error \in BOOLEAN /\ isLoading \in BOOLEAN /\ searched \in BOOLEAN
  /\ calls \in Seq(Requests)
  /\ \A i \in DOMAIN calls : calls[i].since >= writes
  /\ open \subseteq DOMAIN calls
  /\ shown \in {0} \cup DOMAIN calls
  /\ failures \in 0..MaxFailures
  /\ writes \in 0..MaxWrites

\* Once every answer is in and none failed, the page shows what its keyword and
\* its page number say.  (With answers in order: load keeps no track of which
\* request an answer belongs to.)
SettledIsCurrent ==
  open = {} /\ ~error =>
    /\ calls[shown].keyword = keyword
    /\ calls[shown].page = page

\* While nobody writes and names differ, turning the pages shows every company
\* that is found, and none twice.
PagesPartition ==
  writes = MaxWrites =>
    \A k \in Keywords :
      LET answered == {i \in DOMAIN calls : calls[i].keyword = k /\ calls[i].data # None}
          of(p) == {i \in answered : calls[i].page = p}
      IN /\ \A i, j \in answered :
              calls[i].page # calls[j].page => calls[i].data \cap calls[j].data = {}
         /\ (\A p \in 1..TotalPages(Cardinality(Found(k))) : of(p) # {}) =>
              UNION {calls[i].data : i \in answered} = Found(k)

\* The rows that a total of t leaves to a page.
Due(t, p) ==
  LET rest == t - Offset(p)
  IN IF rest > 0 THEN Least(Limit, rest) ELSE 0

Within(a, b, n) == a <= b + n /\ b <= a + n

\* "So the total always matches the page" (company.repository.ts): a page holds the
\* rows that its total leaves to it, but for what was written while its two
\* statements ran, by one row for each write at most.
TotalMatchesPage ==
  \A i \in DOMAIN calls :
    LET c == calls[i] IN
    c.data # None /\ c.total # None =>
      Within(Cardinality(c.data), Due(c.total, c.page), c.since - writes)

\* The Loading row is not left behind: while it stands, an answer is to come.
LoadingBacked == isLoading => open # {}

\* "Reset to the first page, or a search could land on a page that no longer
\* exists in the narrower result set" (CompanyList.tsx): after a search that was
\* answered, an empty list means that nothing matches.
SearchFindsMatches ==
  searched /\ open = {} /\ ~error /\ writes = MaxWrites =>
    (companies = {} => Found(keyword) = {})

\* "Reset to the first page, or a search could land on a page that no longer
\* exists in the narrower result set" (CompanyList.tsx): whichever of the search's
\* own requests is answered last, the page it lands on exists.
SearchLandsOnPage ==
  searched /\ open = {} /\ ~error /\ writes = MaxWrites /\ shown >= Len(calls) - 1 =>
    pagination.page = 1 \/ pagination.page <= pagination.totalPages

-----------------------------------------------------------------------------
(* Why they hold. *)

\* The last request was sent with the keyword and the number on the page.
LatestIsCurrent ==
  /\ calls # <<>>
  /\ calls[Len(calls)].keyword = keyword
  /\ calls[Len(calls)].page = page

\* Answers in order leave the last requests open, and the last answer shown.
LatestIsLast ==
  InOrder =>
    /\ \A i \in open, j \in DOMAIN calls : i <= j => j \in open
    /\ open = {} /\ ~error => shown = Len(calls)

ListInductive == ListTypeOK /\ LoadingBacked /\ LatestIsCurrent /\ LatestIsLast

\* While one statement of a request is still to run, what the other found is as
\* close to the rows there are now.
HalfReadClose ==
  \A i \in DOMAIN calls :
    LET c == calls[i]
        now == Cardinality(Found(c.keyword))
        n == c.since - writes
    IN /\ c.data # None /\ c.total = None =>
            Within(Cardinality(c.data), Due(now, c.page), n)
       /\ c.data = None /\ c.total # None => Within(c.total, now, n)

TotalInductive == ListTypeOK /\ HalfReadClose /\ TotalMatchesPage

\* Nobody else's company has the same name.
DistinctNames == \A c, d \in Companies : Rank[c] = Rank[d] => c = d

\* While nobody writes, what was read is still a page of what there is.
AnswersArePages ==
  writes = MaxWrites =>
    \A i \in DOMAIN calls :
      LET c == calls[i] IN
      c.data # None => c.data \in Pages(Found(c.keyword), c.page)

\* The page shows an answer, and a search goes to the first page.
ShowsAnswer ==
  /\ shown # 0 => calls[shown].data # None /\ companies = calls[shown].data
  /\ searched => page = 1

PagesInductive == AnswersArePages /\ ShowsAnswer
=============================================================================
