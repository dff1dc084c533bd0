-------------------------- MODULE CompanyPagesProofs --------------------------
(***************************************************************************)
(* Theorems about the pages of CompanyList: what turning them shows, and   *)
(* what an empty list means after a search.                                *)
(*                                                                         *)
(* The rows before a page, and those up to its end, come first in the      *)
(* order.  Of two sets that come first, the smaller one is part of the     *)
(* other, which is all that is said about OFFSET and LIMIT below.          *)
(***************************************************************************)
EXTENDS CompanyListProofs

-----------------------------------------------------------------------------
(* Rows that come first. *)

First(A, M) == A \subseteq M /\ \A a \in A, x \in M \ A : Rank[a] <= Rank[x]

\* With distinct names they are nested.
LEMMA FirstNested ==
  ASSUME DistinctNames, NEW M \in SUBSET Companies, NEW A, NEW B, First(A, M), First(B, M),
         Cardinality(A) <= Cardinality(B)
  PROVE  A \subseteq B
<1>1. /\ A \in SUBSET Companies /\ B \in SUBSET Companies
      /\ IsFiniteSet(A) /\ IsFiniteSet(B)
      /\ Cardinality(A) \in Nat /\ Cardinality(B) \in Nat
  BY SizeOfSet, FirstPage DEF First, Sizes
<1>2. A \subseteq B \/ B \subseteq A
  <2> SUFFICES ASSUME NEW a \in A \ B, NEW b \in B \ A
               PROVE  FALSE
    OBVIOUS
  <2>1. Rank[a] <= Rank[b] /\ Rank[b] <= Rank[a]
    BY DEF First
  <2>2. Rank[a] \in Nat /\ Rank[b] \in Nat
    BY <1>1, ListAssumption
  <2> QED
    BY <1>1, <2>1, <2>2 DEF DistinctNames
<1>3. CASE B \subseteq A
  <2>1. Cardinality(A) = Cardinality(B)
    BY <1>1, <1>3, FS_Subset
  <2> QED
    BY <1>1, <1>3, <2>1, FS_Subset
<1> QED
  BY <1>2, <1>3

\* Before a page, and up to its end, there are the first rows.
LEMMA PageEnds ==
  ASSUME NEW M \in SUBSET Companies, NEW p \in Sizes \ {0}, NEW D \in Pages(M, p)
  PROVE  /\ D \subseteq M
         /\ \E before \in SUBSET (M \ D) :
              /\ First(before, M)
              /\ First(before \cup D, M)
              /\ Cardinality(before) = Least(Offset(p), Cardinality(M))
              /\ Cardinality(before \cup D) = Least(Offset(p) + Limit, Cardinality(M))
<1>1. PICK before \in SUBSET (M \ D) :
        /\ Cardinality(before) = Least(Offset(p), Cardinality(M))
        /\ Cardinality(D) = Least(Limit, Cardinality(M) - Cardinality(before))
        /\ \A d \in D : /\ \A x \in before : Rank[x] <= Rank[d]
                        /\ \A x \in M \ (before \cup D) : Rank[d] <= Rank[x]
  BY DEF Pages
<1>2. D \subseteq M
  BY DEF Pages
<1>3. /\ IsFiniteSet(M) /\ IsFiniteSet(D) /\ IsFiniteSet(before)
      /\ Cardinality(M) \in Nat /\ Cardinality(D) \in Nat /\ Cardinality(before) \in Nat
  BY <1>2, SizeOfSet, FirstPage DEF Sizes
<1>4. \A x \in M : Rank[x] \in Nat
  BY ListAssumption
<1>5. First(before, M)
  <2>1. CASE D = {}
    <3>1. Cardinality(before) = Cardinality(M)
      BY <1>1, <1>3, <2>1, FS_EmptySet, OffsetNat, ListAssumption DEF Least
    <3>2. before = M
      BY <1>3, <3>1, FS_Subset
    <3> QED
      BY <3>2 DEF First
  <2>2. CASE D # {}
    <3> SUFFICES ASSUME NEW a \in before, NEW x \in M \ before
                 PROVE  Rank[a] <= Rank[x]
      BY DEF First
    <3>1. PICK d \in D : x \notin D \/ d = x
      BY <2>2
    <3>2. Rank[a] <= Rank[d] /\ (d = x \/ Rank[d] <= Rank[x])
      BY <1>1, <3>1
    <3> QED
      BY <1>2, <1>4, <3>2
  <2> QED
    BY <2>1, <2>2
<1>6. First(before \cup D, M)
  BY <1>1, <1>2, <1>5 DEF First
<1>7. Cardinality(before \cup D) = Least(Offset(p) + Limit, Cardinality(M))
  <2>1. Cardinality(before \cup D) = Cardinality(before) + Cardinality(D)
    <3>1. before \cap D = {}
      OBVIOUS
    <3>2. Cardinality(before \cap D) = 0
      BY <3>1, FS_EmptySet
    <3>3. Cardinality(before \cup D)
            = Cardinality(before) + Cardinality(D) - Cardinality(before \cap D)
      BY <1>3, FS_Union, Zenon
    <3> QED
      BY <1>3, <3>2, <3>3
  <2> QED
    BY <1>1, <1>3, <2>1, OffsetNat DEF Least
<1> QED
  BY <1>1, <1>2, <1>5, <1>6, <1>7

-----------------------------------------------------------------------------
(* Where a page starts. *)

\* More pages hold no fewer rows.
LEMMA PagesGrow ==
  ASSUME NEW a \in Nat, NEW b \in Nat, a <= b
  PROVE  a * Limit \in Nat /\ b * Limit \in Nat /\ a * Limit <= b * Limit
<1>1. PICK k \in Nat : b = a + k
  <2>1. b - a \in Nat /\ b = a + (b - a)
    OBVIOUS
  <2> QED
    BY <2>1
<1>2. Limit \in Nat
  BY ListAssumption
<1>3. a * Limit \in Nat /\ k * Limit \in Nat
  BY <1>2
<1>4. b * Limit = a * Limit + k * Limit
  BY <1>1, <1>2
<1> QED
  BY <1>3, <1>4

\* A page ends where the next one starts, or before.
LEMMA OffsetsApart ==
  ASSUME NEW p \in Sizes \ {0}, NEW q \in Sizes \ {0}, p < q
  PROVE  Offset(p) + Limit <= Offset(q)
<1>1. Limit \in Nat /\ p \in Nat \ {0} /\ q \in Nat \ {0}
  BY ListAssumption, FirstPage DEF Sizes
<1>2. PICK m \in Nat : p = m + 1
  <2>1. p - 1 \in Nat /\ p = (p - 1) + 1
    BY <1>1
  <2> QED
    BY <2>1
<1>3. PICK n \in Nat : q = n + 1
  <2>1. q - 1 \in Nat /\ q = (q - 1) + 1
    BY <1>1
  <2> QED
    BY <2>1
<1>4. m + 1 <= n
  BY <1>2, <1>3
<1>5. (m + 1) * Limit <= n * Limit
  BY <1>4, PagesGrow
<1>6. (m + 1) * Limit = m * Limit + Limit /\ m * Limit \in Nat
  BY <1>1
<1>7. Offset(p) = m * Limit /\ Offset(q) = n * Limit
  BY <1>1, <1>2, <1>3 DEF Offset
<1> QED
  BY <1>5, <1>6, <1>7

\* Each row in the order is on one of the pages there are.
LEMMA PageOfRow ==
  ASSUME NEW t \in Sizes, NEW r \in Nat, r < t
  PROVE  \E p \in 1..TotalPages(t) : Offset(p) <= r /\ r < Offset(p) + Limit
<1>1. Limit \in Nat \ {0} /\ t \in Nat
  BY ListAssumption, FirstPage DEF Sizes
<1> DEFINE n == r \div Limit
           last == TotalPages(t)
<1>2. n \in Nat /\ n * Limit <= r /\ r < n * Limit + Limit
  <2>1. n \in Nat /\ r = Limit * n + (r % Limit) /\ r % Limit \in 0..Limit - 1
    BY <1>1
  <2>2. Limit * n = n * Limit /\ n * Limit \in Nat
    BY <1>1, <2>1
  <2> HIDE DEF n
  <2> QED
    BY <1>1, <2>1, <2>2
<1>3. last \in Nat /\ t <= last * Limit
  <2> DEFINE s == t + Limit - 1
  <2>1. s \in Nat
    BY <1>1
  <2>2. last \in Nat /\ s = Limit * last + (s % Limit) /\ s % Limit \in 0..Limit - 1
    BY <1>1, <2>1 DEF TotalPages
  <2>3. Limit * last = last * Limit /\ last * Limit \in Nat
    BY <1>1, <2>2
  <2> HIDE DEF last
  <2> QED
    BY <1>1, <2>2, <2>3
<1> HIDE DEF n, last
<1>4. n + 1 <= last
  <2> SUFFICES ASSUME last <= n
               PROVE  FALSE
    BY <1>2, <1>3
  <2>1. last * Limit <= n * Limit /\ last * Limit \in Nat /\ n * Limit \in Nat
    BY <1>2, <1>3, PagesGrow
  <2> QED
    BY <1>1, <1>2, <1>3, <2>1
<1>5. Offset(n + 1) = n * Limit
  BY <1>2 DEF Offset
<1>6. n + 1 \in 1..last
  BY <1>2, <1>3, <1>4
<1> QED
  BY <1>2, <1>5, <1>6 DEF last

-----------------------------------------------------------------------------
(* Pages of one set of rows. *)

\* No row is on two pages.
LEMMA PagesApart ==
  ASSUME DistinctNames, NEW M \in SUBSET Companies,
         NEW p \in Sizes \ {0}, NEW q \in Sizes \ {0}, p < q,
         NEW D \in Pages(M, p), NEW E \in Pages(M, q)
  PROVE  D \cap E = {}
<1>1. PICK before \in SUBSET (M \ D) :
        /\ First(before \cup D, M)
        /\ Cardinality(before \cup D) = Least(Offset(p) + Limit, Cardinality(M))
  BY PageEnds
<1>2. PICK skipped \in SUBSET (M \ E) :
        /\ First(skipped, M)
        /\ Cardinality(skipped) = Least(Offset(q), Cardinality(M))
  <2>1. \E s \in SUBSET (M \ E) :
          /\ First(s, M)
          /\ First(s \cup E, M)
          /\ Cardinality(s) = Least(Offset(q), Cardinality(M))
          /\ Cardinality(s \cup E) = Least(Offset(q) + Limit, Cardinality(M))
    BY PageEnds, Zenon
  <2> QED
    BY <2>1
<1>3. Cardinality(before \cup D) <= Cardinality(skipped)
  BY <1>1, <1>2, OffsetsApart, OffsetNat, SizeOfSet, FirstPage DEF Least, Sizes
<1>4. before \cup D \subseteq skipped
  BY <1>1, <1>2, <1>3, FirstNested
<1> QED
  BY <1>2, <1>4

\* Each row is on some page.
LEMMA PagesCover ==
  ASSUME DistinctNames, NEW M \in SUBSET Companies, NEW x \in M
  PROVE  \E p \in 1..TotalPages(Cardinality(M)) :
           p \in Sizes \ {0} /\ \A D \in Pages(M, p) : x \in D
<1> DEFINE ahead == {y \in M : Rank[y] < Rank[x]}
           upto == ahead \cup {x}
<1>1. \A y \in M : Rank[y] \in Nat
  BY ListAssumption
<1>2. First(ahead, M) /\ First(upto, M) /\ x \notin ahead
  BY <1>1 DEF First, DistinctNames
<1>3. /\ Cardinality(M) \in Sizes /\ Cardinality(M) \in Nat
      /\ IsFiniteSet(M) /\ IsFiniteSet(ahead) /\ Cardinality(ahead) \in Nat
  <2>1. ahead \in SUBSET Companies
    OBVIOUS
  <2> QED
    BY <2>1, SizeOfSet, FirstPage DEF Sizes
<1>4. Cardinality(upto) = Cardinality(ahead) + 1 /\ Cardinality(upto) <= Cardinality(M)
  <2>1. upto \in SUBSET M
    OBVIOUS
  <2> HIDE DEF ahead
  <2> QED
    BY <1>2, <1>3, <2>1, FS_AddElement, FS_Subset
<1> HIDE DEF ahead, upto
<1>5. PICK p \in 1..TotalPages(Cardinality(M)) :
        Offset(p) <= Cardinality(ahead) /\ Cardinality(ahead) < Offset(p) + Limit
  BY <1>3, <1>4, PageOfRow
<1>6. p \in Sizes \ {0}
  BY <1>3, PagesBounded, FirstPage DEF Sizes
<1>7. ASSUME NEW D \in Pages(M, p)
      PROVE  x \in D
  <2>1. PICK before \in SUBSET (M \ D) :
          /\ First(before, M)
          /\ First(before \cup D, M)
          /\ Cardinality(before) = Least(Offset(p), Cardinality(M))
          /\ Cardinality(before \cup D) = Least(Offset(p) + Limit, Cardinality(M))
    BY <1>6, PageEnds
  <2>2. Cardinality(before) < Cardinality(upto)
        /\ Cardinality(upto) <= Cardinality(before \cup D)
    BY <1>3, <1>4, <1>5, <1>6, <2>1, OffsetNat DEF Least
  <2>3. upto \subseteq before \cup D
    BY <1>2, <2>1, <2>2, FirstNested
  <2>4. x \notin before
    <3> SUFFICES ASSUME x \in before
                 PROVE  FALSE
      OBVIOUS
    <3>1. before \subseteq upto
      <4>1. Cardinality(before) <= Cardinality(upto)
        BY <1>3, <1>4, <2>2, <2>1, OffsetNat, <1>6 DEF Least
      <4> QED
        BY <1>2, <2>1, <4>1, FirstNested
    <3>2. upto \subseteq before
      BY <1>1, <2>1 DEF First, upto, ahead
    <3>3. before = upto
      BY <3>1, <3>2
    <3> QED
      BY <1>3, <1>4, <2>2, <3>3
  <2> QED
    BY <2>3, <2>4 DEF upto
<1> QED
  BY <1>5, <1>6, <1>7

-----------------------------------------------------------------------------
(* What the page was answered. *)

\* A statement that runs reads a page of what there is.
LEMMA StatementReads ==
  ASSUME ListTypeOK, ShowsAnswer, NEW i, FindMany(i) \/ Count(i)
  PROVE  /\ \/ calls'[i].data = calls[i].data
            \/ /\ calls'[i].data \in Pages(Found(calls[i].keyword), calls[i].page)
               /\ calls[i].data = None
         /\ ShowsAnswer'
<1>1. calls \in Seq(Requests) /\ i \in DOMAIN calls /\ calls[i] \in Requests
  BY DEF ListTypeOK, FindMany, Count
<1>2. CASE FindMany(i)
  <2>1. PICK D \in Pages(Found(calls[i].keyword), calls[i].page) :
          calls' = [calls EXCEPT ![i].data = D]
    BY <1>2 DEF FindMany
  <2>2. calls'[i].data = D
    BY <1>1, <2>1 DEF Requests
  <2>3. shown # 0 => shown # i /\ calls'[shown] = calls[shown]
    BY <1>1, <1>2, <2>1 DEF FindMany, ShowsAnswer
  <2> QED
    BY <1>2, <2>1, <2>2, <2>3 DEF FindMany, ShowsAnswer, listVars, queryVars
<1>3. CASE Count(i)
  <2>1. calls'[i].data = calls[i].data /\ \A j \in DOMAIN calls \ {i} : calls'[j] = calls[j]
    BY <1>1, <1>3 DEF Count, Requests
  <2> QED
    BY <1>1, <1>3, <2>1 DEF Count, ShowsAnswer, ListTypeOK, listVars, queryVars
<1> QED
  BY <1>2, <1>3

\* Every step keeps it.
LEMMA PagesStep ==
  ASSUME ListInductive, PagesInductive, Next
  PROVE  PagesInductive'
<1>0. ListTypeOK
  BY DEF ListInductive
<1>1. ASSUME NEW i, FindMany(i) \/ Count(i)
      PROVE  PagesInductive'
  <2>1. \A j \in DOMAIN calls : j # i => calls'[j] = calls[j]
    BY <1>0, <1>1, StatementFills
  <2>2. /\ DOMAIN calls' = DOMAIN calls /\ rows' = rows /\ writes' = writes
        /\ \A j \in DOMAIN calls :
             calls'[j].keyword = calls[j].keyword /\ calls'[j].page = calls[j].page
    BY <1>0, <1>1, StatementFills DEF ListTypeOK
  <2>3. ShowsAnswer'
    BY <1>0, <1>1, StatementReads DEF PagesInductive
  <2>4. AnswersArePages'
    <3> SUFFICES ASSUME writes' = MaxWrites, NEW j \in DOMAIN calls', calls'[j].data # None
                 PROVE  calls'[j].data \in Pages(Found(calls[j].keyword), calls[j].page)
      BY <2>2 DEF AnswersArePages, Found
    <3>1. calls[j].data # None =>
            calls[j].data \in Pages(Found(calls[j].keyword), calls[j].page)
      BY <2>2 DEF PagesInductive, AnswersArePages
    <3>2. CASE j = i
      BY <1>0, <1>1, <3>1, <3>2, StatementReads DEF PagesInductive
    <3>3. CASE j # i
      BY <2>1, <2>2, <3>1, <3>3
    <3> QED
      BY <3>2, <3>3
  <2> QED
    BY <2>3, <2>4 DEF PagesInductive
<1>2. CASE \/ \E k \in Keywords : Type(k)
           \/ \E p \in {page - 1, page + 1} : Turn(p)
           \/ Search
  <2>1. searched' => page' = 1
    BY <1>2 DEF Type, Turn, Search
  <2>2. ShowsAnswer'
    BY <1>0, <1>2, <2>1, Appends DEF PagesInductive, ShowsAnswer, ListTypeOK, listVars
  <2>3. AnswersArePages'
    <3> SUFFICES ASSUME writes' = MaxWrites, NEW j \in DOMAIN calls', calls'[j].data # None
                 PROVE  calls'[j].data
                          \in Pages(rows' \cap Matches[calls'[j].keyword], calls'[j].page)
      BY DEF AnswersArePages, Found
    <3>1. j \in DOMAIN calls
      <4>1. j \in DOMAIN calls \/ j = Len(calls) + 1 \/ j = Len(calls')
        BY <1>0, <1>2, Appends DEF ListTypeOK
      <4>2. \A k, p : Call(k, p).data = None
        BY DEF Call
      <4>3. calls'[Len(calls')].data = None /\ calls'[Len(calls) + 1].data = None
        BY <1>2, <4>2, Appends
      <4> QED
        BY <4>1, <4>3
    <3> QED
      BY <1>2, <3>1, Appends DEF PagesInductive, AnswersArePages, Found
  <2> QED
    BY <2>2, <2>3 DEF PagesInductive
<1>3. ASSUME NEW i, Answer(i) \/ Fail(i)
      PROVE  PagesInductive'
  <2>1. i \in DOMAIN calls
    BY <1>0, <1>3 DEF ListTypeOK, Answer, Fail, Arrives
  <2> QED
    BY <1>3, <2>1
    DEF Answer, Fail, Arrives, PagesInductive, AnswersArePages, ShowsAnswer, Found,
        queryVars, listVars
<1>4. ASSUME NEW c \in Companies, WriteCompany(c)
      PROVE  PagesInductive'
  <2>1. writes' # MaxWrites
    BY <1>0, <1>4, ListAssumption DEF ListTypeOK, WriteCompany
  <2> QED
    BY <1>4, <2>1
    DEF WriteCompany, PagesInductive, AnswersArePages, ShowsAnswer, queryVars, listVars
<1> QED
  BY <1>1, <1>2, <1>3, <1>4 DEF Next

\* It holds throughout, whatever the order of the answers.
THEOREM PagesInvariant == Spec => []PagesInductive
<1>1. Init => PagesInductive
  <2> SUFFICES ASSUME Init
               PROVE  PagesInductive
    OBVIOUS
  <2>1. \A i \in DOMAIN calls : calls[i].data = None
    BY DEF Init, Call
  <2> QED
    BY <2>1 DEF Init, PagesInductive, AnswersArePages, ShowsAnswer
<1>2. ListInductive /\ PagesInductive /\ [Next]_vars => PagesInductive'
  <2> SUFFICES ASSUME ListInductive, PagesInductive, UNCHANGED vars
               PROVE  PagesInductive'
    BY PagesStep
  <2> QED
    BY DEF vars, queryVars, listVars, PagesInductive, AnswersArePages, ShowsAnswer, Found
<1> QED
  BY <1>1, <1>2, ListInvariant, PTL DEF Spec

-----------------------------------------------------------------------------
(* The properties. *)

\* Where no two companies share a name, turning the pages shows every company that is
\* found, and none twice, as long as nobody writes.
THEOREM TurningShowsAll ==
  ASSUME DistinctNames
  PROVE  Spec => []PagesPartition
<1>1. ListInductive /\ PagesInductive => PagesPartition
  <2> SUFFICES ASSUME ListInductive, PagesInductive, writes = MaxWrites, NEW k \in Keywords
               PROVE  LET answered == {i \in DOMAIN calls :
                                         calls[i].keyword = k /\ calls[i].data # None}
                          of(p) == {i \in answered : calls[i].page = p}
                      IN /\ \A i, j \in answered :
                              calls[i].page # calls[j].page =>
                                calls[i].data \cap calls[j].data = {}
                         /\ (\A p \in 1..TotalPages(Cardinality(Found(k))) : of(p) # {}) =>
                              UNION {calls[i].data : i \in answered} = Found(k)
    BY Zenon DEF PagesPartition
  <2> DEFINE answered == {i \in DOMAIN calls : calls[i].keyword = k /\ calls[i].data # None}
             of(p) == {i \in answered : calls[i].page = p}
  <2>1. Found(k) \in SUBSET Companies
    BY DEF ListInductive, ListTypeOK, Found
  <2>2. ASSUME NEW i \in answered
        PROVE  /\ calls[i].page \in Sizes \ {0} /\ calls[i].page \in Nat
               /\ calls[i].data \in Pages(Found(k), calls[i].page)
    BY CallSizes, FirstPage DEF ListInductive, PagesInductive, AnswersArePages, Sizes
  <2> HIDE DEF answered
  <2>3. ASSUME NEW i \in answered, NEW j \in answered, calls[i].page # calls[j].page
        PROVE  calls[i].data \cap calls[j].data = {}
    <3>1. CASE calls[i].page < calls[j].page
      BY <2>1, <2>2, <3>1, PagesApart
    <3>2. CASE calls[j].page < calls[i].page
      BY <2>1, <2>2, <3>2, PagesApart
    <3> QED
      BY <2>2, <2>3, <3>1, <3>2
  <2>4. ASSUME \A p \in 1..TotalPages(Cardinality(Found(k))) : of(p) # {}
        PROVE  UNION {calls[i].data : i \in answered} = Found(k)
    <3>1. \A i \in answered : calls[i].data \subseteq Found(k)
      BY <2>2 DEF Pages
    <3>2. ASSUME NEW x \in Found(k)
          PROVE  \E i \in answered : x \in calls[i].data
      <4>1. PICK p \in 1..TotalPages(Cardinality(Found(k))) :
              \A D \in Pages(Found(k), p) : x \in D
        BY <2>1, PagesCover
      <4>2. PICK i \in answered : calls[i].page = p
        BY <2>4
      <4> QED
        BY <2>2, <4>1, <4>2
    <3> QED
      BY <3>1, <3>2
  <2> QED
    BY <2>3, <2>4 DEF answered
<1> QED
  BY <1>1, ListInvariant, PagesInvariant, PTL

\* With answers in order, an empty list after a search means that nothing matches: the
\* request that load's stale closure sends for the old page is overtaken by the next.
THEOREM SearchTells ==
  ASSUME InOrder
  PROVE  Spec => []SearchFindsMatches
<1>1. ListInductive /\ PagesInductive => SearchFindsMatches
  <2> SUFFICES ASSUME ListInductive, PagesInductive, searched, open = {}, ~error,
                      writes = MaxWrites, companies = {}
               PROVE  Found(keyword) = {}
    BY DEF SearchFindsMatches
  <2>1. /\ shown = Len(calls) /\ shown \in DOMAIN calls /\ shown # 0
        /\ calls[shown].keyword = keyword /\ calls[shown].page = 1
    BY DEF ListInductive, ListTypeOK, LatestIsLast, LatestIsCurrent, PagesInductive,
           ShowsAnswer
  <2>2. {} \in Pages(Found(keyword), 1)
    BY <2>1 DEF PagesInductive, AnswersArePages, ShowsAnswer
  <2>3. Found(keyword) \in SUBSET Companies
    BY DEF ListInductive, ListTypeOK, Found
  <2>4. Due(Cardinality(Found(keyword)), 1) = 0
    BY <2>2, <2>3, PageHolds, FirstPage, FS_EmptySet
  <2>5. Cardinality(Found(keyword)) \in Nat /\ IsFiniteSet(Found(keyword))
    BY <2>3, SizeOfSet, FirstPage DEF Sizes
  <2>6. Offset(1) = 0
    BY ListAssumption DEF Offset
  <2>7. Cardinality(Found(keyword)) = 0
    BY <2>4, <2>5, <2>6, ListAssumption DEF Due, Least
  <2> QED
    BY <2>5, <2>7, FS_EmptySet
<1> QED
  BY <1>1, ListInvariant, PagesInvariant, PTL
=============================================================================
