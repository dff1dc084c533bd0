-------------------------- MODULE CacheAsideProofs --------------------------
(* How stale the cache gets, for every TTL, number of keys and of readers. *)
EXTENDS CacheAside, TLAPS

\* The last moment a value was the row's is never counted past Cap.
LEMMA CapNat == TTL \in Nat /\ MaxLag \in Nat /\ Cap \in Nat /\ Cap >= TTL + MaxLag + 1
  BY CacheAssumption DEF Cap

\* The initial state is one of the invariant's.
LEMMA InductiveInit == CacheInit => CacheInductive
<1> SUFFICES ASSUME CacheInit PROVE CacheInductive
  OBVIOUS
<1>1. CacheTypeOK
  BY CapNat, CacheAssumption DEF CacheInit, CacheTypeOK, Value
<1>2. AgeAccountsForStaleness /\ RowIsCurrent
  BY CapNat DEF CacheInit, AgeAccountsForStaleness, RowIsCurrent, Value
<1>3. QED
  BY <1>1, <1>2 DEF CacheInductive

\* A write makes its value current and leaves the history of the others.
LEMMA StoreKeeps ==
  ASSUME CacheInductive, NEW ks \in SUBSET Keys, NEW v \in Value, Store(ks, v)
  PROVE  /\ row' \in [Keys -> Value]
         /\ gone' \in [Keys -> [Value -> 0..Cap]]
         /\ RowIsCurrent'
         /\ \A k \in Keys, u \in Value : gone'[k][u] <= gone[k][u]
<1>1. /\ row \in [Keys -> Value]
      /\ gone \in [Keys -> [Value -> 0..Cap]]
      /\ RowIsCurrent
  BY DEF CacheInductive, CacheTypeOK
<1>2. \A k \in Keys, u \in Value :
        gone'[k][u] = IF k \in ks /\ u = v THEN 0 ELSE gone[k][u]
  BY DEF Store
<1>3. row' \in [Keys -> Value] /\ gone' \in [Keys -> [Value -> 0..Cap]]
  BY <1>1, CapNat DEF Store
<1>4. RowIsCurrent'
  BY <1>1, <1>2 DEF Store, RowIsCurrent
<1>5. \A k \in Keys, u \in Value : gone'[k][u] <= gone[k][u]
  BY <1>1, <1>2, CapNat
<1>6. QED
  BY <1>3, <1>4, <1>5

\* A DEL keeps the types, and what is left in the cache was there.
LEMMA DelKeeps ==
  ASSUME CacheTypeOK, NEW k \in Keys, Del(k)
  PROVE  /\ cached' \in [Keys -> Value]
         /\ left' \in [Keys -> 0..TTL]
         /\ \A j \in Keys : cached'[j] # None => cached'[j] = cached[j] /\ left'[j] = left[j]
<1>1. /\ cached \in [Keys -> Value] /\ left \in [Keys -> 0..TTL]
      /\ None \in Value /\ 0 \in 0..TTL
  BY CapNat DEF CacheTypeOK, Value
<1>2. CASE UNCHANGED redisVars
  BY <1>1, <1>2 DEF redisVars
<1>3. CASE cached' = [cached EXCEPT ![k] = None] /\ left' = [left EXCEPT ![k] = 0]
  BY <1>1, <1>3
<1>4. QED
  BY <1>2, <1>3 DEF Del

\* Every step keeps the types.
LEMMA TypeStep == CacheInductive /\ [CacheNext]_cacheVars => CacheTypeOK'
<1> SUFFICES ASSUME CacheInductive, [CacheNext]_cacheVars PROVE CacheTypeOK'
  OBVIOUS
<1> USE DEF dbVars, redisVars, writerVars, readerVars
<1>0. CacheTypeOK
  BY DEF CacheInductive
<1>1. ASSUME NEW r \in Readers, NEW k \in Keys, Ask(r, k) PROVE CacheTypeOK'
  BY <1>0, <1>1 DEF CacheTypeOK, Ask, LookUp
<1>2. ASSUME NEW r \in Readers, Lookup(r) PROVE CacheTypeOK'
  <2>1. CASE GetHit(r)
    BY <1>0, <2>1 DEF CacheTypeOK, GetHit, Touch
  <2>2. CASE GetMiss(r) \/ GetError(r) \/ FetchError(r)
    BY <1>0, <2>2 DEF CacheTypeOK, GetMiss, GetError, FetchError, Goes, AfterRedisError
  <2>3. CASE Fetch(r)
    BY <1>0, <2>3, CapNat DEF CacheTypeOK, Fetch
  <2>4. CASE Set(r)
    <3>1. key[r] \in Keys /\ found[r] \in Value /\ TTL \in 0..TTL
      BY <1>0, CapNat DEF CacheTypeOK
    <3>2. cached' \in [Keys -> Value] /\ left' \in [Keys -> 0..TTL]
      BY <1>0, <2>4, <3>1 DEF CacheTypeOK, Set, Stored
    <3>3. QED
      BY <1>0, <2>4, <3>2 DEF CacheTypeOK, Set, Stored, Goes
  <2>5. QED
    BY <1>2, <2>1, <2>2, <2>3, <2>4 DEF Lookup
<1>3. ASSUME Writer PROVE CacheTypeOK'
  <2>1. ASSUME NEW ks \in SUBSET Keys, NEW v \in Value, Store(ks, v), Mark(ks),
               UNCHANGED <<redisVars, signing, readerVars>>
        PROVE  CacheTypeOK'
    <3>1. drops' \in [Keys -> 0..MaxDrops]
      BY <1>0, <2>1, CacheAssumption DEF CacheTypeOK, Mark
    <3>2. QED
      BY <1>0, <2>1, <3>1, StoreKeeps DEF CacheTypeOK
  <2>2. ASSUME NEW k \in Keys, NEW v \in Value, Write(k, v) PROVE CacheTypeOK'
    BY <2>1, <2>2 DEF Write
  <2>3. ASSUME NEW ks \in SUBSET SessionKeys, DeleteExpired(ks) PROVE CacheTypeOK'
    BY <2>1, <2>3, CacheAssumption DEF DeleteExpired, Value
  <2>4. ASSUME NEW k \in Keys, Drop(k) PROVE CacheTypeOK'
    BY <1>0, <2>4, DelKeeps, CacheAssumption DEF CacheTypeOK, Drop
  <2>5. ASSUME NEW k \in Keys, SignOutHook(k) PROVE CacheTypeOK'
    BY <1>0, <2>5, DelKeeps DEF CacheTypeOK, SignOutHook
  <2>6. ASSUME NEW k \in Keys, SignOut(k) PROVE CacheTypeOK'
    BY <1>0, <2>6, StoreKeeps DEF CacheTypeOK, SignOut, Value
  <2>7. QED
    BY <1>3, <2>2, <2>3, <2>4, <2>5, <2>6 DEF Writer
<1>4. CASE Tick
  <2>1. left' \in [Keys -> 0..TTL] /\ cached' \in [Keys -> Value]
    BY <1>0, <1>4, CapNat DEF CacheTypeOK, Tick, Value
  <2>2. lag' \in [Readers -> 0..MaxLag]
    BY <1>0, <1>4, CapNat DEF CacheTypeOK, Tick
  <2>3. gone' \in [Keys -> [Value -> 0..Cap]]
    BY <1>0, <1>4, CapNat DEF CacheTypeOK, Tick
  <2>4. QED
    BY <1>0, <1>4, <2>1, <2>2, <2>3 DEF CacheTypeOK, Tick
<1>5. CASE UNCHANGED cacheVars
  BY <1>0, <1>5 DEF CacheTypeOK, cacheVars
<1>6. QED
  BY <1>1, <1>2, <1>3, <1>4, <1>5 DEF CacheNext

\* Writes age nothing: what held of entries and readers still does.
LEMMA AgesSurviveWrites ==
  ASSUME CacheInductive, CacheTypeOK',
         NEW ks \in SUBSET Keys, NEW v \in Value, Store(ks, v),
         UNCHANGED <<redisVars, readerVars>>
  PROVE  AgeAccountsForStaleness' /\ RowIsCurrent'
<1>1. CacheTypeOK /\ AgeAccountsForStaleness
  BY DEF CacheInductive
<1>2. /\ \A k \in Keys, u \in Value : gone'[k][u] <= gone[k][u]
      /\ \A k \in Keys, u \in Value : gone[k][u] \in 0..Cap /\ gone'[k][u] \in 0..Cap
      /\ RowIsCurrent'
  BY <1>1, StoreKeeps DEF CacheTypeOK
<1>3. ASSUME NEW k \in Keys, cached'[k] # None
      PROVE  left'[k] > 0 /\ gone'[k][cached'[k]] <= (TTL - left'[k]) + MaxLag
  <2>1. /\ cached[k] \in Value /\ left[k] \in 0..TTL
        /\ left[k] > 0 /\ gone[k][cached[k]] <= (TTL - left[k]) + MaxLag
    BY <1>1, <1>3 DEF CacheTypeOK, AgeAccountsForStaleness, redisVars
  <2>2. QED
    BY <1>2, <2>1, CapNat DEF redisVars
<1>4. ASSUME NEW r \in Readers, at'[r] = "set"
      PROVE  found'[r] # None /\ gone'[key'[r]][found'[r]] <= lag'[r]
  <2>1. /\ key[r] \in Keys /\ found[r] \in Value /\ lag[r] \in 0..MaxLag
        /\ found[r] # None /\ gone[key[r]][found[r]] <= lag[r]
    BY <1>1, <1>4 DEF CacheTypeOK, AgeAccountsForStaleness, readerVars
  <2>2. QED
    BY <1>2, <2>1, CapNat DEF readerVars
<1>5. QED
  BY <1>2, <1>3, <1>4 DEF AgeAccountsForStaleness

\* Every step keeps the account of ages.
LEMMA AgesStep ==
  CacheInductive /\ [CacheNext]_cacheVars => AgeAccountsForStaleness' /\ RowIsCurrent'
<1> SUFFICES ASSUME CacheInductive, [CacheNext]_cacheVars
             PROVE  AgeAccountsForStaleness' /\ RowIsCurrent'
  OBVIOUS
<1> USE DEF dbVars, redisVars, writerVars, readerVars
<1>0. CacheTypeOK /\ AgeAccountsForStaleness /\ RowIsCurrent /\ CacheTypeOK'
  BY TypeStep DEF CacheInductive
<1>1. ASSUME NEW r \in Readers, NEW k \in Keys, Ask(r, k)
      PROVE  AgeAccountsForStaleness' /\ RowIsCurrent'
  BY <1>0, <1>1 DEF Ask, LookUp, CacheTypeOK, AgeAccountsForStaleness, RowIsCurrent
<1>2. ASSUME NEW r \in Readers, Lookup(r)
      PROVE  AgeAccountsForStaleness' /\ RowIsCurrent'
  <2>1. RowIsCurrent'
    BY <1>0, <1>2 DEF Lookup, GetHit, GetMiss, GetError, Fetch, FetchError, Set, Stored,
                      RowIsCurrent
  <2>2. CASE GetHit(r)
    BY <1>0, <2>1, <2>2 DEF GetHit, Touch, CacheTypeOK, AgeAccountsForStaleness
  <2>3. CASE GetMiss(r) \/ GetError(r) \/ FetchError(r)
    BY <1>0, <2>1, <2>3
    DEF GetMiss, GetError, FetchError, Goes, AfterRedisError, CacheTypeOK,
        AgeAccountsForStaleness
  <2>4. CASE Fetch(r)
    <3>1. key[r] \in Keys /\ gone[key[r]][row[key[r]]] = 0
      BY <1>0 DEF CacheTypeOK, RowIsCurrent
    <3>2. QED
      BY <1>0, <2>1, <2>4, <3>1 DEF Fetch, CacheTypeOK, AgeAccountsForStaleness
  <2>5. CASE Set(r)
    <3>1. /\ key[r] \in Keys /\ found[r] \in Value /\ lag[r] \in 0..MaxLag
          /\ found[r] # None /\ gone[key[r]][found[r]] <= lag[r]
          /\ gone[key[r]][found[r]] \in 0..Cap
      BY <1>0, <2>5 DEF Set, Stored, CacheTypeOK, AgeAccountsForStaleness
    <3>2. \A k \in Keys : cached'[k] # None =>
            left'[k] > 0 /\ gone'[k][cached'[k]] <= (TTL - left'[k]) + MaxLag
      <4>1. CASE UNCHANGED redisVars
        BY <1>0, <2>5, <4>1 DEF Set, Stored, AgeAccountsForStaleness
      <4>2. CASE /\ cached' = [cached EXCEPT ![key[r]] = found[r]]
                 /\ left' = [left EXCEPT ![key[r]] = TTL]
        <5>1. /\ cached'[key[r]] = found[r] /\ left'[key[r]] = TTL
              /\ \A k \in Keys \ {key[r]} : cached'[k] = cached[k] /\ left'[k] = left[k]
              /\ gone' = gone
          BY <1>0, <2>5, <3>1, <4>2 DEF Set, Stored, CacheTypeOK
        <5>2. TTL > 0 /\ gone[key[r]][found[r]] <= (TTL - TTL) + MaxLag
          BY <3>1, CacheAssumption, CapNat
        <5>3. QED
          BY <1>0, <5>1, <5>2 DEF AgeAccountsForStaleness
      <4>3. QED
        BY <2>5, <4>1, <4>2 DEF Set, Stored
    <3>3. \A s \in Readers : at'[s] = "set" =>
            found'[s] # None /\ gone'[key'[s]][found'[s]] <= lag'[s]
      BY <1>0, <2>5 DEF Set, Stored, Goes, CacheTypeOK, AgeAccountsForStaleness
    <3>4. QED
      BY <2>1, <3>2, <3>3 DEF AgeAccountsForStaleness
  <2>6. QED
    BY <1>2, <2>2, <2>3, <2>4, <2>5 DEF Lookup
<1>3. ASSUME Writer PROVE AgeAccountsForStaleness' /\ RowIsCurrent'
  <2>1. ASSUME NEW k \in Keys, NEW v \in Value, Write(k, v)
        PROVE  AgeAccountsForStaleness' /\ RowIsCurrent'
    BY <1>0, <2>1, AgesSurviveWrites DEF Write
  <2>2. ASSUME NEW ks \in SUBSET SessionKeys, DeleteExpired(ks)
        PROVE  AgeAccountsForStaleness' /\ RowIsCurrent'
    BY <1>0, <2>2, AgesSurviveWrites, CacheAssumption DEF DeleteExpired, Value
  <2>3. ASSUME NEW k \in Keys, SignOut(k)
        PROVE  AgeAccountsForStaleness' /\ RowIsCurrent'
    BY <1>0, <2>3, AgesSurviveWrites DEF SignOut, Value
  <2>4. ASSUME NEW k \in Keys, Drop(k) \/ SignOutHook(k)
        PROVE  AgeAccountsForStaleness' /\ RowIsCurrent'
    <3>1. /\ \A j \in Keys : cached'[j] # None =>
               cached'[j] = cached[j] /\ left'[j] = left[j]
          /\ UNCHANGED <<dbVars, readerVars>>
      BY <1>0, <2>4, DelKeeps DEF Drop, SignOutHook
    <3>2. QED
      BY <1>0, <3>1 DEF AgeAccountsForStaleness, RowIsCurrent
  <2>5. QED
    BY <1>3, <2>1, <2>2, <2>3, <2>4 DEF Writer
<1>4. CASE Tick
  <2>1. RowIsCurrent'
    BY <1>0, <1>4 DEF Tick, CacheTypeOK, RowIsCurrent
  <2>2. \A k \in Keys, v \in Value :
          gone'[k][v] <= gone[k][v] + 1 /\ gone[k][v] \in 0..Cap /\ gone'[k][v] \in 0..Cap
    BY <1>0, <1>4, CapNat DEF Tick, CacheTypeOK
  <2>3. ASSUME NEW k \in Keys, cached'[k] # None
        PROVE  left'[k] > 0 /\ gone'[k][cached'[k]] <= (TTL - left'[k]) + MaxLag
    <3>1. left[k] # 1 /\ cached'[k] = cached[k] /\ cached[k] \in Value
      BY <1>0, <1>4, <2>3 DEF Tick, CacheTypeOK
    <3>2. /\ left[k] \in 0..TTL /\ left[k] > 0
          /\ gone[k][cached[k]] <= (TTL - left[k]) + MaxLag
      BY <1>0, <2>3, <3>1 DEF CacheTypeOK, AgeAccountsForStaleness
    <3>3. left'[k] = left[k] - 1
      BY <1>4, <3>2, CapNat DEF Tick
    <3>4. gone'[k][cached[k]] <= gone[k][cached[k]] + 1
          /\ gone[k][cached[k]] \in 0..Cap /\ gone'[k][cached[k]] \in 0..Cap
      BY <2>2, <3>1
    <3>5. QED
      BY <3>1, <3>2, <3>3, <3>4, CapNat
  <2>4. ASSUME NEW r \in Readers, at'[r] = "set"
        PROVE  found'[r] # None /\ gone'[key'[r]][found'[r]] <= lag'[r]
    <3>1. /\ at[r] = "set" /\ key'[r] = key[r] /\ found'[r] = found[r]
          /\ lag'[r] = lag[r] + 1
      BY <1>4, <2>4 DEF Tick
    <3>2. /\ key[r] \in Keys /\ found[r] \in Value /\ lag[r] \in 0..MaxLag
          /\ found[r] # None /\ gone[key[r]][found[r]] <= lag[r]
      BY <1>0, <3>1 DEF CacheTypeOK, AgeAccountsForStaleness
    <3>3. QED
      BY <2>2, <3>1, <3>2, CapNat
  <2>5. QED
    BY <2>1, <2>3, <2>4 DEF AgeAccountsForStaleness
<1>5. CASE UNCHANGED cacheVars
  BY <1>0, <1>5 DEF AgeAccountsForStaleness, RowIsCurrent, cacheVars
<1>6. QED
  BY <1>1, <1>2, <1>3, <1>4, <1>5 DEF CacheNext

\* Whatever Redis loses and whoever races, the cache keeps its invariant.
THEOREM CacheInductiveHolds == CacheSpec => []CacheInductive
<1>1. CacheInductive /\ [CacheNext]_cacheVars => CacheInductive'
  BY TypeStep, AgesStep DEF CacheInductive
<1>2. QED
  BY InductiveInit, <1>1, PTL DEF CacheSpec

\* Every variable of the cache keeps to its type.
THEOREM CacheTypeCorrect == CacheSpec => []CacheTypeOK
<1>1. CacheInductive => CacheTypeOK
  BY DEF CacheInductive
<1>2. QED
  BY <1>1, CacheInductiveHolds, PTL

\* No entry outlives the row it was read from by more than the TTL and the time
\* a reader takes to store it: not after a lost DEL, a fill that overtakes the
\* DEL, or a sign-out whose hook runs before its delete.
THEOREM StalenessBounded == CacheSpec => []StaleAtMostTTL
<1>1. CacheInductive => StaleAtMostTTL
  <2> SUFFICES ASSUME CacheInductive, NEW k \in Keys, cached[k] # None
               PROVE  gone[k][cached[k]] < TTL + MaxLag
    BY DEF StaleAtMostTTL
  <2>1. /\ cached[k] \in Value /\ left[k] \in 0..TTL
        /\ gone[k][cached[k]] \in 0..Cap
    BY DEF CacheInductive, CacheTypeOK
  <2>2. left[k] > 0 /\ gone[k][cached[k]] <= (TTL - left[k]) + MaxLag
    BY DEF CacheInductive, AgeAccountsForStaleness
  <2>3. QED
    BY <2>1, <2>2, CapNat
<1>2. QED
  BY <1>1, CacheInductiveHolds, PTL
=============================================================================
