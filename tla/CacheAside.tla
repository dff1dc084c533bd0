----------------------------- MODULE CacheAside -----------------------------
(***************************************************************************)
(* The Redis cache in front of the session and the member tables: reads    *)
(* through cacheAside, writes that drop the keys they made stale, and the  *)
(* hooks by which Better Auth's own session writes drop theirs.            *)
(*                                                                         *)
(* A key stands for the query its fetcher runs: row[k] is what that query  *)
(* finds now.  No code path changes a session's token, a member's user or  *)
(* its organization, so a row keeps its key.                               *)
(***************************************************************************)
EXTENDS Integers, FiniteSets

CONSTANTS
  Keys,         \* cache keys, one per query that is cached
  SessionKeys,  \* those of CacheKey.session; the others are CacheKey.member
  Entries,      \* the rows a key may find
  None,         \* no row, no entry
  Readers,      \* requests that look something up
  TTL,          \* DEFAULT_TTL.SESSION = DEFAULT_TTL.MEMBER
  MaxLag,       \* the longest a reader takes from its query to its SET
  MaxDrops,     \* writers between their statement and their DEL, per key
  RedisFails,   \* TRUE: any Redis command may fail
  DbFails       \* TRUE: a reader's query may fail

ASSUME CacheAssumption ==
  /\ SessionKeys \subseteq Keys
  /\ None \notin Entries
  /\ TTL \in Nat \ {0}
  /\ MaxLag \in Nat
  /\ MaxDrops \in Nat
  /\ RedisFails \in BOOLEAN
  /\ DbFails \in BOOLEAN

VARIABLES
  row,      \* the database
  gone,     \* how long ago a key last had a value, for the properties only
  cached,   \* the entries in Redis
  left,     \* what is left of an entry's TTL
  drops,    \* the writers that have yet to drop a key
  signing,  \* sessions whose delete.before hook ran and whose row is still there
  at,       \* the await a reader is at
  key,      \* the key it looks up
  found,    \* the value it holds
  lag       \* time since its query ran

dbVars     == <<row, gone>>
redisVars  == <<cached, left>>
writerVars == <<drops, signing>>
readerVars == <<at, key, found, lag>>
cacheVars  == <<dbVars, redisVars, writerVars, readerVars>>

Value == Entries \cup {None}

\* Longer ago than any property asks about.
Cap == TTL + 2 * MaxLag + 1

-----------------------------------------------------------------------------
(* cacheAside: GET, on a miss the query, then SET. *)

LookUp(r, k) ==
  /\ at' = [at EXCEPT ![r] = "get"]
  /\ key' = [key EXCEPT ![r] = k]
  /\ UNCHANGED <<found, lag>>

Goes(r, await) == at' = [at EXCEPT ![r] = await] /\ UNCHANGED <<key, found, lag>>

\* A hit leaves the entry as it is.
Touch(k) == UNCHANGED redisVars

GetHit(r) ==
  LET k == key[r] IN
  /\ at[r] = "get"
  /\ cached[k] # None
  /\ found' = [found EXCEPT ![r] = cached[k]]
  /\ at' = [at EXCEPT ![r] = "done"]
  /\ Touch(k)
  /\ UNCHANGED <<dbVars, writerVars, key, lag>>

GetMiss(r) ==
  /\ at[r] = "get"
  /\ cached[key[r]] = None
  /\ Goes(r, "fetch")
  /\ UNCHANGED <<dbVars, redisVars, writerVars>>

\* Slip: an error of Redis is thrown at the caller, as one of the database is.
AfterRedisErrorThrown == "idle"

\* cacheGet answers null to a failure as to a miss.
AfterRedisError == "fetch"

GetError(r) ==
  /\ at[r] = "get"
  /\ RedisFails
  /\ Goes(r, AfterRedisError)
  /\ UNCHANGED <<dbVars, redisVars, writerVars>>

\* The fetcher's query.  An empty result is answered and not stored.
Fetch(r) ==
  LET v == row[key[r]] IN
  /\ at[r] = "fetch"
  /\ found' = [found EXCEPT ![r] = v]
  /\ lag' = [lag EXCEPT ![r] = 0]
  /\ at' = [at EXCEPT ![r] = IF v = None THEN "done" ELSE "set"]
  /\ UNCHANGED <<dbVars, redisVars, writerVars, key>>

\* The query throws, and cacheAside with it: the route answers 500.
FetchError(r) ==
  /\ at[r] = "fetch"
  /\ DbFails
  /\ Goes(r, "idle")
  /\ UNCHANGED <<dbVars, redisVars, writerVars>>

\* Slip: a SET without EX.
StoredForever(k, v) ==
  cached' = [cached EXCEPT ![k] = v] /\ left' = [left EXCEPT ![k] = 0]

\* SET key value EX ttl
Stored(k, v) ==
  cached' = [cached EXCEPT ![k] = v] /\ left' = [left EXCEPT ![k] = TTL]

\* A failure is logged.
Set(r) ==
  /\ at[r] = "set"
  /\ Stored(key[r], found[r]) \/ (UNCHANGED redisVars /\ RedisFails)
  /\ Goes(r, "done")
  /\ UNCHANGED <<dbVars, writerVars>>

-----------------------------------------------------------------------------
(* Writers. *)

\* The rows of ks become v; from now on the values they had are past ones.
Store(ks, v) ==
  /\ row' = [k \in Keys |-> IF k \in ks THEN v ELSE row[k]]
  /\ gone' = [k \in Keys |-> [u \in Value |->
                IF k \in ks /\ u = v THEN 0 ELSE gone[k][u]]]

\* cacheDel: DEL of the key, a failure is logged.
Del(k) ==
  \/ cached' = [cached EXCEPT ![k] = None] /\ left' = [left EXCEPT ![k] = 0]
  \/ UNCHANGED redisVars /\ RedisFails

\* The keys a writer drops once its statement has returned.
Mark(ks) ==
  /\ \A k \in ks : drops[k] < MaxDrops
  /\ drops' = [k \in Keys |-> IF k \in ks THEN drops[k] + 1 ELSE drops[k]]

\* One statement that changes rows and returns them: the member repository's
\* create, update and softDelete, the session repository's update and delete,
\* Better Auth's insert and update of a session.  The DEL comes later.
Write(k, v) ==
  /\ Store({k}, v)
  /\ Mark({k})
  /\ UNCHANGED <<redisVars, signing, readerVars>>

\* deleteExpired: one DELETE, then a DEL for every row it returned.
DeleteExpired(ks) ==
  /\ ks \subseteq {k \in SessionKeys : row[k] # None}
  /\ Store(ks, None)
  /\ Mark(ks)
  /\ UNCHANGED <<redisVars, signing, readerVars>>

\* The DEL of some writer.
Drop(k) ==
  /\ drops[k] > 0
  /\ drops' = [drops EXCEPT ![k] = @ - 1]
  /\ Del(k)
  /\ UNCHANGED <<dbVars, signing, readerVars>>

\* Better Auth deletes a session: its delete.before hook, then the row.
SignOutHook(k) ==
  /\ k \in SessionKeys \ signing
  /\ row[k] # None
  /\ signing' = signing \cup {k}
  /\ Del(k)
  /\ UNCHANGED <<dbVars, drops, readerVars>>

SignOut(k) ==
  /\ k \in signing
  /\ signing' = signing \ {k}
  /\ Store({k}, None)
  /\ UNCHANGED <<redisVars, drops, readerVars>>

-----------------------------------------------------------------------------
(* Time. *)

Tick ==
  /\ \A r \in Readers : at[r] = "set" => lag[r] < MaxLag
  /\ left' = [k \in Keys |-> IF left[k] > 0 THEN left[k] - 1 ELSE 0]
  /\ cached' = [k \in Keys |-> IF left[k] = 1 THEN None ELSE cached[k]]
  /\ lag' = [r \in Readers |-> IF at[r] = "set" THEN lag[r] + 1 ELSE lag[r]]
  /\ gone' = [k \in Keys |-> [v \in Value |->
                IF v = row[k] THEN 0
                ELSE IF gone[k][v] < Cap THEN gone[k][v] + 1 ELSE Cap]]
  /\ UNCHANGED <<row, writerVars, at, key, found>>

-----------------------------------------------------------------------------
(* The cache with requests that do nothing but look up. *)

CacheInit ==
  /\ row \in [Keys -> Value]
  /\ gone = [k \in Keys |-> [v \in Value |-> IF v = row[k] THEN 0 ELSE Cap]]
  /\ cached = [k \in Keys |-> None]
  /\ left = [k \in Keys |-> 0]
  /\ drops = [k \in Keys |-> 0]
  /\ signing = {}
  /\ at = [r \in Readers |-> "idle"]
  /\ key \in [Readers -> Keys]
  /\ found = [r \in Readers |-> None]
  /\ lag = [r \in Readers |-> 0]

\* The lookup goes on until it has an answer.
Lookup(r) ==
  \/ GetHit(r) \/ GetMiss(r) \/ GetError(r)
  \/ Fetch(r) \/ FetchError(r) \/ Set(r)

Ask(r, k) ==
  /\ at[r] \in {"idle", "done"}
  /\ LookUp(r, k)
  /\ UNCHANGED <<dbVars, redisVars, writerVars>>

Writer ==
  \/ \E k \in Keys, v \in Value : Write(k, v)
  \/ \E ks \in SUBSET SessionKeys : DeleteExpired(ks)
  \/ \E k \in Keys : Drop(k) \/ SignOutHook(k) \/ SignOut(k)

CacheNext ==
  \/ \E r \in Readers : (\E k \in Keys : Ask(r, k)) \/ Lookup(r)
  \/ Writer
  \/ Tick

CacheSpec == CacheInit /\ [][CacheNext]_cacheVars

-----------------------------------------------------------------------------
(* Correctness. *)

\* Every variable holds a value the code can give it.
CacheTypeOK ==
  /\ row \in [Keys -> Value]
  /\ gone \in [Keys -> [Value -> 0..Cap]]
  /\ cached \in [Keys -> Value]
  /\ left \in [Keys -> 0..TTL]
  /\ drops \in [Keys -> 0..MaxDrops]
  /\ signing \subseteq SessionKeys
  /\ at \in [Readers -> {"idle", "get", "fetch", "set", "done"}]
  /\ key \in [Readers -> Keys]
  /\ found \in [Readers -> Value]
  /\ lag \in [Readers -> 0..MaxLag]

\* A lost DEL, a fill that overtakes it, a sign-out that drops too early: each
\* leaves a stale entry, and none leaves it longer than the TTL and the time a
\* reader takes to store what it read.
StaleAtMostTTL ==
  \A k \in Keys : cached[k] # None => gone[k][cached[k]] < TTL + MaxLag

\* "Without these hooks, sign-in, session refresh and sign-out would leave a
\* stale session in the cache" (auth/config.ts): with them, none is left once
\* the row is gone and every DEL was sent.
SignOutLeavesNothing ==
  \A k \in SessionKeys :
    row[k] = None /\ drops[k] = 0 => cached[k] = None

-----------------------------------------------------------------------------
(* Why the bound holds. *)

\* An entry's age and a reader's lag account for all the time since the value
\* they hold was the row's.
AgeAccountsForStaleness ==
  /\ \A k \in Keys : cached[k] # None =>
       left[k] > 0 /\ gone[k][cached[k]] <= (TTL - left[k]) + MaxLag
  /\ \A r \in Readers : at[r] = "set" =>
       found[r] # None /\ gone[key[r]][found[r]] <= lag[r]

\* The database's own value is never a past one.
RowIsCurrent == \A k \in Keys : gone[k][row[k]] = 0

CacheInductive == CacheTypeOK /\ AgeAccountsForStaleness /\ RowIsCurrent
=============================================================================
