----------------------------- MODULE PrivateDns -----------------------------
(***************************************************************************)
(* The private DNS manager (internal/privatedns/manager.go): a copy of the *)
(* system resolver configuration and a cache that belongs to one           *)
(* generation of the copy.  Every method holds the manager's mutex and is  *)
(* one step, except RefreshFrom, which reads its source before it takes    *)
(* the mutex.                                                              *)
(*                                                                         *)
(* Resolvers stand for the users of the manager outside this package: they *)
(* take a snapshot, query one of its upstreams and store the answer.       *)
(***************************************************************************)
EXTENDS Integers, FiniteSets

CONSTANTS
    Keys,               \* normalised cache keys
    Refreshers,         \* concurrent calls of RefreshFrom
    Resolvers,          \* concurrent queries
    TTLs,               \* positive times to live
    MaxVersion,         \* bound on changes of the system configuration
    MaxGeneration,      \* bound on refreshes
    MaxStores,          \* bound on stored answers
    MaxLookups,         \* bound on lookups
    MaxTime,            \* bound on the clock
    Failed,             \* what a source returns that could not be read
    None                \* nothing, no error

ASSUME BoundsAssumption ==
    /\ MaxVersion \in Nat /\ MaxGeneration \in Nat \ {0}
    /\ MaxStores \in Nat /\ MaxLookups \in Nat /\ MaxTime \in Nat
ASSUME TTLAssumption == TTLs \subseteq Nat \ {0}
ASSUME NoneAssumption == None \notin {"no upstreams", "source", Failed}

VARIABLES
    system,             \* the system's resolver configuration
    now,                \* the clock
    snapshot, generation, degraded, lastError, cache,       \* Manager
    stores, hits, misses, expired,                          \* Manager counters
    reading,            \* refresher -> what its source returned
    asking              \* resolver -> the query under way

counters == <<stores, hits, misses, expired>>
copy == <<snapshot, generation, degraded, lastError>>
vars == <<system, now, copy, cache, counters, reading, asking>>

Snapshots == [version : 0..MaxVersion, upstreams : BOOLEAN]
Records ==
    [expiresAt : Nat, generation : 1..MaxGeneration, asked : 1..MaxGeneration]
Queries == [key : Keys, asked : 1..MaxGeneration]
Errors == {None, "no upstreams", "source"}

EmptyCache == [k \in Keys |-> None]
Cached == {k \in Keys : cache[k] # None}

-----------------------------------------------------------------------------
(* The world outside the manager.                                          *)

NetworkChange ==
    /\ system.version < MaxVersion
    /\ \E upstreams \in BOOLEAN :
          system' = [version |-> system.version + 1, upstreams |-> upstreams]
    /\ UNCHANGED <<now, copy, cache, counters, reading, asking>>

Tick ==
    /\ now < MaxTime
    /\ now' = now + 1
    /\ UNCHANGED <<system, copy, cache, counters, reading, asking>>

\* A resolver takes a copy of the snapshot and queries an upstream of it.
Ask(q, k) ==
    /\ asking[q] = None /\ snapshot.upstreams
    /\ asking' = [asking EXCEPT ![q] = [key |-> k, asked |-> generation]]
    /\ UNCHANGED <<system, now, copy, cache, counters, reading>>

-----------------------------------------------------------------------------
(* Refreshing.                                                             *)

\* updateHealthLocked("").
UpdateHealth(next) ==
    /\ degraded' = ~next.upstreams
    /\ lastError' = IF next.upstreams THEN None ELSE "no upstreams"

\* RefreshFrom, before the lock: the source answers or fails.
ReadSnapshot(r) ==
    /\ reading[r] = None
    /\ reading' \in {[reading EXCEPT ![r] = outcome] : outcome \in {system, Failed}}
    /\ UNCHANGED <<system, now, copy, cache, counters, asking>>

\* Mutant: the cache of the old generation survives.
RefreshKeepingCache(r) ==
    /\ reading[r] \notin {None, Failed}
    /\ generation < MaxGeneration
    /\ snapshot' = reading[r]
    /\ generation' = generation + 1
    /\ UpdateHealth(reading[r])
    /\ reading' = [reading EXCEPT ![r] = None]
    /\ UNCHANGED <<system, now, cache, counters, asking>>

\* Mutant: a refresh does not clear an earlier error.
RefreshKeepingError(r) ==
    /\ reading[r] \notin {None, Failed}
    /\ generation < MaxGeneration
    /\ snapshot' = reading[r]
    /\ generation' = generation + 1
    /\ degraded' = (degraded \/ ~reading[r].upstreams)
    /\ lastError' = IF reading[r].upstreams THEN None ELSE "no upstreams"
    /\ cache' = EmptyCache
    /\ reading' = [reading EXCEPT ![r] = None]
    /\ UNCHANGED <<system, now, counters, asking>>

Refresh(r) ==
    /\ reading[r] \notin {None, Failed}
    /\ generation < MaxGeneration
    /\ snapshot' = reading[r]
    /\ generation' = generation + 1
    /\ cache' = EmptyCache
    /\ UpdateHealth(reading[r])
    /\ reading' = [reading EXCEPT ![r] = None]
    /\ UNCHANGED <<system, now, counters, asking>>

recordRefreshError(r) ==
    /\ reading[r] = Failed
    /\ degraded' = TRUE
    /\ lastError' = "source"
    /\ reading' = [reading EXCEPT ![r] = None]
    /\ UNCHANGED <<system, now, snapshot, generation, cache, counters, asking>>

-----------------------------------------------------------------------------
(* The cache.                                                              *)

Expired(k) == now >= cache[k].expiresAt
OutOfDate(k) == cache[k].generation # generation

\* Put stamps the answer with the generation at the time of the call.
Put(q, ttl) ==
    /\ asking[q] # None /\ stores < MaxStores
    /\ cache' = [cache EXCEPT ![asking[q].key] =
                    [expiresAt |-> now + ttl, generation |-> generation,
                     asked |-> asking[q].asked]]
    /\ stores' = stores + 1
    /\ asking' = [asking EXCEPT ![q] = None]
    /\ UNCHANGED <<system, now, copy, hits, misses, expired, reading>>

LookupHit(k) ==
    /\ cache[k] # None /\ ~OutOfDate(k) /\ ~Expired(k)
    /\ hits' = hits + 1
    /\ UNCHANGED <<cache, misses, expired>>

\* Nothing cached, or a key that does not normalise.
LookupMiss(k) ==
    /\ cache[k] # None => OutOfDate(k)
    /\ misses' = misses + 1
    /\ UNCHANGED <<cache, hits, expired>>

\* Mutant: an expired record is counted but stays.
LookupExpiredKept(k) ==
    /\ cache[k] # None /\ ~OutOfDate(k) /\ Expired(k)
    /\ expired' = expired + 1
    /\ misses' = misses + 1
    /\ UNCHANGED <<cache, hits>>

LookupExpired(k) ==
    /\ cache[k] # None /\ ~OutOfDate(k) /\ Expired(k)
    /\ cache' = [cache EXCEPT ![k] = None]
    /\ expired' = expired + 1
    /\ misses' = misses + 1
    /\ UNCHANGED hits

Lookup(k) ==
    /\ hits + misses < MaxLookups
    /\ LookupHit(k) \/ LookupMiss(k) \/ LookupExpired(k)
    /\ UNCHANGED <<system, now, copy, stores, reading, asking>>

PurgeExpired ==
    LET removed == {k \in Cached : OutOfDate(k) \/ Expired(k)} IN
    /\ cache' = [k \in Keys |-> IF k \in removed THEN None ELSE cache[k]]
    /\ expired' = expired + Cardinality(removed)
    /\ UNCHANGED <<system, now, copy, stores, hits, misses, reading, asking>>

ClearCache ==
    /\ cache' = EmptyCache
    /\ UNCHANGED <<system, now, copy, counters, reading, asking>>

-----------------------------------------------------------------------------

\* NewManager.
Init ==
    /\ system \in [version : {0}, upstreams : BOOLEAN]
    /\ now = 0
    /\ snapshot = system /\ generation = 1
    /\ degraded = ~system.upstreams
    /\ lastError = IF system.upstreams THEN None ELSE "no upstreams"
    /\ cache = EmptyCache
    /\ stores = 0 /\ hits = 0 /\ misses = 0 /\ expired = 0
    /\ reading = [r \in Refreshers |-> None]
    /\ asking = [q \in Resolvers |-> None]

Next ==
    \/ NetworkChange
    \/ Tick
    \/ \E r \in Refreshers : ReadSnapshot(r) \/ Refresh(r) \/ recordRefreshError(r)
    \/ \E q \in Resolvers, k \in Keys : Ask(q, k)
    \/ \E q \in Resolvers, ttl \in TTLs : Put(q, ttl)
    \/ \E k \in Keys : Lookup(k)
    \/ PurgeExpired
    \/ ClearCache

Spec == Init /\ [][Next]_vars

-----------------------------------------------------------------------------
(* Properties.                                                             *)

TypeOK ==
    /\ system \in Snapshots /\ snapshot \in Snapshots
    /\ now \in 0..MaxTime
    /\ generation \in 1..MaxGeneration
    /\ degraded \in BOOLEAN /\ lastError \in Errors
    /\ cache \in [Keys -> Records \cup {None}]
    /\ stores \in 0..MaxStores
    /\ hits \in Nat /\ misses \in Nat /\ hits + misses <= MaxLookups
    /\ expired \in 0..MaxStores
    /\ reading \in [Refreshers -> Snapshots \cup {None, Failed}]
    /\ asking \in [Resolvers -> Queries \cup {None}]

\* Refresh "drops private cache entries from the old generation": whatever
\* refreshes and stores interleave, no record of an older generation is left,
\* so Lookup and PurgeExpired never meet one.  (And every variable has its
\* type.)
RecordsCurrent ==
    /\ TypeOK
    /\ \A k \in Cached : cache[k].generation = generation

\* The counters add up: a stored record expires at most once, by Lookup or by
\* PurgeExpired, and never after it was overwritten, cleared or refreshed away.
ExpiredOnce == Cardinality(Cached) + expired <= stores

\* Status never contradicts itself: DEGRADED always has a reason and a reason
\* always means DEGRADED, and a manager in good health has an upstream to ask,
\* after any order of successful and failed refreshes.
HealthConsistent ==
    /\ degraded <=> lastError # None
    /\ ~degraded => snapshot.upstreams

\* "Late responses of an old generation must not be written into the cache of
\* a new generation" (design document, 13.2): a record carries the generation
\* under which its query was asked.
LateAnswersStayOut == \A k \in Cached : cache[k].asked = cache[k].generation
=============================================================================
