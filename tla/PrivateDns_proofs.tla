------------------------- MODULE PrivateDns_proofs --------------------------
(***************************************************************************)
(* Proofs about PrivateDns, for every set of cache keys (infinite ones     *)
(* included), every number of refreshers and resolvers, and every bound.   *)
(*                                                                         *)
(* The invariant adds to the properties only that the cache holds finitely *)
(* many records: with it every step that removes records from the cache    *)
(* can be charged for what it adds to the expiry counter.  The type        *)
(* invariant is not inductive by itself: that "expired" stays within       *)
(* MaxStores is a consequence of the accounting.                           *)
(***************************************************************************)
EXTENDS PrivateDns, FiniteSetTheorems, TLAPS

\* Every variable has its type; of the expiry counter only that it counts.
Types ==
    /\ system \in Snapshots /\ snapshot \in Snapshots
    /\ now \in 0..MaxTime
    /\ generation \in 1..MaxGeneration
    /\ degraded \in BOOLEAN /\ lastError \in Errors
    /\ cache \in [Keys -> Records \cup {None}]
    /\ stores \in 0..MaxStores
    /\ hits \in Nat /\ misses \in Nat /\ hits + misses <= MaxLookups
    /\ expired \in Nat
    /\ reading \in [Refreshers -> Snapshots \cup {None, Failed}]
    /\ asking \in [Resolvers -> Queries \cup {None}]

Current == \A k \in Cached : cache[k].generation = generation

Accounts == IsFiniteSet(Cached) /\ ExpiredOnce

Inv == Types /\ Current /\ HealthConsistent /\ Accounts

-----------------------------------------------------------------------------
(* Types.                                                                  *)

\* A cached record is a record.
LEMMA CachedRecord ==
    ASSUME Types, NEW k \in Keys, cache[k] # None
    PROVE  cache[k] \in Records
  BY DEF Types

\* A snapshot that was read is a snapshot.
LEMMA SnapshotRead ==
    ASSUME Types, NEW r \in Refreshers, reading[r] \notin {None, Failed}
    PROVE  reading[r] \in Snapshots /\ reading[r].upstreams \in BOOLEAN
  BY DEF Types, Snapshots

\* Clearing the cache leaves nothing cached.
LEMMA CacheEmptied ==
    ASSUME cache' = EmptyCache
    PROVE  Cached' = {}
  BY DEF Cached, EmptyCache

\* Every step keeps the types of the variables.
LEMMA TypesStep ==
    ASSUME Types, Accounts, [Next]_vars
    PROVE  Types'
  <1> USE BoundsAssumption
  <1>1. CASE NetworkChange
    BY <1>1 DEF NetworkChange, Types, Snapshots, copy, counters
  <1>2. CASE Tick
    BY <1>2 DEF Tick, Types, copy, counters
  <1>3. ASSUME NEW r \in Refreshers, ReadSnapshot(r) PROVE Types'
    <2>1. PICK outcome \in {system, Failed} :
            reading' = [reading EXCEPT ![r] = outcome]
      BY <1>3 DEF ReadSnapshot
    <2>2. outcome \in Snapshots \cup {None, Failed}
      BY DEF Types
    <2> QED
      BY <1>3, <2>1, <2>2 DEF ReadSnapshot, Types, copy, counters
  <1>4. ASSUME NEW r \in Refreshers, Refresh(r) PROVE Types'
    <2>1. reading[r] \in Snapshots /\ reading[r].upstreams \in BOOLEAN
      BY <1>4, SnapshotRead DEF Refresh
    <2>2. degraded' \in BOOLEAN /\ lastError' \in Errors
      BY <1>4, <2>1 DEF Refresh, UpdateHealth, Errors
    <2>3. cache' \in [Keys -> Records \cup {None}]
      BY <1>4 DEF Refresh, EmptyCache
    <2> QED
      BY <1>4, <2>1, <2>2, <2>3 DEF Refresh, Types, copy, counters
  <1>5. ASSUME NEW r \in Refreshers, recordRefreshError(r) PROVE Types'
    BY <1>5 DEF recordRefreshError, Types, Errors, counters
  <1>6. ASSUME NEW q \in Resolvers, NEW k \in Keys, Ask(q, k) PROVE Types'
    <2>1. [key |-> k, asked |-> generation] \in Queries
      BY DEF Types, Queries
    <2> QED
      BY <1>6, <2>1 DEF Ask, Types, copy, counters
  <1>7. ASSUME NEW q \in Resolvers, NEW ttl \in TTLs, Put(q, ttl) PROVE Types'
    <2>1. asking[q].key \in Keys /\ asking[q].asked \in 1..MaxGeneration
      BY <1>7 DEF Put, Types, Queries
    <2>2. [expiresAt |-> now + ttl, generation |-> generation,
           asked |-> asking[q].asked] \in Records
      BY <2>1, TTLAssumption DEF Types, Records
    <2> QED
      BY <1>7, <2>1, <2>2 DEF Put, Types, copy
  <1>8. ASSUME NEW k \in Keys, Lookup(k) PROVE Types'
    <2>1. hits' + misses' <= MaxLookups /\ hits' \in Nat /\ misses' \in Nat
      BY <1>8 DEF Lookup, LookupHit, LookupMiss, LookupExpired, Types
    <2>2. cache' \in [Keys -> Records \cup {None}] /\ expired' \in Nat
      BY <1>8 DEF Lookup, LookupHit, LookupMiss, LookupExpired, Types
    <2> QED
      BY <1>8, <2>1, <2>2 DEF Lookup, Types, copy
  <1>9. CASE PurgeExpired
    <2> DEFINE removed == {k \in Cached : OutOfDate(k) \/ Expired(k)}
    <2>1. Cardinality(removed) \in Nat
      BY FS_Subset, FS_CardinalityType DEF Accounts
    <2> HIDE DEF removed
    <2>2. cache' = [k \in Keys |-> IF k \in removed THEN None ELSE cache[k]]
          /\ expired' = expired + Cardinality(removed)
          /\ UNCHANGED <<system, now, copy, stores, hits, misses, reading, asking>>
      BY <1>9 DEF PurgeExpired, removed
    <2> QED
      BY <2>1, <2>2 DEF Types, copy
  <1>10. CASE ClearCache
    BY <1>10 DEF ClearCache, EmptyCache, Types, copy, counters
  <1>11. CASE UNCHANGED vars
    BY <1>11 DEF vars, Types, copy, counters
  <1> QED
    BY <1>1, <1>2, <1>3, <1>4, <1>5, <1>6, <1>7, <1>8, <1>9, <1>10, <1>11
       DEF Next

-----------------------------------------------------------------------------
(* The generation of the records.                                          *)

\* A step that leaves the generation alone and adds no record keeps the
\* records current.
LEMMA FewerRecords ==
    ASSUME Current, generation' = generation,
           \A k \in Keys : cache'[k] \in {cache[k], None}
    PROVE  Current'
  BY DEF Current, Cached

\* Every step keeps the records current.
LEMMA CurrentStep ==
    ASSUME Types, Current, [Next]_vars
    PROVE  Current'
  <1>1. ASSUME UNCHANGED <<cache, generation>> PROVE Current'
    BY <1>1 DEF Current, Cached
  <1>2. ASSUME NEW r \in Refreshers, Refresh(r) PROVE Current'
    BY <1>2, CacheEmptied DEF Refresh, Current
  <1>3. ASSUME NEW q \in Resolvers, NEW ttl \in TTLs, Put(q, ttl) PROVE Current'
    <2> DEFINE key == asking[q].key
    <2>1. key \in Keys
      BY <1>3 DEF Put, Types, Queries
    <2>2. generation' = generation
      BY <1>3 DEF Put, copy
    <2>3. cache'[key].generation = generation
      BY <1>3, <2>1 DEF Put, Types
    <2>4. \A k \in Keys : k # key => cache'[k] = cache[k]
      BY <1>3, <2>1 DEF Put, Types
    <2> QED
      BY <2>2, <2>3, <2>4 DEF Current, Cached
  <1>4. ASSUME NEW k \in Keys, Lookup(k) PROVE Current'
    BY <1>4, FewerRecords
       DEF Lookup, LookupHit, LookupMiss, LookupExpired, Types, copy
  <1>5. CASE PurgeExpired
    BY <1>5, FewerRecords DEF PurgeExpired, copy
  <1>6. CASE ClearCache
    BY <1>6, CacheEmptied DEF ClearCache, Current
  <1> QED
    BY <1>1, <1>2, <1>3, <1>4, <1>5, <1>6
       DEF Next, NetworkChange, Tick, ReadSnapshot, recordRefreshError, Ask,
           copy, vars

-----------------------------------------------------------------------------
(* Health.                                                                 *)

\* Every step keeps degraded, the last error and the snapshot consistent.
LEMMA HealthStep ==
    ASSUME Types, HealthConsistent, [Next]_vars
    PROVE  HealthConsistent'
  <1>1. ASSUME UNCHANGED copy PROVE HealthConsistent'
    BY <1>1 DEF HealthConsistent, copy
  <1>2. ASSUME NEW r \in Refreshers, Refresh(r) PROVE HealthConsistent'
    <2>1. reading[r].upstreams \in BOOLEAN
      BY <1>2, SnapshotRead DEF Refresh
    <2> QED
      BY <1>2, <2>1, NoneAssumption DEF Refresh, UpdateHealth, HealthConsistent
  <1>3. ASSUME NEW r \in Refreshers, recordRefreshError(r)
        PROVE  HealthConsistent'
    BY <1>3, NoneAssumption DEF recordRefreshError, HealthConsistent
  <1> QED
    BY <1>1, <1>2, <1>3
       DEF Next, NetworkChange, Tick, ReadSnapshot, Ask, Put, Lookup,
           PurgeExpired, ClearCache, vars

-----------------------------------------------------------------------------
(* Accounting.                                                             *)

\* What holds if nothing about the cache or its counters changes.
LEMMA AccountsUnchanged ==
    ASSUME Accounts, UNCHANGED <<cache, stores, expired>>
    PROVE  Accounts'
  BY DEF Accounts, ExpiredOnce, Cached

\* Emptying the cache forgives its records.
LEMMA AccountsEmptied ==
    ASSUME Types, Accounts, cache' = EmptyCache, UNCHANGED <<stores, expired>>
    PROVE  Accounts'
  <1>1. Cardinality(Cached) \in Nat
    BY FS_CardinalityType DEF Accounts
  <1>2. Cached' = {}
    BY CacheEmptied
  <1>3. IsFiniteSet(Cached') /\ Cardinality(Cached') = 0
    BY <1>2, FS_EmptySet
  <1> QED
    BY <1>1, <1>3 DEF Accounts, ExpiredOnce, Types

\* A store caches at most one key more.
LEMMA AccountsPut ==
    ASSUME Types, Accounts, NEW q \in Resolvers, NEW ttl \in TTLs, Put(q, ttl)
    PROVE  Accounts'
  <1> DEFINE key == asking[q].key
  <1> DEFINE more == Cached \cup {key}
  <1>1. key \in Keys
    BY DEF Put, Types, Queries
  <1>2. Cached' \subseteq more
    <2>1. \A k \in Keys : k # key => cache'[k] = cache[k]
      BY <1>1 DEF Put, Types
    <2> QED
      BY <2>1 DEF Cached
  <1>3. IsFiniteSet(more) /\ Cardinality(more) <= Cardinality(Cached) + 1
    <2>1. IsFiniteSet(Cached)
      BY DEF Accounts
    <2>2. Cardinality(Cached) \in Nat
      BY <2>1, FS_CardinalityType
    <2>3. /\ IsFiniteSet(more)
          /\ Cardinality(more) =
               IF key \in Cached THEN Cardinality(Cached) ELSE Cardinality(Cached) + 1
      BY <2>1, FS_AddElement
    <2> QED
      BY <2>2, <2>3
  <1> HIDE DEF more
  <1>4. IsFiniteSet(Cached') /\ Cardinality(Cached') <= Cardinality(more)
    BY <1>2, <1>3, FS_Subset
  <1>5. /\ Cardinality(Cached) \in Nat
        /\ Cardinality(Cached') \in Nat
        /\ Cardinality(more) \in Nat
    BY <1>3, <1>4, FS_CardinalityType DEF Accounts
  <1>6. stores' = stores + 1 /\ expired' = expired
    BY DEF Put
  <1> QED
    BY <1>3, <1>4, <1>5, <1>6 DEF Accounts, ExpiredOnce, Types

\* A step that removes a set of cached records and counts each of them once
\* keeps the balance.
LEMMA AccountsRemoved ==
    ASSUME Types, Accounts, NEW removed \in SUBSET Cached,
           Cached' = Cached \ removed,
           expired' = expired + Cardinality(removed), stores' = stores
    PROVE  Accounts'
  <1>1. IsFiniteSet(Cached)
    BY DEF Accounts
  <1>2. IsFiniteSet(removed)
    BY <1>1, FS_Subset
  <1>3. Cached \cap removed = removed
    OBVIOUS
  <1>4. /\ IsFiniteSet(Cached \ removed)
        /\ Cardinality(Cached \ removed) =
             Cardinality(Cached) - Cardinality(Cached \cap removed)
    BY <1>1, FS_Difference
  <1>5. Cardinality(Cached) \in Nat /\ Cardinality(removed) \in Nat
    BY <1>1, <1>2, FS_CardinalityType
  <1>6. /\ IsFiniteSet(Cached')
        /\ Cardinality(Cached') = Cardinality(Cached) - Cardinality(removed)
    BY <1>3, <1>4
  <1>7. Cardinality(Cached) + expired <= stores
    BY DEF Accounts, ExpiredOnce
  <1>8. Cardinality(Cached') + expired' <= stores'
    BY <1>5, <1>6, <1>7 DEF Types
  <1> QED
    BY <1>6, <1>8 DEF Accounts, ExpiredOnce

\* Every step keeps the balance.
LEMMA AccountsStep ==
    ASSUME Types, Accounts, [Next]_vars
    PROVE  Accounts'
  <1>1. ASSUME UNCHANGED <<cache, stores, expired>> PROVE Accounts'
    BY <1>1, AccountsUnchanged
  <1>2. ASSUME NEW r \in Refreshers, Refresh(r) PROVE Accounts'
    BY <1>2, AccountsEmptied DEF Refresh, counters
  <1>3. ASSUME NEW q \in Resolvers, NEW ttl \in TTLs, Put(q, ttl) PROVE Accounts'
    BY <1>3, AccountsPut
  <1>4. ASSUME NEW k \in Keys, Lookup(k) PROVE Accounts'
    <2>1. CASE LookupHit(k) \/ LookupMiss(k)
      BY <1>1, <1>4, <2>1 DEF Lookup, LookupHit, LookupMiss
    <2>2. CASE LookupExpired(k)
      <3>1. k \in Cached
        BY <2>2 DEF LookupExpired, Cached
      <3>2. \A j \in Keys : cache'[j] = IF j = k THEN None ELSE cache[j]
        BY <2>2 DEF LookupExpired, Types
      <3>3. Cached' = Cached \ {k}
        BY <3>2 DEF Cached
      <3>4. Cardinality({k}) = 1
        BY FS_Singleton
      <3>5. expired' = expired + 1 /\ stores' = stores
        BY <1>4, <2>2 DEF LookupExpired, Lookup
      <3> QED
        BY <3>1, <3>3, <3>4, <3>5, AccountsRemoved
    <2> QED
      BY <1>4, <2>1, <2>2 DEF Lookup
  <1>5. CASE PurgeExpired
    <2> DEFINE removed == {k \in Cached : OutOfDate(k) \/ Expired(k)}
    <2>1. removed \in SUBSET Cached
      OBVIOUS
    <2>2. /\ cache' = [k \in Keys |-> IF k \in removed THEN None ELSE cache[k]]
          /\ expired' = expired + Cardinality(removed) /\ stores' = stores
      BY <1>5 DEF PurgeExpired
    <2> HIDE DEF removed
    <2>3. Cached' = Cached \ removed
      BY <2>2 DEF Cached
    <2> QED
      BY <2>1, <2>2, <2>3, AccountsRemoved
  <1>6. CASE ClearCache
    BY <1>6, AccountsEmptied DEF ClearCache, counters
  <1> QED
    BY <1>1, <1>2, <1>3, <1>4, <1>5, <1>6
       DEF Next, NetworkChange, Tick, ReadSnapshot, recordRefreshError, Ask,
           counters, vars

-----------------------------------------------------------------------------
(* The theorems.                                                           *)

\* The accounting bounds the expiry counter by the bound on stores.
LEMMA TypesComplete ==
    ASSUME Types, Accounts
    PROVE  TypeOK
  <1>1. Cardinality(Cached) \in Nat
    BY FS_CardinalityType DEF Accounts
  <1>2. expired \in 0..MaxStores
    BY <1>1, BoundsAssumption DEF Accounts, ExpiredOnce, Types
  <1> QED
    BY <1>2 DEF Types, TypeOK

\* NewManager establishes the invariant.
LEMMA InitInv ==
    ASSUME Init
    PROVE  Inv
  <1>1. Cached = {}
    BY DEF Init, Cached, EmptyCache
  <1>2. Types
    <2>1. system \in Snapshots /\ snapshot \in Snapshots
      <3>1. system \in [version : {0}, upstreams : BOOLEAN] /\ snapshot = system
        BY DEF Init
      <3>2. 0 \in 0..MaxVersion
        BY BoundsAssumption
      <3> QED
        BY <3>1, <3>2 DEF Snapshots
    <2>2. degraded \in BOOLEAN /\ lastError \in Errors
      BY DEF Init, Errors
    <2>3. cache \in [Keys -> Records \cup {None}]
      BY DEF Init, EmptyCache
    <2>4. /\ now \in 0..MaxTime /\ generation \in 1..MaxGeneration
          /\ stores \in 0..MaxStores
          /\ hits \in Nat /\ misses \in Nat /\ hits + misses <= MaxLookups
          /\ expired \in Nat
      <3>1. now = 0 /\ generation = 1 /\ stores = 0 /\ hits = 0 /\ misses = 0
            /\ expired = 0
        BY DEF Init
      <3> QED
        BY <3>1, BoundsAssumption
    <2>5. /\ reading \in [Refreshers -> Snapshots \cup {None, Failed}]
          /\ asking \in [Resolvers -> Queries \cup {None}]
      BY DEF Init
    <2> QED
      BY <2>1, <2>2, <2>3, <2>4, <2>5 DEF Types
  <1>3. Current
    BY <1>1 DEF Current
  <1>4. HealthConsistent
    BY NoneAssumption DEF Init, HealthConsistent
  <1>5. Accounts
    <2>1. IsFiniteSet(Cached) /\ Cardinality(Cached) = 0
      BY <1>1, FS_EmptySet
    <2>2. expired = 0 /\ stores = 0
      BY DEF Init
    <2> QED
      BY <2>1, <2>2 DEF Accounts, ExpiredOnce
  <1> QED
    BY <1>2, <1>3, <1>4, <1>5 DEF Inv

\* The invariant holds of every behaviour of the manager.
THEOREM Invariance == Spec => []Inv
  <1>1. Init => Inv
    BY InitInv
  <1>2. Inv /\ [Next]_vars => Inv'
    BY TypesStep, CurrentStep, HealthStep, AccountsStep DEF Inv
  <1> QED
    BY <1>1, <1>2, PTL DEF Spec

\* The cache belongs to one generation of the copy: however refreshes, late
\* answers, lookups and purges interleave, no record of an older generation is
\* ever cached (manager.go, Refresh and Put).
THEOREM RecordsAreCurrent == Spec => []RecordsCurrent
  <1>1. Inv => RecordsCurrent
    BY TypesComplete DEF Inv, RecordsCurrent, Current
  <1> QED
    BY <1>1, Invariance, PTL

\* The counters of Status add up: the records cached now and the ones counted
\* as expired are together at most the ones ever stored (manager.go, Lookup and
\* PurgeExpired).
THEOREM ExpiryCountedOnce == Spec => []ExpiredOnce
  <1>1. Inv => ExpiredOnce
    BY DEF Inv, Accounts
  <1> QED
    BY <1>1, Invariance, PTL

\* Status is degraded exactly when there is an error to show, and a manager in
\* good health has an upstream (manager.go, updateHealthLocked and
\* recordRefreshError).
THEOREM HealthIsConsistent == Spec => []HealthConsistent
  <1>1. Inv => HealthConsistent
    BY DEF Inv
  <1> QED
    BY <1>1, Invariance, PTL
=============================================================================
