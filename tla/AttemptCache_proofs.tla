------------------------ MODULE AttemptCache_proofs -------------------------
(***************************************************************************)
(* Proofs about AttemptCache, for every number of goroutines, INITIALs,    *)
(* entries and connection IDs (infinitely many included), and for every    *)
(* capacity and timeout.                                                   *)
(*                                                                         *)
(* The five safety properties lean on each other.  Inv joins them with     *)
(* what the code relies on without saying it: the map leads only to        *)
(* entries that have its key and have not failed; a builder is the only    *)
(* one that holds its entry, which has no session yet; a ready entry has a *)
(* live session that knows its attempt; an entry is confirmed exactly when *)
(* its session is established; and a session on a cleanup's list has a     *)
(* tombstone, so no CONFIRM can promote it any more.                       *)
(*                                                                         *)
(* Kinds sorts the steps by what they do to the cache; Moves then says how *)
(* one entry and its session change together in any step, and what is      *)
(* proved of leases, sessions and lists needs no more than that.           *)
(***************************************************************************)
EXTENDS AttemptCache, FiniteSetTheorems, TLAPS

-----------------------------------------------------------------------------
(* The invariant.                                                          *)

\* The map leads to entries of its keys that have not failed, and to every
\* attempt in progress.
MapSound ==
    /\ \A k \in Keys : attempts[k] # None =>
          /\ entry[attempts[k]].key = k
          /\ entry[attempts[k]].phase \in {"building", "ready", "tombstone"}
    /\ \A e \in Entries : Active(e) => entry[e].key \in Keys /\ attempts[entry[e].key] = e

\* t builds a session for its lease.
Builder(t) == pc[t] \in {"build", "reserved", "discard", "failing"}

\* A builder owns its lease, which is being built or has expired, and until it
\* publishes or discards it there is no session.
Leases ==
    /\ \A t \in Threads :
          /\ Builder(t) => /\ lease[t] \in Entries
                           /\ entry[lease[t]].phase \in {"building", "tombstone"}
          /\ pc[t] \in {"build", "reserved", "discard"} =>
                session[lease[t]].state = "none"
          /\ pc[t] = "discard" => entry[lease[t]].phase = "tombstone"
    /\ \A t, u \in Threads : Builder(t) /\ Builder(u) /\ lease[t] = lease[u] => t = u

\* Entries and their sessions agree.
SessionsAgree ==
    \A e \in Entries :
        /\ session[e].state = "none" => session[e].cid = None
        /\ Live(e) => session[e].hasAttempt
        /\ entry[e].phase \in {"unused", "building"} =>
              ~entry[e].confirmed /\ session[e].state = "none"
        /\ entry[e].phase = "ready" =>
              Live(e) /\ (entry[e].confirmed <=> session[e].state = "Established")

\* A session that a cleanup has yet to close lost its attempt before it was
\* confirmed.
Doomed ==
    \A t \in Threads : \A e \in expiredSessions[t] :
        /\ entry[e].phase = "tombstone"
        /\ session[e].state \notin {"none", "Established"}

\* A session that waits for its CONFIRM can be found.
NotStranded ==
    \A e \in Entries :
        session[e].state = "PendingConfirm" =>
            \/ entry[e].phase = "ready"
            \/ \E t \in Threads : e \in expiredSessions[t]

\* The reservation of a CID passes from a builder to a session and is held by
\* one of them.
HoldsCID(e, cid) == session[e].cid = cid /\ ~session[e].closedCID
CIDsHeld ==
    /\ \A t \in Threads : serverCID[t] # None => pc[t] \in {"reserved", "discard"}
    /\ \A t \in Threads : pc[t] \in {"reserved", "discard"} => serverCID[t] # None
    /\ \A t, u \in Threads : serverCID[t] # None /\ serverCID[t] = serverCID[u] => t = u
    /\ \A cid \in CIDs :
          /\ \A e, f \in Entries : HoldsCID(e, cid) /\ HoldsCID(f, cid) => e = f
          /\ \A t \in Threads, e \in Entries :
                ~(serverCID[t] = cid /\ HoldsCID(e, cid))
          /\ cid \in activeCIDs <=>
                \/ \E t \in Threads : serverCID[t] = cid
                \/ \E e \in Entries : HoldsCID(e, cid)

\* The counter and the map.
InProgress == {e \in Entries : Active(e)}
Counted ==
    /\ IsFiniteSet(InProgress)
    /\ activeAttempts = Cardinality(InProgress)
    /\ activeAttempts <= maxPendingAttempts
    /\ IsFiniteSet(Records)
    /\ Cardinality(Records) <= maxAttemptRecords

Inv ==
    /\ TypeOK /\ MapSound /\ Leases /\ SessionsAgree /\ Doomed /\ NotStranded
    /\ CIDsHeld /\ Counted
-----------------------------------------------------------------------------
(* The operators of the cache.                                             *)

\* The tombstone of an entry has its key.
LEMMA TombstonedFacts ==
    ASSUME TypeOK, NEW e \in Entries
    PROVE  /\ Tombstoned(e) \in EntryRecord
           /\ Tombstoned(e).phase = "tombstone"
           /\ Tombstoned(e).key = entry[e].key
  <1>1. entry[e] \in EntryRecord /\ clock + attemptReplayRetention \in Nat
    BY TimeoutAssumption DEF TypeOK
  <1> QED
    BY <1>1 DEF Tombstoned, EntryRecord, Phases

\* A new entry is being built for its key.
LEMMA NewEntryFacts ==
    ASSUME TypeOK, NEW k \in Keys
    PROVE  /\ NewEntry(k) \in EntryRecord
           /\ NewEntry(k).phase = "building" /\ NewEntry(k).key = k
           /\ NewEntry(k).confirmed = FALSE
  <1>1. clock + pendingAttemptTimeout \in Nat
    BY TimeoutAssumption DEF TypeOK
  <1> QED
    BY <1>1 DEF NewEntry, EntryRecord, Phases

\* What cleanupAttemptsLocked computes.
LEMMA CleanFacts ==
    ASSUME TypeOK
    PROVE  /\ CleanEntry \in [Entries -> EntryRecord]
           /\ CleanAttempts \in [Keys -> Entries \cup {None}]
           /\ Expired \subseteq InProgress
           /\ \A e \in Expired : /\ CleanEntry[e].phase = "tombstone"
                                 /\ CleanEntry[e].key = entry[e].key
           /\ \A e \in Entries \ Expired : CleanEntry[e] = entry[e]
           /\ \A k \in Keys :
                \/ CleanAttempts[k] = attempts[k]
                \/ /\ CleanAttempts[k] = None
                   /\ entry[attempts[k]].phase \notin {"building", "ready"}
  <1>1. Expired \subseteq InProgress
    BY DEF Expired, InProgress
  <1>2. ASSUME NEW e \in Entries
        PROVE  /\ CleanEntry[e] \in EntryRecord
               /\ e \in Expired => /\ CleanEntry[e].phase = "tombstone"
                                   /\ CleanEntry[e].key = entry[e].key
               /\ e \notin Expired => CleanEntry[e] = entry[e]
    <2>1. CleanEntry[e] = IF e \in Expired THEN Tombstoned(e) ELSE entry[e]
      BY DEF CleanEntry
    <2>2. entry[e] \in EntryRecord
      BY DEF TypeOK
    <2> QED
      BY <2>1, <2>2, TombstonedFacts
  <1>3. CleanEntry \in [Entries -> EntryRecord]
    <2>1. CleanEntry = [e \in Entries |-> CleanEntry[e]]
      BY DEF CleanEntry
    <2> QED
      BY <1>2, <2>1
  <1>4. CleanAttempts \in [Keys -> Entries \cup {None}]
    BY DEF CleanAttempts, TypeOK
  <1>5. \A k \in Keys :
          \/ CleanAttempts[k] = attempts[k]
          \/ /\ CleanAttempts[k] = None
             /\ entry[attempts[k]].phase \notin {"building", "ready"}
    BY DEF CleanAttempts, Forgotten
  <1> QED
    BY <1>1, <1>2, <1>3, <1>4, <1>5 DEF InProgress, Active

\* A lease is an entry while its thread builds.
LEMMA BuilderLease ==
    ASSUME Leases, NEW t \in Threads,
           pc[t] \in {"build", "reserved", "discard", "failing"}
    PROVE  lease[t] \in Entries /\ entry[lease[t]].phase \in {"building", "tombstone"}
  BY DEF Leases, Builder

-----------------------------------------------------------------------------
(* What the steps do, entry by entry and session by session.               *)

OthersKeepEntry(e) == \A f \in Entries : f # e => entry'[f] = entry[f]
OthersKeepSession(e) == \A f \in Entries : f # e => session'[f] = session[f]

\* Publishing.
LEMMA PublishFacts ==
    ASSUME TypeOK, Leases, NEW t \in Threads, PublishAttempt(t)
    PROVE  LET e == lease[t] IN
           /\ e \in Entries /\ entry[e].phase = "building"
           /\ entry' \in [Entries -> EntryRecord]
           /\ entry'[e].phase = "ready" /\ entry'[e].key = entry[e].key
           /\ entry'[e].confirmed = entry[e].confirmed
           /\ OthersKeepEntry(e)
           /\ session' \in [Entries -> SessionRecord]
           /\ session'[e].state = "PendingConfirm" /\ session'[e].cid = serverCID[t]
           /\ session'[e].hasAttempt /\ ~session'[e].closedCID
           /\ OthersKeepSession(e)
  <1> DEFINE e == lease[t]
  <1>1. e \in Entries /\ entry[e].phase = "building" /\ entry[e] \in EntryRecord
    BY BuilderLease DEF PublishAttempt, TypeOK
  <1> DEFINE s == [state |-> "PendingConfirm", cid |-> serverCID[t],
                   hasAttempt |-> TRUE, closedCID |-> FALSE]
  <1> DEFINE n == [entry[e] EXCEPT !.phase = "ready", !.done = TRUE,
                                   !.expiresAt = clock + pendingAttemptTimeout]
  <1>2. entry' = [entry EXCEPT ![e] = n] /\ session' = [session EXCEPT ![e] = s]
    BY <1>1 DEF PublishAttempt, TypeOK
  <1>3. s \in SessionRecord /\ s.state = "PendingConfirm" /\ s.cid = serverCID[t]
        /\ s.hasAttempt /\ ~s.closedCID
    BY DEF TypeOK, SessionRecord, SessionStates
  <1>4. clock + pendingAttemptTimeout \in Nat
    BY TimeoutAssumption DEF TypeOK
  <1>5. n \in EntryRecord /\ n.phase = "ready" /\ n.key = entry[e].key
        /\ n.confirmed = entry[e].confirmed
    BY <1>1, <1>4 DEF EntryRecord, Phases
  <1> HIDE DEF s, n
  <1> QED
    BY <1>1, <1>2, <1>3, <1>5 DEF TypeOK, OthersKeepEntry, OthersKeepSession

\* Discarding a session that was not published.
LEMMA DiscardFacts ==
    ASSUME TypeOK, Leases, NEW t \in Threads, DiscardSession(t)
    PROVE  LET e == lease[t] IN
           /\ e \in Entries
           /\ session' \in [Entries -> SessionRecord]
           /\ session'[e].state = "Closed" /\ session'[e].closedCID
           /\ OthersKeepSession(e)
  <1> DEFINE e == lease[t]
  <1>1. e \in Entries
    BY BuilderLease DEF DiscardSession
  <1> DEFINE s == [state |-> "Closed", cid |-> serverCID[t],
                   hasAttempt |-> FALSE, closedCID |-> TRUE]
  <1>2. session' = [session EXCEPT ![e] = s]
    BY DEF DiscardSession
  <1>3. s \in SessionRecord /\ s.state = "Closed" /\ s.closedCID
    BY DEF TypeOK, SessionRecord, SessionStates
  <1> HIDE DEF s
  <1> QED
    BY <1>1, <1>2, <1>3 DEF TypeOK, OthersKeepSession

\* failAttempt drops an entry that is still being built, and nothing else.
LEMMA FailFacts ==
    ASSUME TypeOK, Leases, MapSound, NEW t \in Threads, FailAttempt(t)
    PROVE  LET e == lease[t] IN
           /\ e \in Entries
           /\ \/ UNCHANGED cacheVars
              \/ /\ entry[e].phase = "building"
                 /\ entry[e].key \in Keys /\ attempts[entry[e].key] = e
                 /\ entry' \in [Entries -> EntryRecord]
                 /\ entry'[e].phase = "failed"
                 /\ OthersKeepEntry(e)
                 /\ attempts' = [attempts EXCEPT ![entry[e].key] = None]
                 /\ activeAttempts' = activeAttempts - 1
  <1> DEFINE e == lease[t]
  <1>1. e \in Entries /\ entry[e] \in EntryRecord
    BY BuilderLease DEF FailAttempt, TypeOK
  <1>2. CASE ~(Current(e) /\ entry[e].phase = "building")
    BY <1>1, <1>2 DEF FailAttempt
  <1>3. CASE Current(e) /\ entry[e].phase = "building"
    <2> DEFINE n == [entry[e] EXCEPT !.phase = "failed", !.done = TRUE]
    <2>1. /\ entry' = [entry EXCEPT ![e] = n]
          /\ attempts' = [attempts EXCEPT ![entry[e].key] = None]
          /\ activeAttempts' = activeAttempts - 1
      BY <1>1, <1>3 DEF FailAttempt, TypeOK
    <2>2. n \in EntryRecord /\ n.phase = "failed"
      BY <1>1 DEF EntryRecord, Phases
    <2>3. entry[e].key \in Keys /\ attempts[entry[e].key] = e
      BY <1>1, <1>3 DEF MapSound, Active
    <2> HIDE DEF n
    <2> QED
      BY <1>1, <1>3, <2>1, <2>2, <2>3 DEF TypeOK, OthersKeepEntry
  <1> QED
    BY <1>2, <1>3

\* Tombstoning one entry.
LEMMA TombstoneFacts ==
    ASSUME TypeOK, NEW e \in Entries, Tombstone(e)
    PROVE  /\ entry' \in [Entries -> EntryRecord]
           /\ entry'[e].phase = "tombstone" /\ entry'[e].key = entry[e].key
           /\ OthersKeepEntry(e)
           /\ attempts' = attempts /\ activeAttempts' = activeAttempts - 1
  <1>1. entry' = [entry EXCEPT ![e] = Tombstoned(e)]
    BY DEF Tombstone
  <1> QED
    BY <1>1, TombstonedFacts DEF TypeOK, Tombstone, OthersKeepEntry

\* closeLocked: the session has its new state and keeps its CID; its entry is
\* tombstoned if it was ready, and no entry changes otherwise.
LEMMA CloseFacts ==
    ASSUME TypeOK, MapSound, SessionsAgree, NEW t \in Threads, NEW e \in Entries,
           NEW next \in {"Closed", "Rejected"}, CloseLocked(t, e, next)
    PROVE  /\ session' \in [Entries -> SessionRecord]
           /\ session'[e].state = next
           /\ session'[e].cid = session[e].cid
           /\ session'[e].closedCID = session[e].closedCID
           /\ OthersKeepSession(e)
           /\ \/ entry[e].phase # "ready" /\ UNCHANGED cacheVars
              \/ entry[e].phase = "ready" /\ Tombstone(e)
           /\ closing' \in [Threads -> Entries \cup {None}]
  <1> DEFINE n == [session[e] EXCEPT !.state = next, !.hasAttempt = FALSE]
  <1>1. session[e] \in SessionRecord
    BY DEF TypeOK
  <1>2. session' = [session EXCEPT ![e] = n]
    BY DEF CloseLocked, TypeOK
  <1>3. /\ n \in SessionRecord /\ n.state = next /\ n.cid = session[e].cid
        /\ n.closedCID = session[e].closedCID
    BY <1>1 DEF SessionRecord, SessionStates
  <1> HIDE DEF n
  <1>4. /\ session' \in [Entries -> SessionRecord]
        /\ session'[e].state = next
        /\ session'[e].cid = session[e].cid
        /\ session'[e].closedCID = session[e].closedCID
        /\ OthersKeepSession(e)
    BY <1>2, <1>3 DEF TypeOK, OthersKeepSession
  <1>5. entry[e].phase = "ready" => session[e].hasAttempt /\ Current(e)
    BY DEF SessionsAgree, MapSound, Active, Current
  <1>6. \/ entry[e].phase # "ready" /\ UNCHANGED cacheVars
        \/ entry[e].phase = "ready" /\ Tombstone(e)
    BY <1>5 DEF CloseLocked
  <1>7. closing' \in [Threads -> Entries \cup {None}]
    BY DEF CloseLocked, TypeOK
  <1> QED
    BY <1>4, <1>6, <1>7

\* Releasing the CID of a session.
LEMMA ReleaseFacts ==
    ASSUME TypeOK, NEW t \in Threads, ReleaseCID(t)
    PROVE  LET e == closing[t] IN
           /\ e \in Entries
           /\ session' \in [Entries -> SessionRecord]
           /\ session'[e].state = session[e].state /\ session'[e].cid = session[e].cid
           /\ session'[e].hasAttempt = session[e].hasAttempt
           /\ session'[e].closedCID
           /\ OthersKeepSession(e)
  <1> DEFINE e == closing[t]
  <1>1. e \in Entries /\ session[e] \in SessionRecord
    BY DEF ReleaseCID, TypeOK
  <1> DEFINE n == [session[e] EXCEPT !.closedCID = TRUE]
  <1>2. session' = [session EXCEPT ![e] = n]
    BY <1>1 DEF ReleaseCID, TypeOK
  <1>3. /\ n \in SessionRecord /\ n.state = session[e].state /\ n.cid = session[e].cid
        /\ n.hasAttempt = session[e].hasAttempt /\ n.closedCID
    BY <1>1 DEF SessionRecord
  <1> HIDE DEF n
  <1> QED
    BY <1>1, <1>2, <1>3 DEF TypeOK, OthersKeepSession

\* Promoting a session.
LEMMA PromoteFacts ==
    ASSUME TypeOK, NEW t \in Threads, NEW e \in Entries, ConfirmPromoted(t, e)
    PROVE  /\ entry[e].phase = "ready" /\ session[e].state = "PendingConfirm"
           /\ entry' \in [Entries -> EntryRecord]
           /\ entry'[e].phase = "ready" /\ entry'[e].key = entry[e].key
           /\ entry'[e].confirmed = TRUE
           /\ OthersKeepEntry(e)
           /\ session' \in [Entries -> SessionRecord]
           /\ session'[e].state = "Established" /\ session'[e].cid = session[e].cid
           /\ session'[e].closedCID = session[e].closedCID
           /\ session'[e].hasAttempt
           /\ OthersKeepSession(e)
  <1>1. /\ entry[e] \in EntryRecord /\ session[e] \in SessionRecord
        /\ entry[e].phase = "ready" /\ session[e].hasAttempt
        /\ session[e].state = "PendingConfirm"
    BY DEF TypeOK, ConfirmPromoted, PromoteAttempt
  <1> DEFINE n == [entry[e] EXCEPT !.confirmed = TRUE,
                                   !.expiresAt = clock + confirmGracePeriod]
  <1> DEFINE s == [session[e] EXCEPT !.state = "Established"]
  <1>2. entry' = [entry EXCEPT ![e] = n] /\ session' = [session EXCEPT ![e] = s]
    BY DEF ConfirmPromoted, TypeOK
  <1>3. clock + confirmGracePeriod \in Nat
    BY TimeoutAssumption DEF TypeOK
  <1>4. n \in EntryRecord /\ n.phase = "ready" /\ n.key = entry[e].key
        /\ n.confirmed = TRUE
    BY <1>1, <1>3 DEF EntryRecord
  <1>5. s \in SessionRecord /\ s.state = "Established" /\ s.cid = session[e].cid
        /\ s.closedCID = session[e].closedCID /\ s.hasAttempt
    BY <1>1 DEF SessionRecord, SessionStates
  <1> HIDE DEF n, s
  <1> QED
    BY <1>1, <1>2, <1>4, <1>5 DEF TypeOK, OthersKeepEntry, OthersKeepSession
-----------------------------------------------------------------------------
(* The kinds of steps.                                                     *)

\* A goroutine moves on without touching the cache or a session.
Local(t) ==
    \/ ResultOfAttempt(t)
    \/ BuildError(t)
    \/ \E cid \in CIDs : ReserveServerCID(t, cid)
    \/ BuildErrorAfterReserve(t)
    \/ PublishTooLate(t)

\* A cleanup, in a call of its own or on the way to an attempt that exists or
\* is refused.
Sweeps(t) ==
    /\ Idle(t)
    /\ entry' = CleanEntry /\ attempts' = CleanAttempts /\ activeAttempts' = CleanActive
    /\ expiredSessions' = [expiredSessions EXCEPT ![t] = Unconfirmed(Expired)]
    /\ pc' \in [Threads -> Locations] /\ pc'[t] \in {"idle", "wait"}
    /\ lease' \in [Threads -> Entries \cup {None}]
    /\ \A u \in Threads : u # t => pc'[u] = pc[u] /\ lease'[u] = lease[u]
    /\ UNCHANGED <<clock, activeCIDs, session, serverCID, closing>>

\* A cleanup, and t becomes the builder of e.
Begins(t, k, e) ==
    /\ Idle(t)
    /\ AcquireBuilder(t, k, e)
    /\ expiredSessions' = [expiredSessions EXCEPT ![t] = Unconfirmed(Expired)]
    /\ UNCHANGED <<clock, activeCIDs, session, serverCID, closing>>

\* A session is closed or rejected, by whoever does it.
Closes(t, e, next) ==
    /\ CloseLocked(t, e, next)
    /\ session[e].state # "none"
    /\ \/ expiredSessions' = expiredSessions
       \/ expiredSessions' = [expiredSessions EXCEPT ![t] = @ \ {e}]
    /\ UNCHANGED <<clock, activeCIDs, pc, lease, serverCID>>

Kinds ==
    \/ Tick \/ UNCHANGED vars
    \/ \E t \in Threads :
          \/ Local(t) \/ Sweeps(t)
          \/ \E k \in Keys, e \in Entries : Begins(t, k, e)
          \/ PublishAttempt(t) \/ DiscardSession(t) \/ FailAttempt(t) \/ ReleaseCID(t)
          \/ \E e \in Entries :
                \/ \E next \in {"Closed", "Rejected"} : Closes(t, e, next)
                \/ ConfirmPromoted(t, e)
                \/ ConfirmGraceOver(t, e)

\* acquireAttempt without a new entry is a sweep.
LEMMA AcquireSweeps ==
    ASSUME TypeOK, NEW t \in Threads, NEW k \in Keys, AcquireAttempt(t, k),
           AcquireExisting(t, k) \/ AcquireRefused(k)
    PROVE  Sweeps(t)
  <1>1. CASE AcquireRefused(k)
    BY <1>1 DEF AcquireAttempt, AcquireRefused, Sweeps, Idle, TypeOK
  <1>2. CASE AcquireExisting(t, k)
    <2>1. CASE UNCHANGED <<pc, lease>>
      BY <1>2, <2>1 DEF AcquireAttempt, AcquireExisting, Sweeps, Idle, TypeOK
    <2>2. CASE /\ pc' = [pc EXCEPT ![t] = "wait"]
               /\ lease' = [lease EXCEPT ![t] = CleanAttempts[k]]
      <3>1. CleanAttempts[k] \in Entries \cup {None}
        BY CleanFacts
      <3>2. /\ pc' \in [Threads -> Locations] /\ pc'[t] = "wait"
            /\ lease' \in [Threads -> Entries \cup {None}]
            /\ \A u \in Threads : u # t => pc'[u] = pc[u] /\ lease'[u] = lease[u]
        BY <2>2, <3>1 DEF TypeOK, Locations
      <3> QED
        BY <1>2, <3>2 DEF AcquireAttempt, AcquireExisting, Sweeps
    <2> QED
      BY <1>2, <2>1, <2>2 DEF AcquireExisting
  <1> QED
    BY <1>1, <1>2

\* Every step is of one of these kinds.
LEMMA StepKinds ==
    ASSUME TypeOK, Doomed, [Next]_vars
    PROVE  Kinds
  <1>1. ASSUME NEW t \in Threads, NEW k \in Keys, AcquireAttempt(t, k)
        PROVE  Sweeps(t) \/ \E e \in Entries : Begins(t, k, e)
    BY <1>1, AcquireSweeps DEF AcquireAttempt, Begins
  <1>2. ASSUME NEW t \in Threads, CleanupExpired(t)
        PROVE  Sweeps(t)
    BY <1>2 DEF CleanupExpired, Sweeps, Idle, TypeOK
  <1>3. ASSUME NEW t \in Threads, NEW e \in Entries,
               CloseSession(t, e) \/ ConfirmTooLate(t, e)
        PROVE  Closes(t, e, "Closed")
    BY <1>3 DEF CloseSession, ConfirmTooLate, Closes, Live
  <1>4. ASSUME NEW t \in Threads, NEW e \in Entries, ConfirmRejected(t, e)
        PROVE  Closes(t, e, "Rejected")
    BY <1>4 DEF ConfirmRejected, Closes
  <1>5. ASSUME NEW t \in Threads, NEW e \in Entries, CloseExpiredSession(t, e)
        PROVE  Closes(t, e, "Closed")
    BY <1>5 DEF CloseExpiredSession, Closes, Doomed
  <1>6. ASSUME NEW t \in Threads, Call(t) PROVE Kinds
    BY <1>1, <1>2, <1>3, <1>4, <1>6 DEF Call, Kinds
  <1>7. ASSUME NEW t \in Threads, Continue(t) PROVE Kinds
    BY <1>5, <1>7 DEF Continue, Local, Kinds
  <1> QED
    BY <1>6, <1>7 DEF Next, Kinds

-----------------------------------------------------------------------------
(* TypeOK.                                                                  *)

\* What a local step leaves alone, and the types of what it changes.
LocalEffect ==
    /\ UNCHANGED <<clock, cacheVars, session, expiredSessions, closing>>
    /\ pc' \in [Threads -> Locations]
    /\ lease' \in [Threads -> Entries \cup {None}]
    /\ serverCID' \in [Threads -> CIDs \cup {None}]
    /\ activeCIDs' \subseteq CIDs

\* It does no more than that.
LEMMA LocalFacts ==
    ASSUME TypeOK, NEW t \in Threads, Local(t)
    PROVE  LocalEffect
  <1>1. CASE ResultOfAttempt(t) \/ BuildError(t) \/ PublishTooLate(t)
    BY <1>1 DEF ResultOfAttempt, BuildError, PublishTooLate, TypeOK, Locations,
                LocalEffect
  <1>2. ASSUME NEW cid \in CIDs, ReserveServerCID(t, cid)
        PROVE  LocalEffect
    BY <1>2 DEF ReserveServerCID, TypeOK, Locations, LocalEffect
  <1>3. CASE BuildErrorAfterReserve(t)
    BY <1>3 DEF BuildErrorAfterReserve, TypeOK, Locations, LocalEffect
  <1> QED
    BY <1>1, <1>2, <1>3 DEF Local

\* Every step keeps the types.
LEMMA TypeStep ==
    ASSUME Inv, [Next]_vars
    PROVE  TypeOK'
  <1> USE DEF cacheVars
  <1>0. Kinds
    BY StepKinds DEF Inv
  <1>1. CASE Tick \/ UNCHANGED vars
    BY <1>1, TimeoutAssumption DEF Tick, vars, threadVars, Inv, TypeOK
  <1>2. ASSUME NEW t \in Threads, Local(t) PROVE TypeOK'
    BY <1>2, LocalFacts DEF LocalEffect, Inv, TypeOK
  <1>3. Unconfirmed(Expired) \in SUBSET Entries
    BY DEF Unconfirmed, Expired
  <1>4. CleanActive \in Int
    <2>1. Expired \subseteq InProgress /\ IsFiniteSet(InProgress)
      BY CleanFacts DEF Inv, Counted
    <2>2. Cardinality(Expired) \in Nat
      BY <2>1, FS_Subset, FS_CardinalityType
    <2> QED
      BY <2>2 DEF CleanActive, Inv, TypeOK
  <1>5. ASSUME NEW t \in Threads, Sweeps(t) PROVE TypeOK'
    BY <1>3, <1>4, <1>5, CleanFacts DEF Sweeps, Inv, TypeOK
  <1>6. ASSUME NEW t \in Threads, NEW k \in Keys, NEW e \in Entries, Begins(t, k, e)
        PROVE  TypeOK'
    <2>1. entry' \in [Entries -> EntryRecord]
      BY <1>6, CleanFacts, NewEntryFacts DEF Begins, AcquireBuilder, Inv
    <2>2. attempts' \in [Keys -> Entries \cup {None}] /\ activeAttempts' \in Int
      BY <1>4, <1>6, CleanFacts DEF Begins, AcquireBuilder, Inv
    <2>3. /\ pc' \in [Threads -> Locations] /\ lease' \in [Threads -> Entries \cup {None}]
          /\ expiredSessions' \in [Threads -> SUBSET Entries]
      BY <1>3, <1>6 DEF Begins, AcquireBuilder, Inv, TypeOK, Locations
    <2> QED
      BY <1>6, <2>1, <2>2, <2>3 DEF Begins, Inv, TypeOK
  <1>7. ASSUME NEW t \in Threads, PublishAttempt(t) PROVE TypeOK'
    <2>1. entry' \in [Entries -> EntryRecord] /\ session' \in [Entries -> SessionRecord]
      BY <1>7, PublishFacts DEF Inv
    <2> QED
      BY <1>7, <2>1 DEF PublishAttempt, Inv, TypeOK, Locations
  <1>8. ASSUME NEW t \in Threads, DiscardSession(t) PROVE TypeOK'
    <2>1. session' \in [Entries -> SessionRecord]
      BY <1>8, DiscardFacts DEF Inv
    <2> QED
      BY <1>8, <2>1 DEF DiscardSession, Inv, TypeOK, Locations
  <1>9. ASSUME NEW t \in Threads, FailAttempt(t) PROVE TypeOK'
    <2>1. /\ entry' \in [Entries -> EntryRecord]
          /\ attempts' \in [Keys -> Entries \cup {None}]
          /\ activeAttempts' \in Int
      BY <1>9, FailFacts DEF Inv, TypeOK
    <2> QED
      BY <1>9, <2>1 DEF FailAttempt, Inv, TypeOK, Locations
  <1>10. ASSUME NEW t \in Threads, ReleaseCID(t) PROVE TypeOK'
    <2>1. session' \in [Entries -> SessionRecord]
      BY <1>10, ReleaseFacts DEF Inv
    <2> QED
      BY <1>10, <2>1 DEF ReleaseCID, Inv, TypeOK
  <1>11. ASSUME NEW e \in Entries, Tombstone(e)
         PROVE  /\ entry' \in [Entries -> EntryRecord]
                /\ attempts' \in [Keys -> Entries \cup {None}]
                /\ activeAttempts' \in Int
    BY <1>11, TombstoneFacts DEF Inv, TypeOK
  <1>12. ASSUME NEW t \in Threads, NEW e \in Entries, NEW next \in {"Closed", "Rejected"},
                Closes(t, e, next)
         PROVE  TypeOK'
    <2>1. /\ session' \in [Entries -> SessionRecord]
          /\ closing' \in [Threads -> Entries \cup {None}]
          /\ UNCHANGED cacheVars \/ Tombstone(e)
      BY <1>12, CloseFacts DEF Closes, Inv
    <2>2. /\ entry' \in [Entries -> EntryRecord]
          /\ attempts' \in [Keys -> Entries \cup {None}]
          /\ activeAttempts' \in Int
      BY <1>11, <2>1 DEF Inv, TypeOK
    <2>3. expiredSessions' \in [Threads -> SUBSET Entries]
      BY <1>12 DEF Closes, Inv, TypeOK
    <2> QED
      BY <1>12, <2>1, <2>2, <2>3 DEF Closes, Inv, TypeOK
  <1>13. ASSUME NEW t \in Threads, NEW e \in Entries, ConfirmPromoted(t, e)
         PROVE  TypeOK'
    <2>1. entry' \in [Entries -> EntryRecord] /\ session' \in [Entries -> SessionRecord]
      BY <1>13, PromoteFacts DEF Inv
    <2> QED
      BY <1>13, <2>1 DEF ConfirmPromoted, threadVars, Inv, TypeOK
  <1>14. ASSUME NEW t \in Threads, NEW e \in Entries, ConfirmGraceOver(t, e)
         PROVE  TypeOK'
    BY <1>11, <1>14 DEF ConfirmGraceOver, threadVars, Inv, TypeOK
  <1> QED
    BY <1>0, <1>1, <1>2, <1>5, <1>6, <1>7, <1>8, <1>9, <1>10, <1>12, <1>13, <1>14
       DEF Kinds

-----------------------------------------------------------------------------
(* The map.                                                                *)

\* Entries that are not in progress may be forgotten and entries in progress
\* may be retired: the map stays sound.
LEMMA MapCleaned ==
    ASSUME TypeOK, MapSound, NEW S \in SUBSET InProgress,
           \A e \in S : entry'[e].phase = "tombstone" /\ entry'[e].key = entry[e].key,
           \A e \in Entries \ S : entry'[e] = entry[e],
           \A k \in Keys : \/ attempts'[k] = attempts[k]
                           \/ /\ attempts'[k] = None
                              /\ entry[attempts[k]].phase \notin {"building", "ready"}
    PROVE  MapSound'
  <1>1. ASSUME NEW k \in Keys, attempts'[k] # None
        PROVE  /\ entry'[attempts'[k]].key = k
               /\ entry'[attempts'[k]].phase \in {"building", "ready", "tombstone"}
    <2>1. attempts'[k] = attempts[k] /\ attempts[k] \in Entries
      BY <1>1 DEF TypeOK
    <2> QED
      BY <1>1, <2>1 DEF MapSound
  <1>2. ASSUME NEW e \in Entries, entry'[e].phase \in {"building", "ready"}
        PROVE  entry'[e].key \in Keys /\ attempts'[entry'[e].key] = e
    <2>1. e \notin S /\ entry'[e] = entry[e]
      BY <1>2
    <2>2. Active(e) /\ entry[e].key \in Keys /\ attempts[entry[e].key] = e
      BY <1>2, <2>1 DEF MapSound, Active
    <2> QED
      BY <2>1, <2>2 DEF Active
  <1> QED
    BY <1>1, <1>2 DEF MapSound, Active

\* A new entry takes the place of a record that is gone.
LEMMA MapBegun ==
    ASSUME Inv, NEW t \in Threads, NEW k \in Keys, NEW e \in Entries, Begins(t, k, e)
    PROVE  MapSound'
  <1>1. /\ entry' = [CleanEntry EXCEPT ![e] = NewEntry(k)]
        /\ attempts' = [CleanAttempts EXCEPT ![k] = e]
        /\ CleanAttempts[k] = None /\ entry[e].phase = "unused"
    BY DEF Begins, AcquireBuilder
  <1>2. /\ entry'[e].phase = "building" /\ entry'[e].key = k
        /\ \A f \in Entries : f # e => entry'[f] = CleanEntry[f]
    BY <1>1, CleanFacts, NewEntryFacts DEF Inv
  <1>3. attempts'[k] = e /\ \A j \in Keys : j # k => attempts'[j] = CleanAttempts[j]
    BY <1>1, CleanFacts DEF Inv
  <1>4. ASSUME NEW j \in Keys, attempts'[j] # None
        PROVE  /\ entry'[attempts'[j]].key = j
               /\ entry'[attempts'[j]].phase \in {"building", "ready", "tombstone"}
    <2>1. CASE j = k
      BY <1>2, <1>3, <2>1
    <2>2. CASE j # k
      <3>1. attempts'[j] = attempts[j] /\ attempts[j] \in Entries
        BY <1>3, <1>4, <2>2, CleanFacts DEF Inv, TypeOK
      <3>2. /\ entry[attempts[j]].key = j
            /\ entry[attempts[j]].phase \in {"building", "ready", "tombstone"}
        BY <1>4, <3>1 DEF Inv, MapSound
      <3>3. attempts[j] # e
        BY <1>1, <3>2
      <3>4. entry'[attempts[j]] = CleanEntry[attempts[j]]
        BY <1>2, <3>1, <3>3
      <3> QED
        BY <3>1, <3>2, <3>4, CleanFacts DEF Inv
    <2> QED
      BY <2>1, <2>2
  <1>5. ASSUME NEW f \in Entries, entry'[f].phase \in {"building", "ready"}
        PROVE  entry'[f].key \in Keys /\ attempts'[entry'[f].key] = f
    <2>1. CASE f = e
      BY <1>2, <1>3, <2>1
    <2>2. CASE f # e
      <3>1. f \notin Expired /\ entry'[f] = entry[f]
        BY <1>2, <1>5, <2>2, CleanFacts DEF Inv
      <3>2. entry[f].key \in Keys /\ attempts[entry[f].key] = f
        BY <1>5, <3>1 DEF Inv, MapSound, Active
      <3>3. CleanAttempts[entry[f].key] = f
        BY <1>5, <3>1, <3>2, CleanFacts DEF Inv
      <3>4. entry[f].key # k
        BY <1>1, <3>3, NoneAssumption
      <3> QED
        BY <1>3, <3>1, <3>2, <3>3, <3>4
    <2> QED
      BY <2>1, <2>2
  <1> QED
    BY <1>4, <1>5 DEF MapSound, Active

\* Only the phase of one entry changes, from one in progress to another.
LEMMA MapMoved ==
    ASSUME TypeOK, MapSound, NEW e \in Entries, Active(e), attempts' = attempts,
           entry'[e].phase \in {"building", "ready", "tombstone"},
           entry'[e].key = entry[e].key, OthersKeepEntry(e)
    PROVE  MapSound'
  <1>1. ASSUME NEW k \in Keys, attempts[k] # None
        PROVE  /\ entry'[attempts[k]].key = k
               /\ entry'[attempts[k]].phase \in {"building", "ready", "tombstone"}
    <2>1. attempts[k] \in Entries
      BY <1>1 DEF TypeOK
    <2> QED
      BY <1>1, <2>1 DEF MapSound, OthersKeepEntry
  <1>2. ASSUME NEW f \in Entries, entry'[f].phase \in {"building", "ready"}
        PROVE  entry'[f].key \in Keys /\ attempts[entry'[f].key] = f
    BY <1>2 DEF MapSound, Active, OthersKeepEntry
  <1> QED
    BY <1>1, <1>2 DEF MapSound, Active

\* Every step keeps the map sound.
LEMMA MapStep ==
    ASSUME Inv, [Next]_vars
    PROVE  MapSound'
  <1>0. Kinds
    BY StepKinds DEF Inv
  <1>1. ASSUME UNCHANGED cacheVars PROVE MapSound'
    BY <1>1 DEF cacheVars, Inv, MapSound, Active
  <1>2. ASSUME NEW t \in Threads, Local(t) PROVE MapSound'
    BY <1>1, <1>2, LocalFacts DEF LocalEffect, Inv
  <1>3. ASSUME NEW t \in Threads, Sweeps(t) PROVE MapSound'
    <2>1. /\ Expired \in SUBSET InProgress
          /\ \A e \in Expired : entry'[e].phase = "tombstone" /\ entry'[e].key = entry[e].key
          /\ \A e \in Entries \ Expired : entry'[e] = entry[e]
          /\ \A k \in Keys : \/ attempts'[k] = attempts[k]
                             \/ /\ attempts'[k] = None
                                /\ entry[attempts[k]].phase \notin {"building", "ready"}
      BY <1>3, CleanFacts DEF Sweeps, Inv
    <2> QED
      BY <2>1, MapCleaned DEF Inv
  <1>4. ASSUME NEW t \in Threads, PublishAttempt(t) PROVE MapSound'
    <2>1. PICK e \in Entries : e = lease[t]
      BY <1>4, PublishFacts DEF Inv
    <2>2. /\ Active(e) /\ attempts' = attempts
          /\ entry'[e].phase = "ready" /\ entry'[e].key = entry[e].key
          /\ OthersKeepEntry(e)
      BY <1>4, <2>1, PublishFacts DEF Inv, Active, PublishAttempt
    <2> QED
      BY <2>2, MapMoved DEF Inv
  <1>5. ASSUME NEW t \in Threads, FailAttempt(t) PROVE MapSound'
    <2>1. PICK e \in Entries : e = lease[t]
      BY <1>5, FailFacts DEF Inv
    <2>2. CASE UNCHANGED cacheVars
      BY <1>1, <2>2
    <2>3. CASE /\ entry[e].key \in Keys /\ attempts[entry[e].key] = e
               /\ entry'[e].phase = "failed" /\ OthersKeepEntry(e)
               /\ attempts' = [attempts EXCEPT ![entry[e].key] = None]
      <3>0. /\ attempts'[entry[e].key] = None
            /\ \A k \in Keys : k # entry[e].key => attempts'[k] = attempts[k]
        BY <2>3 DEF Inv, TypeOK
      <3>1. ASSUME NEW k \in Keys, attempts'[k] # None
            PROVE  /\ entry'[attempts'[k]].key = k
                   /\ entry'[attempts'[k]].phase \in {"building", "ready", "tombstone"}
        <4>1. k # entry[e].key /\ attempts'[k] = attempts[k]
          BY <3>0, <3>1
        <4>2. attempts[k] \in Entries /\ entry[attempts[k]].key = k
          BY <3>1, <4>1 DEF Inv, MapSound, TypeOK
        <4>3. attempts[k] # e
          BY <4>1, <4>2
        <4> QED
          BY <2>3, <3>1, <4>1, <4>2, <4>3 DEF Inv, MapSound, OthersKeepEntry
      <3>2. ASSUME NEW f \in Entries, entry'[f].phase \in {"building", "ready"}
            PROVE  entry'[f].key \in Keys /\ attempts'[entry'[f].key] = f
        <4>1. f # e /\ entry'[f] = entry[f]
          BY <2>3, <3>2 DEF OthersKeepEntry
        <4>2. entry[f].key \in Keys /\ attempts[entry[f].key] = f
          BY <3>2, <4>1 DEF Inv, MapSound, Active
        <4> QED
          BY <2>3, <3>0, <4>1, <4>2
      <3> QED
        BY <3>1, <3>2 DEF MapSound, Active
    <2> QED
      BY <1>5, <2>1, <2>2, <2>3, FailFacts DEF Inv
  <1>6. ASSUME NEW e \in Entries, Tombstone(e), Active(e) PROVE MapSound'
    BY <1>6, TombstoneFacts, MapMoved DEF Inv
  <1>7. ASSUME NEW t \in Threads, NEW e \in Entries, NEW next \in {"Closed", "Rejected"},
               Closes(t, e, next)
        PROVE  MapSound'
    BY <1>1, <1>6, <1>7, CloseFacts DEF Closes, Inv, Active
  <1>8. ASSUME NEW t \in Threads, NEW e \in Entries, ConfirmPromoted(t, e)
        PROVE  MapSound'
    <2>1. /\ Active(e) /\ attempts' = attempts
          /\ entry'[e].phase = "ready" /\ entry'[e].key = entry[e].key
          /\ OthersKeepEntry(e)
      BY <1>8, PromoteFacts DEF Inv, Active, ConfirmPromoted
    <2> QED
      BY <2>1, MapMoved DEF Inv
  <1>9. ASSUME NEW t \in Threads, NEW e \in Entries, ConfirmGraceOver(t, e)
        PROVE  MapSound'
    BY <1>6, <1>9 DEF ConfirmGraceOver, Active
  <1>10. ASSUME NEW t \in Threads, DiscardSession(t) \/ ReleaseCID(t) PROVE MapSound'
    BY <1>1, <1>10 DEF DiscardSession, ReleaseCID
  <1>11. CASE Tick \/ UNCHANGED vars
    BY <1>1, <1>11 DEF Tick, vars
  <1> QED
    BY <1>0, <1>2, <1>3, <1>4, <1>5, <1>7, <1>8, <1>9, <1>10, <1>11, MapBegun DEF Kinds
-----------------------------------------------------------------------------
(* How an entry and its session move together.                             *)

SameSession(e) ==
    /\ session'[e].state = session[e].state
    /\ session'[e].cid = session[e].cid
    /\ session'[e].hasAttempt = session[e].hasAttempt

SamePhase(e) ==
    entry'[e].phase = entry[e].phase /\ entry'[e].confirmed = entry[e].confirmed

\* Its attempt expires; an unconfirmed session is put on a list.
Retired(e) ==
    /\ Active(e) /\ entry'[e].phase = "tombstone" /\ SameSession(e)
    /\ entry[e].phase = "ready" =>
          entry[e].confirmed \/ \E t \in Threads : e \in expiredSessions'[t]

Created(e) ==
    /\ entry[e].phase = "unused" /\ entry'[e].phase = "building"
    /\ ~entry'[e].confirmed /\ SameSession(e)

\* t stops building e.
Leaves(t, e) == Builder(t) /\ lease[t] = e /\ pc'[t] = "idle"

Published(e) ==
    /\ entry[e].phase = "building" /\ entry'[e].phase = "ready"
    /\ entry'[e].confirmed = entry[e].confirmed
    /\ session'[e].state = "PendingConfirm" /\ session'[e].hasAttempt
    /\ \E t \in Threads : Leaves(t, e)

Failed(e) ==
    /\ entry[e].phase = "building" /\ entry'[e].phase = "failed" /\ SameSession(e)
    /\ \E t \in Threads : Leaves(t, e)

Discarded(e) ==
    /\ SamePhase(e) /\ entry[e].phase = "tombstone"
    /\ session'[e].state = "Closed"
    /\ \E t \in Threads : pc[t] = "discard" /\ lease[t] = e /\ pc'[t] = "failing"

Closed(e) ==
    /\ session[e].state # "none" /\ session'[e].state \in {"Closed", "Rejected"}
    /\ \/ SamePhase(e) /\ entry[e].phase # "ready"
       \/ entry[e].phase = "ready" /\ entry'[e].phase = "tombstone"

Promoted(e) ==
    /\ entry[e].phase = "ready" /\ entry'[e].phase = "ready" /\ entry'[e].confirmed
    /\ session[e].state = "PendingConfirm" /\ session'[e].state = "Established"
    /\ session'[e].hasAttempt

Moves(e) ==
    \/ SamePhase(e) /\ SameSession(e)
    \/ Retired(e) \/ Created(e) \/ Published(e) \/ Failed(e) \/ Discarded(e)
    \/ Closed(e) \/ Promoted(e)

\* A cleanup moves an entry or leaves it alone.
LEMMA SweepMoves ==
    ASSUME TypeOK, NEW t \in Threads, NEW e \in Entries,
           entry'[e] = CleanEntry[e], session' = session,
           expiredSessions' = [expiredSessions EXCEPT ![t] = Unconfirmed(Expired)]
    PROVE  Moves(e)
  <1>0. SameSession(e)
    BY DEF SameSession
  <1>1. CASE e \notin Expired
    BY <1>0, <1>1, CleanFacts DEF Moves, SamePhase
  <1>2. CASE e \in Expired
    <2>1. Active(e) /\ entry'[e].phase = "tombstone"
      BY <1>2, CleanFacts DEF InProgress
    <2>2. expiredSessions'[t] = Unconfirmed(Expired)
      BY DEF TypeOK
    <2>3. entry[e].phase = "ready" => entry[e].confirmed \/ e \in expiredSessions'[t]
      BY <1>2, <2>2 DEF Unconfirmed
    <2> QED
      BY <1>0, <2>1, <2>3 DEF Moves, Retired
  <1> QED
    BY <1>1, <1>2

\* Every step moves every entry and its session in one of these ways.
LEMMA MovesStep ==
    ASSUME Inv, [Next]_vars, NEW f \in Entries
    PROVE  Moves(f)
  <1>0. Kinds
    BY StepKinds DEF Inv
  <1>1. ASSUME entry'[f] = entry[f], session'[f] = session[f] PROVE Moves(f)
    BY <1>1 DEF Moves, SamePhase, SameSession
  <1>2. CASE Tick \/ UNCHANGED vars
    BY <1>1, <1>2 DEF Tick, vars, cacheVars
  <1>3. ASSUME NEW t \in Threads, Local(t) PROVE Moves(f)
    BY <1>1, <1>3, LocalFacts DEF LocalEffect, Inv, cacheVars
  <1>4. ASSUME NEW t \in Threads, Sweeps(t) PROVE Moves(f)
    BY <1>4, SweepMoves DEF Sweeps, Inv
  <1>5. ASSUME NEW t \in Threads, NEW k \in Keys, NEW e \in Entries, Begins(t, k, e)
        PROVE  Moves(f)
    <2>1. /\ entry' = [CleanEntry EXCEPT ![e] = NewEntry(k)]
          /\ entry[e].phase = "unused" /\ session' = session
          /\ expiredSessions' = [expiredSessions EXCEPT ![t] = Unconfirmed(Expired)]
      BY <1>5 DEF Begins, AcquireBuilder
    <2>2. CASE f = e
      <3>1. entry'[e] = NewEntry(k)
        BY <2>1, CleanFacts DEF Inv
      <3> QED
        BY <2>1, <2>2, <3>1, NewEntryFacts DEF Inv, Moves, Created, SameSession
    <2>3. CASE f # e
      <3>1. entry'[f] = CleanEntry[f]
        BY <2>1, <2>3, CleanFacts DEF Inv
      <3> QED
        BY <2>1, <3>1, SweepMoves DEF Inv
    <2> QED
      BY <2>2, <2>3
  <1>6. ASSUME NEW t \in Threads, PublishAttempt(t) PROVE Moves(f)
    <2>1. Builder(t) /\ pc'[t] = "idle"
      BY <1>6 DEF PublishAttempt, Builder, Inv, TypeOK
    <2>2. CASE f = lease[t]
      <3>1. /\ entry[f].phase = "building" /\ entry'[f].phase = "ready"
            /\ entry'[f].confirmed = entry[f].confirmed
            /\ session'[f].state = "PendingConfirm" /\ session'[f].hasAttempt
        BY <1>6, <2>2, PublishFacts DEF Inv
      <3> QED
        BY <2>1, <2>2, <3>1 DEF Moves, Published, Leaves
    <2>3. CASE f # lease[t]
      BY <1>1, <1>6, <2>3, PublishFacts DEF Inv, OthersKeepEntry, OthersKeepSession
    <2> QED
      BY <2>2, <2>3
  <1>7. ASSUME NEW t \in Threads, DiscardSession(t) PROVE Moves(f)
    <2>1. pc[t] = "discard" /\ pc'[t] = "failing" /\ entry' = entry
      BY <1>7 DEF DiscardSession, Inv, TypeOK, cacheVars
    <2>2. CASE f = lease[t]
      <3>1. session'[f].state = "Closed" /\ entry[f].phase = "tombstone"
        BY <1>7, <2>1, <2>2, DiscardFacts DEF Inv, Leases
      <3> QED
        BY <2>1, <2>2, <3>1 DEF Moves, Discarded, SamePhase
    <2>3. CASE f # lease[t]
      BY <1>1, <1>7, <2>1, <2>3, DiscardFacts DEF Inv, OthersKeepSession
    <2> QED
      BY <2>2, <2>3
  <1>8. ASSUME NEW t \in Threads, FailAttempt(t) PROVE Moves(f)
    <2>1. Builder(t) /\ pc'[t] = "idle" /\ session' = session
      BY <1>8 DEF FailAttempt, Builder, Inv, TypeOK
    <2>2. CASE UNCHANGED cacheVars
      BY <1>1, <2>1, <2>2 DEF cacheVars
    <2>3. CASE f # lease[t] /\ OthersKeepEntry(lease[t])
      BY <1>1, <2>1, <2>3 DEF OthersKeepEntry
    <2>4. CASE f = lease[t] /\ entry[f].phase = "building" /\ entry'[f].phase = "failed"
      BY <2>1, <2>4 DEF Moves, Failed, Leaves, SameSession
    <2> QED
      BY <1>8, <2>2, <2>3, <2>4, FailFacts DEF Inv
  <1>9. ASSUME NEW t \in Threads, ReleaseCID(t) PROVE Moves(f)
    <2>1. SameSession(f)
      BY <1>9, ReleaseFacts DEF Inv, SameSession, OthersKeepSession
    <2>2. entry' = entry
      BY <1>9 DEF ReleaseCID, cacheVars
    <2> QED
      BY <2>1, <2>2 DEF Moves, SamePhase
  <1>10. ASSUME NEW t \in Threads, NEW e \in Entries, NEW next \in {"Closed", "Rejected"},
                Closes(t, e, next)
         PROVE  Moves(f)
    <2>1. /\ session'[e].state = next /\ OthersKeepSession(e)
          /\ session[e].state # "none"
          /\ \/ entry[e].phase # "ready" /\ entry' = entry
             \/ /\ entry[e].phase = "ready"
                /\ entry'[e].phase = "tombstone" /\ OthersKeepEntry(e)
      BY <1>10, CloseFacts, TombstoneFacts DEF Closes, Inv, cacheVars
    <2>2. CASE f = e
      BY <2>1, <2>2 DEF Moves, Closed, SamePhase
    <2>3. CASE f # e
      BY <1>1, <2>1, <2>3 DEF OthersKeepSession, OthersKeepEntry
    <2> QED
      BY <2>2, <2>3
  <1>11. ASSUME NEW t \in Threads, NEW e \in Entries, ConfirmPromoted(t, e)
         PROVE  Moves(f)
    <2>1. CASE f = e
      BY <1>11, <2>1, PromoteFacts DEF Inv, Moves, Promoted
    <2>2. CASE f # e
      BY <1>1, <1>11, <2>2, PromoteFacts DEF Inv, OthersKeepEntry, OthersKeepSession
    <2> QED
      BY <2>1, <2>2
  <1>12. ASSUME NEW t \in Threads, NEW e \in Entries, ConfirmGraceOver(t, e)
         PROVE  Moves(f)
    <2>1. /\ entry[e].phase = "ready" /\ entry[e].confirmed /\ session' = session
          /\ entry'[e].phase = "tombstone" /\ OthersKeepEntry(e)
      BY <1>12, TombstoneFacts DEF ConfirmGraceOver, Inv
    <2>2. CASE f = e
      BY <2>1, <2>2 DEF Moves, Retired, SameSession, Active
    <2>3. CASE f # e
      BY <1>1, <2>1, <2>3 DEF OthersKeepEntry
    <2> QED
      BY <2>2, <2>3
  <1> QED
    BY <1>0, <1>2, <1>3, <1>4, <1>5, <1>6, <1>7, <1>8, <1>9, <1>10, <1>11, <1>12
       DEF Kinds
-----------------------------------------------------------------------------
(* Leases.                                                                 *)

Unpublished == {"build", "reserved", "discard"}

\* t goes on building what it was building, or builds no longer.
GoesOn(t) ==
    /\ Builder(t)' => Builder(t) /\ lease'[t] = lease[t]
    /\ pc'[t] \in Unpublished => pc[t] \in Unpublished
    /\ pc'[t] = "discard" => pc[t] = "discard" \/ PublishTooLate(t)

\* Every step lets a builder go on, or makes one.
LEMMA BuilderMoves ==
    ASSUME Inv, [Next]_vars, NEW u \in Threads
    PROVE  GoesOn(u) \/ \E k \in Keys, e \in Entries : Begins(u, k, e)
  <1> USE DEF Unpublished, Builder
  <1>0. Kinds
    BY StepKinds DEF Inv
  <1>1. ASSUME pc'[u] = pc[u], lease'[u] = lease[u] PROVE GoesOn(u)
    BY <1>1 DEF GoesOn
  <1>2. ASSUME pc'[u] \in {"idle", "wait"} PROVE GoesOn(u)
    BY <1>2 DEF GoesOn
  <1>3. CASE Tick \/ UNCHANGED vars
    BY <1>1, <1>3 DEF Tick, vars, threadVars
  <1>4. ASSUME NEW t \in Threads, Local(t) PROVE GoesOn(u)
    <2>1. CASE ResultOfAttempt(t)
      BY <1>1, <1>2, <2>1 DEF ResultOfAttempt, Inv, TypeOK
    <2>2. CASE BuildError(t)
      BY <2>2 DEF BuildError, GoesOn, Inv, TypeOK
    <2>3. ASSUME NEW cid \in CIDs, ReserveServerCID(t, cid) PROVE GoesOn(u)
      BY <2>3 DEF ReserveServerCID, GoesOn, Inv, TypeOK
    <2>4. CASE BuildErrorAfterReserve(t)
      BY <2>4 DEF BuildErrorAfterReserve, GoesOn, Inv, TypeOK
    <2>5. CASE PublishTooLate(t)
      <3>1. lease' = lease /\ pc' = [pc EXCEPT ![t] = "discard"] /\ pc[t] = "reserved"
        BY <2>5 DEF PublishTooLate
      <3>2. CASE u = t
        BY <2>5, <3>1, <3>2 DEF GoesOn
      <3>3. CASE u # t
        BY <1>1, <3>1, <3>3 DEF Inv, TypeOK
      <3> QED
        BY <3>2, <3>3
    <2> QED
      BY <1>4, <2>1, <2>2, <2>3, <2>4, <2>5 DEF Local
  <1>5. ASSUME NEW t \in Threads, Sweeps(t) PROVE GoesOn(u)
    BY <1>1, <1>2, <1>5 DEF Sweeps
  <1>6. ASSUME NEW t \in Threads, NEW k \in Keys, NEW e \in Entries, Begins(t, k, e), t # u
        PROVE  GoesOn(u)
    BY <1>1, <1>6 DEF Begins, AcquireBuilder, Inv, TypeOK
  <1>7. ASSUME NEW t \in Threads, PublishAttempt(t) PROVE GoesOn(u)
    BY <1>1, <1>2, <1>7 DEF PublishAttempt, Inv, TypeOK
  <1>8. ASSUME NEW t \in Threads, FailAttempt(t) PROVE GoesOn(u)
    BY <1>1, <1>2, <1>8 DEF FailAttempt, Inv, TypeOK
  <1>9. ASSUME NEW t \in Threads, DiscardSession(t) PROVE GoesOn(u)
    BY <1>9 DEF DiscardSession, GoesOn, Inv, TypeOK
  <1>10. ASSUME NEW t \in Threads, ReleaseCID(t) PROVE GoesOn(u)
    BY <1>1, <1>10 DEF ReleaseCID
  <1>11. ASSUME NEW t \in Threads, NEW e \in Entries, NEW next \in {"Closed", "Rejected"},
                Closes(t, e, next)
         PROVE  GoesOn(u)
    BY <1>1, <1>11 DEF Closes
  <1>12. ASSUME NEW t \in Threads, NEW e \in Entries,
                ConfirmPromoted(t, e) \/ ConfirmGraceOver(t, e)
         PROVE  GoesOn(u)
    BY <1>1, <1>12 DEF ConfirmPromoted, ConfirmGraceOver, threadVars
  <1> QED
    BY <1>0, <1>3, <1>4, <1>5, <1>6, <1>7, <1>8, <1>9, <1>10, <1>11, <1>12 DEF Kinds

\* What becoming a builder gives t.
LEMMA BeginFacts ==
    ASSUME Inv, NEW t \in Threads, NEW k \in Keys, NEW e \in Entries, Begins(t, k, e)
    PROVE  /\ pc'[t] = "build" /\ lease'[t] = e
           /\ entry[e].phase = "unused" /\ entry'[e].phase = "building"
           /\ session' = session /\ pc[t] = "idle"
           /\ \A u \in Threads : u # t => pc'[u] = pc[u] /\ lease'[u] = lease[u]
  <1>1. entry' = [CleanEntry EXCEPT ![e] = NewEntry(k)]
    BY DEF Begins, AcquireBuilder
  <1>2. entry'[e].phase = "building"
    BY <1>1, CleanFacts, NewEntryFacts DEF Inv
  <1> QED
    BY <1>2 DEF Begins, AcquireBuilder, Idle, Inv, TypeOK

\* What Leases says of one goroutine, after the step.
LeaseAfter(t) ==
    /\ Builder(t)' => /\ lease'[t] \in Entries
                      /\ entry'[lease'[t]].phase \in {"building", "tombstone"}
    /\ pc'[t] \in Unpublished => session'[lease'[t]].state = "none"
    /\ pc'[t] = "discard" => entry'[lease'[t]].phase = "tombstone"

\* A builder that goes on still owns its lease.
LEMMA LeaseKept ==
    ASSUME Inv, [Next]_vars, NEW t \in Threads, GoesOn(t)
    PROVE  LeaseAfter(t)
  <1> SUFFICES ASSUME Builder(t)'
               PROVE  /\ lease'[t] \in Entries
                      /\ entry'[lease'[t]].phase \in {"building", "tombstone"}
                      /\ pc'[t] \in Unpublished => session'[lease'[t]].state = "none"
                      /\ pc'[t] = "discard" => entry'[lease'[t]].phase = "tombstone"
    BY DEF Builder, Unpublished, LeaseAfter
  <1>1. Builder(t) /\ lease'[t] = lease[t]
    BY DEF GoesOn
  <1>2. PICK e \in Entries : e = lease[t]
    BY <1>1 DEF Inv, Leases
  <1>3. entry[e].phase \in {"building", "tombstone"}
    BY <1>1, <1>2 DEF Inv, Leases
  <1>4. Moves(e)
    BY MovesStep
  <1>5. ~\E u \in Threads : Leaves(u, e)
    <2> SUFFICES ASSUME NEW u \in Threads, Leaves(u, e) PROVE FALSE
      OBVIOUS
    <2>1. u = t
      BY <1>1, <1>2 DEF Leaves, Inv, Leases
    <2> QED
      BY <2>1 DEF Leaves, Builder
  <1>6. entry'[e].phase \in {"building", "tombstone"}
        /\ (entry[e].phase = "tombstone" => entry'[e].phase = "tombstone")
    BY <1>3, <1>4, <1>5
       DEF Moves, SamePhase, Retired, Created, Published, Failed, Discarded, Closed,
           Promoted, Active
  <1>7. ASSUME pc'[t] \in Unpublished PROVE session'[e].state = "none"
    <2>1. pc[t] \in Unpublished /\ session[e].state = "none"
      BY <1>2, <1>7 DEF GoesOn, Inv, Leases, Unpublished
    <2>2. ~Discarded(e)
      <3> SUFFICES ASSUME NEW u \in Threads,
                          pc[u] = "discard", lease[u] = e, pc'[u] = "failing"
                   PROVE  FALSE
        BY DEF Discarded
      <3>1. u = t
        BY <1>1, <1>2 DEF Inv, Leases, Builder
      <3> QED
        BY <1>7, <3>1 DEF Unpublished
    <2> QED
      BY <1>4, <1>5, <2>1, <2>2
         DEF Moves, SameSession, Retired, Created, Published, Failed, Closed, Promoted
  <1>8. ASSUME pc'[t] = "discard" PROVE entry[e].phase = "tombstone"
    <2>1. CASE pc[t] = "discard"
      BY <1>2, <2>1 DEF Inv, Leases
    <2>2. CASE PublishTooLate(t)
      BY <1>2, <1>3, <2>2 DEF PublishTooLate, Inv, MapSound, Active, Current
    <2> QED
      BY <1>8, <2>1, <2>2 DEF GoesOn
  <1> QED
    BY <1>1, <1>2, <1>6, <1>7, <1>8

\* Every step keeps the leases apart.
LEMMA LeasesStep ==
    ASSUME Inv, [Next]_vars
    PROVE  Leases'
  <1>1. ASSUME NEW t \in Threads PROVE LeaseAfter(t)
    <2>1. CASE GoesOn(t)
      BY <2>1, LeaseKept
    <2>2. ASSUME NEW k \in Keys, NEW e \in Entries, Begins(t, k, e)
          PROVE  LeaseAfter(t)
      <3>1. /\ pc'[t] = "build" /\ lease'[t] = e /\ entry[e].phase = "unused"
            /\ entry'[e].phase = "building" /\ session' = session
        BY <2>2, BeginFacts
      <3>2. session[e].state = "none"
        BY <3>1 DEF Inv, SessionsAgree
      <3> QED
        BY <3>1, <3>2 DEF LeaseAfter
    <2> QED
      BY <2>1, <2>2, BuilderMoves
  <1>2. ASSUME NEW t \in Threads, NEW u \in Threads, Builder(t)', Builder(u)',
               lease'[t] = lease'[u], t # u
        PROVE  FALSE
    <2>1. ASSUME NEW v \in Threads, NEW w \in Threads, v # w, Builder(w)',
                 lease'[v] = lease'[w],
                 NEW k \in Keys, NEW e \in Entries, Begins(v, k, e)
          PROVE  FALSE
      <3>1. lease'[v] = e /\ entry[e].phase = "unused"
            /\ pc'[w] = pc[w] /\ lease'[w] = lease[w]
        BY <2>1, BeginFacts
      <3>2. Builder(w)
        BY <2>1, <3>1 DEF Builder
      <3>3. entry[lease[w]].phase \in {"building", "tombstone"}
        BY <3>2 DEF Inv, Leases
      <3> QED
        BY <2>1, <3>1, <3>3
    <2>2. GoesOn(t) /\ GoesOn(u)
      BY <1>2, <2>1, BuilderMoves
    <2>3. Builder(t) /\ Builder(u) /\ lease[t] = lease[u]
      BY <1>2, <2>2 DEF GoesOn
    <2> QED
      BY <1>2, <2>3 DEF Inv, Leases
  <1> QED
    BY <1>1, <1>2 DEF Leases, LeaseAfter, Builder, Unpublished

-----------------------------------------------------------------------------
(* Sessions and the lists of sessions to close.                            *)

\* Every step keeps entries and sessions in agreement.
LEMMA SessionsStep ==
    ASSUME Inv, [Next]_vars
    PROVE  SessionsAgree'
  <1> SUFFICES ASSUME NEW e \in Entries
               PROVE  /\ session'[e].state = "none" => session'[e].cid = None
                      /\ session'[e].state \in {"PendingConfirm", "Established"} =>
                            session'[e].hasAttempt
                      /\ entry'[e].phase \in {"unused", "building"} =>
                            ~entry'[e].confirmed /\ session'[e].state = "none"
                      /\ entry'[e].phase = "ready" =>
                            /\ session'[e].state \in {"PendingConfirm", "Established"}
                            /\ entry'[e].confirmed <=> session'[e].state = "Established"
    BY DEF SessionsAgree, Live
  <1>1. Moves(e)
    BY MovesStep
  <1>2. /\ session[e].state = "none" => session[e].cid = None
        /\ session[e].state \in {"PendingConfirm", "Established"} => session[e].hasAttempt
        /\ entry[e].phase \in {"unused", "building"} =>
              ~entry[e].confirmed /\ session[e].state = "none"
        /\ entry[e].phase = "ready" =>
              /\ session[e].state \in {"PendingConfirm", "Established"}
              /\ entry[e].confirmed <=> session[e].state = "Established"
    BY DEF Inv, SessionsAgree, Live
  <1>3. CASE SamePhase(e) /\ SameSession(e)
    BY <1>2, <1>3 DEF SamePhase, SameSession
  <1>4. CASE Retired(e) \/ Failed(e)
    BY <1>2, <1>4 DEF Retired, Failed, SameSession
  <1>5. CASE Created(e)
    BY <1>2, <1>5 DEF Created, SameSession
  <1>6. CASE Published(e)
    BY <1>2, <1>6 DEF Published
  <1>7. CASE Discarded(e)
    BY <1>7 DEF Discarded, SamePhase
  <1>8. CASE Closed(e)
    BY <1>2, <1>8 DEF Closed, SamePhase
  <1>9. CASE Promoted(e)
    BY <1>9 DEF Promoted
  <1> QED
    BY <1>1, <1>3, <1>4, <1>5, <1>6, <1>7, <1>8, <1>9 DEF Moves

\* How the list of a goroutine changes: what a cleanup adds has just expired
\* unconfirmed, and what leaves a list has been closed.
ListMoves(t) ==
    /\ \A e \in expiredSessions'[t] :
          \/ e \in expiredSessions[t]
          \/ /\ entry[e].phase = "ready" /\ ~entry[e].confirmed
             /\ entry'[e].phase = "tombstone" /\ session' = session
    /\ \A e \in expiredSessions[t] :
          e \in expiredSessions'[t] \/ session'[e].state \in {"Closed", "Rejected"}

\* A cleanup fills an empty list.
LEMMA SweepList ==
    ASSUME TypeOK, NEW t \in Threads, Idle(t), session' = session,
           \A e \in Expired : entry[e].phase = "ready" => entry'[e].phase = "tombstone",
           expiredSessions' = [expiredSessions EXCEPT ![t] = Unconfirmed(Expired)],
           NEW u \in Threads
    PROVE  ListMoves(u)
  <1>1. CASE u = t
    <2>1. expiredSessions[t] = {} /\ expiredSessions'[t] = Unconfirmed(Expired)
      BY DEF Idle, Ready, TypeOK
    <2> QED
      BY <1>1, <2>1 DEF ListMoves, Unconfirmed
  <1>2. CASE u # t
    BY <1>2 DEF ListMoves, TypeOK
  <1> QED
    BY <1>1, <1>2

\* Every step changes the lists like this.
LEMMA ListStep ==
    ASSUME Inv, [Next]_vars, NEW u \in Threads
    PROVE  ListMoves(u)
  <1>0. Kinds
    BY StepKinds DEF Inv
  <1>1. ASSUME expiredSessions' = expiredSessions PROVE ListMoves(u)
    BY <1>1 DEF ListMoves
  <1>2. ASSUME NEW t \in Threads, Sweeps(t) PROVE ListMoves(u)
    BY <1>2, CleanFacts, SweepList DEF Sweeps, Inv
  <1>3. ASSUME NEW t \in Threads, NEW k \in Keys, NEW e \in Entries, Begins(t, k, e)
        PROVE  ListMoves(u)
    <2>1. \A f \in Expired : entry[f].phase = "ready" => entry'[f].phase = "tombstone"
      <3> SUFFICES ASSUME NEW f \in Expired, entry[f].phase = "ready"
                   PROVE  entry'[f].phase = "tombstone"
        OBVIOUS
      <3>1. f \in Entries /\ f # e /\ CleanEntry[f].phase = "tombstone"
        BY <1>3, CleanFacts, BeginFacts DEF Inv, Expired
      <3> QED
        BY <1>3, <3>1, CleanFacts DEF Begins, AcquireBuilder, Inv
    <2> QED
      BY <1>3, <2>1, SweepList DEF Begins, Inv
  <1>4. ASSUME NEW t \in Threads, NEW e \in Entries, NEW next \in {"Closed", "Rejected"},
               Closes(t, e, next)
        PROVE  ListMoves(u)
    <2>1. session'[e].state = next
      BY <1>4, CloseFacts DEF Closes, Inv
    <2>2. CASE expiredSessions' = [expiredSessions EXCEPT ![t] = @ \ {e}]
      BY <2>1, <2>2 DEF ListMoves, Inv, TypeOK
    <2> QED
      BY <1>1, <1>4, <2>2 DEF Closes
  <1>5. ASSUME NEW t \in Threads, Local(t) PROVE ListMoves(u)
    BY <1>1, <1>5, LocalFacts DEF LocalEffect, Inv
  <1> QED
    BY <1>0, <1>1, <1>2, <1>3, <1>4, <1>5
       DEF Kinds, Tick, vars, threadVars, PublishAttempt, DiscardSession, FailAttempt,
           ReleaseCID, ConfirmPromoted, ConfirmGraceOver

\* Every step keeps the sessions on the lists doomed.
LEMMA DoomedStep ==
    ASSUME Inv, [Next]_vars
    PROVE  Doomed'
  <1> SUFFICES ASSUME NEW t \in Threads, NEW e \in expiredSessions'[t]
               PROVE  /\ entry'[e].phase = "tombstone"
                      /\ session'[e].state \notin {"none", "Established"}
    BY DEF Doomed
  <1>0. ListMoves(t)
    BY ListStep
  <1>1. CASE e \in expiredSessions[t]
    <2>1. /\ e \in Entries /\ entry[e].phase = "tombstone"
          /\ session[e].state \notin {"none", "Established"}
      BY <1>1 DEF Inv, Doomed, TypeOK
    <2>2. Moves(e)
      BY <2>1, MovesStep
    <2> QED
      BY <2>1, <2>2
         DEF Moves, SamePhase, SameSession, Retired, Created, Published, Failed,
             Discarded, Closed, Promoted, Active
  <1>2. CASE /\ entry[e].phase = "ready" /\ ~entry[e].confirmed
             /\ entry'[e].phase = "tombstone" /\ session' = session
    <2>1. e \in Entries
      <3>1. TypeOK'
        BY TypeStep
      <3> QED
        BY <3>1 DEF TypeOK
    <2> QED
      BY <1>2, <2>1 DEF Inv, SessionsAgree, Live
  <1> QED
    BY <1>0, <1>1, <1>2 DEF ListMoves

\* Every step leaves a session that waits for its CONFIRM where it is found.
LEMMA StrandedStep ==
    ASSUME Inv, [Next]_vars
    PROVE  NotStranded'
  <1> SUFFICES ASSUME NEW e \in Entries, session'[e].state = "PendingConfirm",
                      entry'[e].phase # "ready"
               PROVE  \E t \in Threads : e \in expiredSessions'[t]
    BY DEF NotStranded
  <1>1. Moves(e)
    BY MovesStep
  <1>2. CASE entry[e].phase = "ready"
    <2>1. Retired(e)
      BY <1>1, <1>2
         DEF Moves, SamePhase, Created, Published, Failed, Discarded, Closed, Promoted
    <2>2. ~entry[e].confirmed
      BY <1>2, <2>1 DEF Retired, SameSession, Inv, SessionsAgree
    <2> QED
      BY <1>2, <2>1, <2>2 DEF Retired
  <1>3. CASE entry[e].phase # "ready"
    <2>1. session[e].state = "PendingConfirm"
      BY <1>1, <1>3
         DEF Moves, SamePhase, SameSession, Retired, Created, Published, Failed,
             Discarded, Closed, Promoted
    <2>2. PICK t \in Threads : e \in expiredSessions[t]
      BY <1>3, <2>1 DEF Inv, NotStranded
    <2>3. ListMoves(t)
      BY ListStep
    <2> QED
      BY <2>2, <2>3 DEF ListMoves
  <1> QED
    BY <1>2, <1>3
-----------------------------------------------------------------------------
(* Connection IDs.                                                         *)

\* HoldsCID, after the step, and the places where a builder holds one.
HoldsAfter(e, cid) == session'[e].cid = cid /\ ~session'[e].closedCID
Holding == {"reserved", "discard"}

\* CIDsHeld, after the step.
CIDsHeldAfter ==
    /\ \A t \in Threads : serverCID'[t] # None => pc'[t] \in Holding
    /\ \A t \in Threads : pc'[t] \in Holding => serverCID'[t] # None
    /\ \A t, u \in Threads : serverCID'[t] # None /\ serverCID'[t] = serverCID'[u] => t = u
    /\ \A cid \in CIDs :
          /\ \A e, f \in Entries : HoldsAfter(e, cid) /\ HoldsAfter(f, cid) => e = f
          /\ \A t \in Threads, e \in Entries :
                ~(serverCID'[t] = cid /\ HoldsAfter(e, cid))
          /\ cid \in activeCIDs' <=>
                \/ \E t \in Threads : serverCID'[t] = cid
                \/ \E e \in Entries : HoldsAfter(e, cid)

\* It is.
LEMMA CIDsHeldPrimed ==
    ASSUME CIDsHeldAfter
    PROVE  CIDsHeld'
  BY DEF CIDsHeld, CIDsHeldAfter, HoldsCID, HoldsAfter, Holding

\* Nothing about CIDs changes.
LEMMA CIDsKept ==
    ASSUME CIDsHeld, serverCID' = serverCID, activeCIDs' = activeCIDs,
           \A e \in Entries, cid \in CIDs : HoldsAfter(e, cid) <=> HoldsCID(e, cid),
           \A t \in Threads : pc'[t] \in Holding <=> pc[t] \in Holding
    PROVE  CIDsHeldAfter
  BY DEF CIDsHeld, CIDsHeldAfter, Holding

\* A builder reserves a CID that is free.
LEMMA CIDReserved ==
    ASSUME Inv, NEW t \in Threads, NEW c \in CIDs, ReserveServerCID(t, c)
    PROVE  CIDsHeldAfter
  <1>1. /\ pc'[t] = "reserved" /\ serverCID'[t] = c
        /\ \A u \in Threads : u # t => pc'[u] = pc[u] /\ serverCID'[u] = serverCID[u]
        /\ activeCIDs' = activeCIDs \cup {c} /\ c \notin activeCIDs
        /\ \A e, cid : HoldsAfter(e, cid) <=> HoldsCID(e, cid)
    BY DEF ReserveServerCID, Inv, TypeOK, HoldsAfter, HoldsCID
  <1>2. c # None /\ serverCID[t] = None
    BY NoneAssumption DEF ReserveServerCID, Inv, CIDsHeld
  <1>3. /\ \A u \in Threads : serverCID[u] # c
        /\ \A e \in Entries : ~HoldsCID(e, c)
    BY <1>1 DEF Inv, CIDsHeld
  <1>4. \A u \in Threads : (serverCID'[u] # None <=> pc'[u] \in Holding)
    BY <1>1, <1>2 DEF Inv, CIDsHeld, Holding
  <1>5. \A u, v \in Threads : serverCID'[u] # None /\ serverCID'[u] = serverCID'[v] => u = v
    BY <1>1, <1>3 DEF Inv, CIDsHeld
  <1>6. ASSUME NEW cid \in CIDs
        PROVE  /\ \A e, f \in Entries : HoldsAfter(e, cid) /\ HoldsAfter(f, cid) => e = f
               /\ \A u \in Threads, e \in Entries :
                     ~(serverCID'[u] = cid /\ HoldsAfter(e, cid))
               /\ cid \in activeCIDs' <=>
                     \/ \E u \in Threads : serverCID'[u] = cid
                     \/ \E e \in Entries : HoldsAfter(e, cid)
    <2>1. \A e, f \in Entries : HoldsAfter(e, cid) /\ HoldsAfter(f, cid) => e = f
      BY <1>1 DEF Inv, CIDsHeld
    <2>2. \A u \in Threads, e \in Entries : ~(serverCID'[u] = cid /\ HoldsAfter(e, cid))
      BY <1>1, <1>3 DEF Inv, CIDsHeld
    <2>3. (\E u \in Threads : serverCID'[u] = cid) <=>
             cid = c \/ \E u \in Threads : serverCID[u] = cid
      BY <1>1, <1>2, NoneAssumption
    <2> QED
      BY <1>1, <2>1, <2>2, <2>3 DEF Inv, CIDsHeld
  <1> QED
    BY <1>4, <1>5, <1>6 DEF CIDsHeldAfter

\* A builder gives its CID back, without having passed it on.
LEMMA CIDReturned ==
    ASSUME Inv, NEW t \in Threads, pc[t] \in Holding,
           pc'[t] \notin Holding, serverCID'[t] = None,
           \A u \in Threads : u # t => pc'[u] = pc[u] /\ serverCID'[u] = serverCID[u],
           activeCIDs' = activeCIDs \ {serverCID[t]},
           \A e \in Entries, cid \in CIDs : HoldsAfter(e, cid) <=> HoldsCID(e, cid)
    PROVE  CIDsHeldAfter
  <1>1. serverCID[t] # None /\ serverCID[t] \in CIDs
    BY DEF Inv, CIDsHeld, TypeOK, Holding
  <1>2. /\ \A u \in Threads : u # t => serverCID[u] # serverCID[t]
        /\ \A e \in Entries : ~HoldsCID(e, serverCID[t])
    BY <1>1 DEF Inv, CIDsHeld
  <1>3. \A u \in Threads : (serverCID'[u] # None <=> pc'[u] \in Holding)
    BY DEF Inv, CIDsHeld, Holding
  <1>4. \A u, v \in Threads : serverCID'[u] # None /\ serverCID'[u] = serverCID'[v] => u = v
    BY DEF Inv, CIDsHeld
  <1>5. ASSUME NEW cid \in CIDs
        PROVE  /\ \A e, f \in Entries : HoldsAfter(e, cid) /\ HoldsAfter(f, cid) => e = f
               /\ \A u \in Threads, e \in Entries :
                     ~(serverCID'[u] = cid /\ HoldsAfter(e, cid))
               /\ cid \in activeCIDs' <=>
                     \/ \E u \in Threads : serverCID'[u] = cid
                     \/ \E e \in Entries : HoldsAfter(e, cid)
    <2>0. cid # None
      BY NoneAssumption
    <2>1. \A e, f \in Entries : HoldsAfter(e, cid) /\ HoldsAfter(f, cid) => e = f
      BY DEF Inv, CIDsHeld
    <2>2. \A u \in Threads, e \in Entries : ~(serverCID'[u] = cid /\ HoldsAfter(e, cid))
      BY <2>0 DEF Inv, CIDsHeld
    <2>3. (\E u \in Threads : serverCID'[u] = cid) <=>
             cid # serverCID[t] /\ \E u \in Threads : serverCID[u] = cid
      BY <1>2, <2>0
    <2>4. (\E e \in Entries : HoldsAfter(e, cid)) <=> \E e \in Entries : HoldsCID(e, cid)
      OBVIOUS
    <2>5. cid \in activeCIDs <=> \/ \E u \in Threads : serverCID[u] = cid
                                 \/ \E e \in Entries : HoldsCID(e, cid)
      BY DEF Inv, CIDsHeld
    <2>6. cid = serverCID[t] => ~\E e \in Entries : HoldsCID(e, cid)
      BY <1>2
    <2> QED
      BY <2>1, <2>2, <2>3, <2>4, <2>5, <2>6
  <1> QED
    BY <1>3, <1>4, <1>5 DEF CIDsHeldAfter

\* A builder passes its CID to the session it publishes.
LEMMA CIDPublished ==
    ASSUME Inv, NEW t \in Threads, PublishAttempt(t)
    PROVE  CIDsHeldAfter
  <1>1. PICK p \in Entries : p = lease[t]
    BY PublishFacts DEF Inv
  <1>2. /\ pc'[t] = "idle" /\ serverCID'[t] = None /\ pc[t] = "reserved"
        /\ \A u \in Threads : u # t => pc'[u] = pc[u] /\ serverCID'[u] = serverCID[u]
        /\ activeCIDs' = activeCIDs
    BY DEF PublishAttempt, Inv, TypeOK
  <1>3. /\ session'[p].cid = serverCID[t] /\ ~session'[p].closedCID
        /\ OthersKeepSession(p)
    BY <1>1, PublishFacts DEF Inv
  <1>4. serverCID[t] # None /\ serverCID[t] \in CIDs
    BY <1>2 DEF Inv, CIDsHeld, TypeOK
  <1>5. session[p].cid = None
    BY <1>1, <1>2 DEF Inv, Leases, SessionsAgree
  <1>6. \A e \in Entries, cid \in CIDs :
           /\ HoldsAfter(e, cid) <=> (e = p /\ cid = serverCID[t]) \/ HoldsCID(e, cid)
           /\ ~HoldsCID(p, cid)
    BY <1>3, <1>5, NoneAssumption DEF HoldsAfter, HoldsCID, OthersKeepSession
  <1>7. /\ \A u \in Threads : u # t => serverCID[u] # serverCID[t]
        /\ \A e \in Entries : ~HoldsCID(e, serverCID[t])
    BY <1>4 DEF Inv, CIDsHeld
  <1>8. \A u \in Threads : (serverCID'[u] # None <=> pc'[u] \in Holding)
    BY <1>2 DEF Inv, CIDsHeld, Holding
  <1>9. \A u, v \in Threads : serverCID'[u] # None /\ serverCID'[u] = serverCID'[v] => u = v
    BY <1>2 DEF Inv, CIDsHeld
  <1>10. ASSUME NEW cid \in CIDs
         PROVE  /\ \A e, f \in Entries : HoldsAfter(e, cid) /\ HoldsAfter(f, cid) => e = f
                /\ \A u \in Threads, e \in Entries :
                      ~(serverCID'[u] = cid /\ HoldsAfter(e, cid))
                /\ cid \in activeCIDs' <=>
                      \/ \E u \in Threads : serverCID'[u] = cid
                      \/ \E e \in Entries : HoldsAfter(e, cid)
    <2>0. cid # None
      BY NoneAssumption
    <2>1. \A e, f \in Entries : HoldsAfter(e, cid) /\ HoldsAfter(f, cid) => e = f
      BY <1>6, <1>7 DEF Inv, CIDsHeld
    <2>2. \A u \in Threads, e \in Entries : ~(serverCID'[u] = cid /\ HoldsAfter(e, cid))
      BY <1>2, <1>6, <1>7, <2>0 DEF Inv, CIDsHeld
    <2>3. (\E u \in Threads : serverCID'[u] = cid) <=>
             cid # serverCID[t] /\ \E u \in Threads : serverCID[u] = cid
      BY <1>2, <1>7, <2>0
    <2>4. (\E e \in Entries : HoldsAfter(e, cid)) <=>
             cid = serverCID[t] \/ \E e \in Entries : HoldsCID(e, cid)
      BY <1>6
    <2>5. cid \in activeCIDs <=> \/ \E u \in Threads : serverCID[u] = cid
                                 \/ \E e \in Entries : HoldsCID(e, cid)
      BY DEF Inv, CIDsHeld
    <2> QED
      BY <1>2, <2>1, <2>2, <2>3, <2>4, <2>5
  <1> QED
    BY <1>8, <1>9, <1>10 DEF CIDsHeldAfter

\* A closed session releases its CID, if it still holds it.
LEMMA CIDReleased ==
    ASSUME Inv, NEW t \in Threads, ReleaseCID(t)
    PROVE  CIDsHeldAfter
  <1>1. PICK p \in Entries : p = closing[t]
    BY ReleaseFacts DEF Inv
  <1>2. /\ session'[p].closedCID /\ OthersKeepSession(p)
        /\ UNCHANGED <<pc, serverCID>>
        /\ activeCIDs' = IF session[p].closedCID THEN activeCIDs
                         ELSE activeCIDs \ {session[p].cid}
    BY <1>1, ReleaseFacts DEF ReleaseCID, Inv
  <1>3. \A e \in Entries, cid \in CIDs :
           HoldsAfter(e, cid) <=> e # p /\ HoldsCID(e, cid)
    BY <1>2 DEF HoldsAfter, HoldsCID, OthersKeepSession
  <1>4. ASSUME NEW cid \in CIDs
        PROVE  cid \in activeCIDs' <=>
                  \/ \E u \in Threads : serverCID'[u] = cid
                  \/ \E e \in Entries : HoldsAfter(e, cid)
    <2>1. cid \in activeCIDs <=> \/ \E u \in Threads : serverCID[u] = cid
                                 \/ \E e \in Entries : HoldsCID(e, cid)
      BY DEF Inv, CIDsHeld
    <2>2. CASE HoldsCID(p, cid)
      <3>1. cid \notin activeCIDs'
        BY <1>2, <2>2 DEF HoldsCID
      <3>2. \A u \in Threads : serverCID'[u] # cid
        BY <1>2, <2>2 DEF Inv, CIDsHeld
      <3>3. \A e \in Entries : ~HoldsAfter(e, cid)
        BY <1>3, <2>2 DEF Inv, CIDsHeld
      <3> QED
        BY <3>1, <3>2, <3>3
    <2>3. CASE ~HoldsCID(p, cid)
      <3>1. cid \in activeCIDs' <=> cid \in activeCIDs
        BY <1>2, <2>3 DEF HoldsCID
      <3>2. \A e \in Entries : HoldsAfter(e, cid) <=> HoldsCID(e, cid)
        BY <1>3, <2>3
      <3> QED
        BY <1>2, <2>1, <3>1, <3>2
    <2> QED
      BY <2>2, <2>3
  <1> QED
    BY <1>2, <1>3, <1>4 DEF Inv, CIDsHeld, CIDsHeldAfter, Holding

\* Every step keeps the CIDs held.
LEMMA CIDsStep ==
    ASSUME Inv, [Next]_vars
    PROVE  CIDsHeld'
  <1> SUFFICES CIDsHeldAfter
    BY CIDsHeldPrimed
  <1>0. Kinds
    BY StepKinds DEF Inv
  <1>1. ASSUME UNCHANGED <<serverCID, activeCIDs, session>>,
               \A t \in Threads : pc'[t] \in Holding <=> pc[t] \in Holding
        PROVE  CIDsHeldAfter
    BY <1>1, CIDsKept DEF Inv, HoldsAfter, HoldsCID
  <1>2. CASE Tick \/ UNCHANGED vars
    BY <1>1, <1>2 DEF Tick, vars, threadVars
  <1>3. ASSUME NEW t \in Threads, Local(t) PROVE CIDsHeldAfter
    <2>1. CASE ResultOfAttempt(t) \/ BuildError(t) \/ PublishTooLate(t)
      BY <1>1, <2>1 DEF ResultOfAttempt, BuildError, PublishTooLate, Inv, TypeOK, Holding
    <2>2. CASE BuildErrorAfterReserve(t)
      <3>1. /\ pc[t] \in Holding /\ pc'[t] \notin Holding /\ serverCID'[t] = None
            /\ \A u \in Threads : u # t => pc'[u] = pc[u] /\ serverCID'[u] = serverCID[u]
            /\ activeCIDs' = activeCIDs \ {serverCID[t]}
            /\ session' = session
        BY <2>2 DEF BuildErrorAfterReserve, Inv, TypeOK, Holding
      <3> QED
        BY <3>1, CIDReturned DEF HoldsAfter, HoldsCID
    <2> QED
      BY <1>3, <2>1, <2>2, CIDReserved DEF Local
  <1>4. ASSUME NEW t \in Threads, Sweeps(t) PROVE CIDsHeldAfter
    BY <1>1, <1>4 DEF Sweeps, Idle, Holding
  <1>5. ASSUME NEW t \in Threads, NEW k \in Keys, NEW e \in Entries, Begins(t, k, e)
        PROVE  CIDsHeldAfter
    BY <1>1, <1>5, BeginFacts DEF Begins, Holding
  <1>6. ASSUME NEW t \in Threads, DiscardSession(t) PROVE CIDsHeldAfter
    <2>1. /\ pc[t] \in Holding /\ pc'[t] \notin Holding /\ serverCID'[t] = None
          /\ \A u \in Threads : u # t => pc'[u] = pc[u] /\ serverCID'[u] = serverCID[u]
          /\ activeCIDs' = activeCIDs \ {serverCID[t]}
      BY <1>6 DEF DiscardSession, Inv, TypeOK, Holding
    <2>2. PICK p \in Entries : p = lease[t]
      BY <1>6, DiscardFacts DEF Inv
    <2>3. session'[p].closedCID /\ OthersKeepSession(p) /\ session[p].cid = None
      BY <1>6, <2>2, DiscardFacts DEF Inv, Leases, SessionsAgree, DiscardSession
    <2>4. \A e \in Entries, cid \in CIDs : HoldsAfter(e, cid) <=> HoldsCID(e, cid)
      BY <2>3, NoneAssumption DEF HoldsAfter, HoldsCID, OthersKeepSession
    <2> QED
      BY <2>1, <2>4, CIDReturned
  <1>7. ASSUME NEW t \in Threads, FailAttempt(t) PROVE CIDsHeldAfter
    BY <1>1, <1>7 DEF FailAttempt, Inv, TypeOK, Holding
  <1>8. ASSUME NEW t \in Threads, NEW e \in Entries, NEW next \in {"Closed", "Rejected"},
               Closes(t, e, next)
        PROVE  CIDsHeldAfter
    <2>1. /\ session'[e].cid = session[e].cid
          /\ session'[e].closedCID = session[e].closedCID
          /\ OthersKeepSession(e)
      BY <1>8, CloseFacts DEF Closes, Inv
    <2>2. \A f \in Entries, cid \in CIDs : HoldsAfter(f, cid) <=> HoldsCID(f, cid)
      BY <2>1 DEF HoldsAfter, HoldsCID, OthersKeepSession
    <2> QED
      BY <1>8, <2>2, CIDsKept DEF Closes, Inv
  <1>9. ASSUME NEW t \in Threads, NEW e \in Entries, ConfirmPromoted(t, e)
        PROVE  CIDsHeldAfter
    <2>1. /\ session'[e].cid = session[e].cid
          /\ session'[e].closedCID = session[e].closedCID
          /\ OthersKeepSession(e)
      BY <1>9, PromoteFacts DEF Inv
    <2>2. \A f \in Entries, cid \in CIDs : HoldsAfter(f, cid) <=> HoldsCID(f, cid)
      BY <2>1 DEF HoldsAfter, HoldsCID, OthersKeepSession
    <2> QED
      BY <1>9, <2>2, CIDsKept DEF ConfirmPromoted, threadVars, Inv
  <1>10. ASSUME NEW t \in Threads, NEW e \in Entries, ConfirmGraceOver(t, e)
         PROVE  CIDsHeldAfter
    BY <1>1, <1>10 DEF ConfirmGraceOver, threadVars
  <1> QED
    BY <1>0, <1>2, <1>3, <1>4, <1>5, <1>6, <1>7, <1>8, <1>9, <1>10,
       CIDPublished, CIDReleased
       DEF Kinds
-----------------------------------------------------------------------------
(* The counter.                                                            *)

ProgressAfter == {e \in Entries : entry'[e].phase \in {"building", "ready"}}
RecordsAfter == {k \in Keys : attempts'[k] # None}

\* Attempts that are no longer in progress are subtracted once each.
LEMMA Subtracted ==
    ASSUME Inv, NEW S \in SUBSET InProgress
    PROVE  /\ IsFiniteSet(InProgress \ S)
           /\ Cardinality(S) \in Nat /\ Cardinality(InProgress \ S) \in Nat
           /\ Cardinality(InProgress \ S) = activeAttempts - Cardinality(S)
  <1>1. IsFiniteSet(InProgress) /\ activeAttempts = Cardinality(InProgress)
    BY DEF Inv, Counted
  <1>2. IsFiniteSet(S)
    BY <1>1, FS_Subset
  <1>3. Cardinality(S) \in Nat
    BY <1>2, FS_CardinalityType
  <1>4. /\ IsFiniteSet(InProgress \ S)
        /\ Cardinality(InProgress \ S) = Cardinality(InProgress) - Cardinality(InProgress \cap S)
    BY <1>1, FS_Difference
  <1>5. Cardinality(InProgress \ S) \in Nat
    BY <1>4, FS_CardinalityType
  <1>6. InProgress \cap S = S
    OBVIOUS
  <1> QED
    BY <1>1, <1>3, <1>4, <1>5, <1>6

\* Attempts leave the set of those in progress, records leave the map.
LEMMA CountedFewer ==
    ASSUME Inv, NEW S \in SUBSET InProgress,
           ProgressAfter = InProgress \ S,
           activeAttempts' = activeAttempts - Cardinality(S),
           RecordsAfter \subseteq Records
    PROVE  Counted'
  <1>1. /\ IsFiniteSet(ProgressAfter) /\ activeAttempts' = Cardinality(ProgressAfter)
        /\ activeAttempts' <= maxPendingAttempts
    <2>1. Cardinality(S) \in Nat /\ activeAttempts <= maxPendingAttempts
          /\ activeAttempts \in Int
      BY Subtracted DEF Inv, Counted, TypeOK
    <2> QED
      BY <2>1, Subtracted, LimitAssumption
  <1>2. IsFiniteSet(Records) /\ Cardinality(Records) <= maxAttemptRecords
    BY DEF Inv, Counted
  <1>3. IsFiniteSet(RecordsAfter) /\ Cardinality(RecordsAfter) <= Cardinality(Records)
    BY <1>2, FS_Subset
  <1>4. Cardinality(RecordsAfter) \in Nat /\ Cardinality(Records) \in Nat
    BY <1>2, <1>3, FS_CardinalityType
  <1>5. Cardinality(RecordsAfter) <= maxAttemptRecords
    BY <1>2, <1>3, <1>4, LimitAssumption
  <1>6. InProgress' = ProgressAfter /\ Records' = RecordsAfter
    BY DEF InProgress, Active, ProgressAfter, Records, RecordsAfter
  <1> QED
    BY <1>1, <1>3, <1>5, <1>6 DEF Counted

\* One attempt leaves.
LEMMA CountedOneLess ==
    ASSUME Inv, NEW e \in InProgress, entry'[e].phase \notin {"building", "ready"},
           OthersKeepEntry(e), activeAttempts' = activeAttempts - 1,
           RecordsAfter \subseteq Records
    PROVE  Counted'
  <1>1. ProgressAfter = InProgress \ {e}
    BY DEF ProgressAfter, InProgress, Active, OthersKeepEntry
  <1>2. Cardinality({e}) = 1
    BY FS_Singleton
  <1> QED
    BY <1>1, <1>2, CountedFewer

\* Nobody leaves.
LEMMA CountedKept ==
    ASSUME Inv, attempts' = attempts, activeAttempts' = activeAttempts,
           \A e \in Entries : entry'[e].phase \in {"building", "ready"} <=> Active(e)
    PROVE  Counted'
  <1>1. ProgressAfter = InProgress \ {} /\ RecordsAfter \subseteq Records
    BY DEF ProgressAfter, InProgress, RecordsAfter, Records
  <1>2. activeAttempts' = activeAttempts - Cardinality({})
    BY FS_EmptySet DEF Inv, TypeOK
  <1> QED
    BY <1>1, <1>2, CountedFewer

\* A cleanup, before anything is added.
LEMMA CleanCounts ==
    ASSUME Inv
    PROVE  /\ IsFiniteSet(InProgress \ Expired)
           /\ CleanActive = Cardinality(InProgress \ Expired) /\ CleanActive \in Nat
           /\ {k \in Keys : CleanAttempts[k] # None} \subseteq Records
  <1>1. Expired \in SUBSET InProgress
    BY CleanFacts DEF Inv
  <1>2. {k \in Keys : CleanAttempts[k] # None} \subseteq Records
    BY CleanFacts DEF Inv, Records
  <1> QED
    BY <1>1, <1>2, Subtracted DEF CleanActive

\* A new attempt is counted, and there was room for it: acquireAttempt tests
\* both limits after its cleanup.
LEMMA CountedBegun ==
    ASSUME Inv, NEW t \in Threads, NEW k \in Keys, NEW e \in Entries, Begins(t, k, e)
    PROVE  Counted'
  <1> DEFINE P == InProgress \ Expired
  <1> DEFINE R == {j \in Keys : CleanAttempts[j] # None}
  <1>1. /\ entry' = [CleanEntry EXCEPT ![e] = NewEntry(k)]
        /\ attempts' = [CleanAttempts EXCEPT ![k] = e]
        /\ activeAttempts' = CleanActive + 1
        /\ entry[e].phase = "unused" /\ ~AtCapacity
    BY DEF Begins, AcquireBuilder
  <1>2. /\ entry'[e].phase = "building"
        /\ \A f \in Entries : f # e => entry'[f] = CleanEntry[f]
    BY <1>1, CleanFacts, NewEntryFacts DEF Inv
  <1>3. e \notin P /\ InProgress' = P \cup {e}
    <2>1. e \notin InProgress
      BY <1>1 DEF InProgress, Active
    <2>2. \A f \in Entries : f # e =>
             (entry'[f].phase \in {"building", "ready"} <=> f \in P)
      BY <1>2, CleanFacts DEF Inv, InProgress, Active
    <2> QED
      BY <1>2, <2>1, <2>2 DEF InProgress, Active
  <1>4. IsFiniteSet(P) /\ CleanActive = Cardinality(P) /\ CleanActive \in Nat /\ R \subseteq Records
    BY CleanCounts
  <1>5. IsFiniteSet(P \cup {e}) /\ Cardinality(P \cup {e}) = Cardinality(P) + 1
    BY <1>3, <1>4, FS_AddElement
  <1>6. IsFiniteSet(Records)
    BY DEF Inv, Counted
  <1>7. IsFiniteSet(R)
    BY <1>4, <1>6, FS_Subset
  <1>8. Cardinality(R) \in Nat
    BY <1>7, FS_CardinalityType
  <1>9. CleanActive < maxPendingAttempts /\ Cardinality(R) < maxAttemptRecords
    BY <1>1, <1>4, <1>8, LimitAssumption DEF AtCapacity
  <1>10. Records' \subseteq R \cup {k}
    BY <1>1, CleanFacts DEF Inv, Records
  <1>11. /\ IsFiniteSet(R \cup {k}) /\ Cardinality(R \cup {k}) \in Nat
         /\ Cardinality(R \cup {k}) <= maxAttemptRecords
    <2>1. /\ IsFiniteSet(R \cup {k})
          /\ Cardinality(R \cup {k}) = IF k \in R THEN Cardinality(R) ELSE Cardinality(R) + 1
      BY <1>7, FS_AddElement
    <2> QED
      BY <1>8, <1>9, <2>1, LimitAssumption
  <1>12. IsFiniteSet(Records') /\ Cardinality(Records') <= Cardinality(R \cup {k})
    BY <1>10, <1>11, FS_Subset
  <1>13. Cardinality(Records') \in Nat
    BY <1>12, FS_CardinalityType
  <1> HIDE DEF P, R
  <1>14. activeAttempts' = Cardinality(P) + 1 /\ activeAttempts' <= maxPendingAttempts
    BY <1>1, <1>4, <1>9, LimitAssumption
  <1>15. Cardinality(Records') <= maxAttemptRecords
    BY <1>11, <1>12, <1>13, LimitAssumption
  <1> QED
    BY <1>3, <1>5, <1>12, <1>14, <1>15 DEF Counted

\* Every step keeps the count.
LEMMA CountedStep ==
    ASSUME Inv, [Next]_vars
    PROVE  Counted'
  <1>0. Kinds
    BY StepKinds DEF Inv
  <1>1. ASSUME UNCHANGED cacheVars PROVE Counted'
    BY <1>1, CountedKept DEF cacheVars, Active
  <1>2. ASSUME NEW t \in Threads, Local(t) PROVE Counted'
    BY <1>1, <1>2, LocalFacts DEF LocalEffect, Inv
  <1>3. ASSUME NEW t \in Threads, Sweeps(t) PROVE Counted'
    <2>1. Expired \in SUBSET InProgress
      BY CleanFacts DEF Inv
    <2>2. ProgressAfter = InProgress \ Expired
      BY <1>3, CleanFacts DEF Sweeps, Inv, ProgressAfter, InProgress, Active
    <2>3. RecordsAfter \subseteq Records
      BY <1>3, CleanCounts DEF Sweeps, RecordsAfter
    <2>4. activeAttempts' = activeAttempts - Cardinality(Expired)
      BY <1>3 DEF Sweeps, CleanActive
    <2> QED
      BY <2>1, <2>2, <2>3, <2>4, CountedFewer
  <1>4. ASSUME NEW t \in Threads, PublishAttempt(t) PROVE Counted'
    <2>1. PICK e \in Entries : e = lease[t]
      BY <1>4, PublishFacts DEF Inv
    <2>2. /\ Active(e) /\ entry'[e].phase = "ready" /\ OthersKeepEntry(e)
          /\ attempts' = attempts /\ activeAttempts' = activeAttempts
      BY <1>4, <2>1, PublishFacts DEF Inv, Active, PublishAttempt
    <2> QED
      BY <2>2, CountedKept DEF OthersKeepEntry, Active
  <1>5. ASSUME NEW t \in Threads, FailAttempt(t) PROVE Counted'
    <2>1. PICK e \in Entries : e = lease[t]
      BY <1>5, FailFacts DEF Inv
    <2>2. CASE UNCHANGED cacheVars
      BY <1>1, <2>2
    <2>3. CASE /\ entry[e].phase = "building" /\ entry[e].key \in Keys
               /\ entry'[e].phase = "failed" /\ OthersKeepEntry(e)
               /\ attempts' = [attempts EXCEPT ![entry[e].key] = None]
               /\ activeAttempts' = activeAttempts - 1
      <3>1. RecordsAfter \subseteq Records
        BY <2>3 DEF RecordsAfter, Records, Inv, TypeOK
      <3>2. e \in InProgress
        BY <2>3 DEF InProgress, Active
      <3> QED
        BY <2>3, <3>1, <3>2, CountedOneLess
    <2> QED
      BY <1>5, <2>1, <2>2, <2>3, FailFacts DEF Inv
  <1>6. ASSUME NEW e \in Entries, Tombstone(e), Active(e) PROVE Counted'
    <2>1. /\ entry'[e].phase = "tombstone" /\ OthersKeepEntry(e)
          /\ attempts' = attempts /\ activeAttempts' = activeAttempts - 1
      BY <1>6, TombstoneFacts DEF Inv
    <2>2. RecordsAfter \subseteq Records /\ e \in InProgress
      BY <1>6, <2>1 DEF RecordsAfter, Records, InProgress
    <2> QED
      BY <2>1, <2>2, CountedOneLess
  <1>7. ASSUME NEW t \in Threads, NEW e \in Entries, NEW next \in {"Closed", "Rejected"},
               Closes(t, e, next)
        PROVE  Counted'
    BY <1>1, <1>6, <1>7, CloseFacts DEF Closes, Inv, Active
  <1>8. ASSUME NEW t \in Threads, NEW e \in Entries, ConfirmPromoted(t, e)
        PROVE  Counted'
    <2>1. /\ Active(e) /\ entry'[e].phase = "ready" /\ OthersKeepEntry(e)
          /\ attempts' = attempts /\ activeAttempts' = activeAttempts
      BY <1>8, PromoteFacts DEF Inv, Active, ConfirmPromoted
    <2> QED
      BY <2>1, CountedKept DEF OthersKeepEntry, Active
  <1>9. ASSUME NEW t \in Threads, NEW e \in Entries, ConfirmGraceOver(t, e)
        PROVE  Counted'
    BY <1>6, <1>9 DEF ConfirmGraceOver, Active
  <1>10. ASSUME NEW t \in Threads, DiscardSession(t) \/ ReleaseCID(t) PROVE Counted'
    BY <1>1, <1>10 DEF DiscardSession, ReleaseCID
  <1>11. CASE Tick \/ UNCHANGED vars
    BY <1>1, <1>11 DEF Tick, vars
  <1> QED
    BY <1>0, <1>2, <1>3, <1>4, <1>5, <1>7, <1>8, <1>9, <1>10, <1>11, CountedBegun
       DEF Kinds
-----------------------------------------------------------------------------
(* The theorems.                                                           *)

\* An empty cache.
LEMMA InitInv ==
    ASSUME Init
    PROVE  Inv
  <1>1. TypeOK /\ MapSound /\ Leases /\ Doomed /\ NotStranded
    BY TimeoutAssumption, NoneAssumption
       DEF Init, TypeOK, EntryRecord, SessionRecord, Phases, SessionStates, Locations,
           MapSound, Active, Leases, Builder, Doomed, NotStranded
  <1>2. SessionsAgree
    BY DEF Init, SessionsAgree, Live
  <1>3. CIDsHeld
    BY NoneAssumption DEF Init, CIDsHeld, HoldsCID
  <1>4. Counted
    <2>1. InProgress = {} /\ Records = {} /\ activeAttempts = 0
      BY DEF Init, InProgress, Active, Records
    <2> QED
      BY <2>1, FS_EmptySet, LimitAssumption DEF Counted
  <1> QED
    BY <1>1, <1>2, <1>3, <1>4 DEF Inv

\* Every step keeps it.
LEMMA InvStep ==
    ASSUME Inv, [Next]_vars
    PROVE  Inv'
  BY TypeStep, MapStep, LeasesStep, SessionsStep, DoomedStep, StrandedStep,
     CIDsStep, CountedStep
     DEF Inv

\* Inv holds in every reachable state of the server.
THEOREM Invariance == Spec => []Inv
  <1>1. Init => Inv
    BY InitInv
  <1>2. Inv /\ [Next]_vars => Inv'
    BY InvStep
  <1> QED
    BY <1>1, <1>2, PTL DEF Spec

\* activeAttempts counts the attempts in progress, never more than
\* maxPendingAttempts of them, and the map never holds more than
\* maxAttemptRecords records: acquireAttempt, publishAttempt, failAttempt,
\* promoteAttempt, removeAttempt and cleanupAttemptsLocked (cache.go) subtract
\* every attempt exactly once, however the goroutines interleave.
THEOREM CountIsExact == Spec => []CapacityAccounting
  <1>1. Inv => CapacityAccounting
    <2> SUFFICES ASSUME Inv PROVE CapacityAccounting
      OBVIOUS
    <2>1. /\ IsFiniteSet(InProgress) /\ activeAttempts = Cardinality(InProgress)
          /\ activeAttempts <= maxPendingAttempts
          /\ Cardinality(Records) <= maxAttemptRecords
      BY DEF Inv, Counted
    <2>2. TypeOK
      BY DEF Inv
    <2> QED
      BY <2>1, <2>2 DEF CapacityAccounting, InProgress
  <1> QED
    BY <1>1, Invariance, PTL

\* At most one attempt is in progress for an INITIAL, and it is the one its
\* key leads to (acquireAttempt, and the comparisons of publishAttempt,
\* failAttempt and removeAttempt with server.attempts[entry.key]).
THEOREM Singleflight == Spec => []ActiveIsCurrent
  <1>1. Inv => ActiveIsCurrent
    BY DEF Inv, MapSound, Active, ActiveIsCurrent, Current
  <1> QED
    BY <1>1, Invariance, PTL

\* Every CID in activeCIDs has one owner and every other CID has none: the
\* deferred releaseCID of HandleInitial, Close on a session that was not
\* published and the second half of closeLocked (server.go) neither leak one
\* nor release one twice.
THEOREM CIDsHaveOneOwner == Spec => []CIDOwnership
  <1>1. Inv => CIDOwnership
    <2> SUFFICES ASSUME Inv, NEW cid \in CIDs
                 PROVE  Cardinality(Owners(cid)) = IF cid \in activeCIDs THEN 1 ELSE 0
      BY DEF CIDOwnership
    <2>0. cid # None
      BY NoneAssumption
    <2>1. CASE cid \notin activeCIDs
      <3>1. Owners(cid) = {}
        BY <2>1 DEF Owners, Inv, CIDsHeld, HoldsCID
      <3> QED
        BY <2>1, <3>1, FS_EmptySet
    <2>2. ASSUME NEW t \in Threads, serverCID[t] = cid
          PROVE  Owners(cid) = {t} /\ cid \in activeCIDs
      <3>1. \A u \in Threads : serverCID[u] = cid => u = t
        BY <2>0, <2>2 DEF Inv, CIDsHeld
      <3>2. \A e \in Entries : ~HoldsCID(e, cid)
        BY <2>2 DEF Inv, CIDsHeld
      <3>3. cid \in activeCIDs
        BY <2>2 DEF Inv, CIDsHeld
      <3> QED
        BY <2>2, <3>1, <3>2, <3>3 DEF Owners, HoldsCID
    <2>3. ASSUME NEW e \in Entries, HoldsCID(e, cid)
          PROVE  Owners(cid) = {e} /\ cid \in activeCIDs
      <3>1. \A f \in Entries : HoldsCID(f, cid) => f = e
        BY <2>3 DEF Inv, CIDsHeld
      <3>2. \A u \in Threads : serverCID[u] # cid
        BY <2>3 DEF Inv, CIDsHeld
      <3>3. cid \in activeCIDs
        BY <2>3 DEF Inv, CIDsHeld
      <3> QED
        BY <2>3, <3>1, <3>2, <3>3 DEF Owners, HoldsCID
    <2>4. CASE cid \in activeCIDs
      <3>1. \/ \E t \in Threads : serverCID[t] = cid
            \/ \E e \in Entries : HoldsCID(e, cid)
        BY <2>4 DEF Inv, CIDsHeld
      <3>2. PICK o : Owners(cid) = {o}
        BY <2>2, <2>3, <3>1
      <3> QED
        BY <2>4, <3>2, FS_Singleton
    <2> QED
      BY <2>1, <2>4
  <1> QED
    BY <1>1, Invariance, PTL

\* A session that closeExpiredSessions has yet to close is not established
\* meanwhile: promoteAttempt finds its tombstone.
THEOREM ExpiredIsNotEstablished == Spec => []ExpiredStaysUnestablished
  <1>1. Inv => ExpiredStaysUnestablished
    BY DEF Inv, Doomed, ExpiredStaysUnestablished
  <1> QED
    BY <1>1, Invariance, PTL

\* A session that waits for its CONFIRM is found by a repeated INITIAL or a
\* cleanup, or a cleanup is about to close it; and resultOfAttempt hands out
\* only sessions that are live.
THEOREM NoSessionIsStranded == Spec => []NoStrandedSession
  <1>1. Inv => NoStrandedSession
    <2> SUFFICES ASSUME Inv, NEW e \in Entries
                 PROVE  /\ session[e].state = "PendingConfirm" =>
                              \/ Current(e) /\ entry[e].phase = "ready"
                              \/ \E t \in Threads : e \in expiredSessions[t]
                        /\ entry[e].phase = "ready" => Live(e)
      BY DEF NoStrandedSession
    <2>1. entry[e].phase = "ready" => Current(e)
      BY DEF Inv, MapSound, Active, Current
    <2>2. entry[e].phase = "ready" => Live(e)
      BY DEF Inv, SessionsAgree
    <2>3. session[e].state = "PendingConfirm" =>
             entry[e].phase = "ready" \/ \E t \in Threads : e \in expiredSessions[t]
      BY DEF Inv, NotStranded
    <2> QED
      BY <2>1, <2>2, <2>3
  <1> QED
    BY <1>1, Invariance, PTL
=============================================================================
