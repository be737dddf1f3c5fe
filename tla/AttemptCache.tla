---------------------------- MODULE AttemptCache ----------------------------
(***************************************************************************)
(* The server side of the WG-HS/1 handshake as its goroutines see it: the  *)
(* cache of handshake attempts (internal/handshake/cache.go), the builder  *)
(* that fills it (HandleInitial in server.go), the pool of server          *)
(* connection IDs, and the life of the sessions it hands out               *)
(* (HandleConfirm in transport.go, Close in server.go).                    *)
(*                                                                         *)
(* Locks: attemptMu protects attempts, activeAttempts and the entries;     *)
(* activeMu protects activeCIDs; every session has a mutex of its own,     *)
(* which is taken before attemptMu and never the other way round, so the   *)
(* sessions that a cleanup expires are closed after attemptMu is released. *)
(* A step of the model is what happens under one acquisition of attemptMu  *)
(* or activeMu.  A key is th1, the hash of an INITIAL datagram: equal keys *)
(* mean equal datagrams.                                                   *)
(*                                                                         *)
(* A builder creates at most one session for its entry; entry and session  *)
(* share an identity e, so entry.session = session becomes: e is the       *)
(* current entry of the key and its phase is "ready".                      *)
(***************************************************************************)
EXTENDS Integers, FiniteSets

CONSTANTS
    Threads,            \* goroutines that call the server
    Keys,               \* distinct INITIAL datagrams
    Entries,            \* bound: attempt entries created
    CIDs,               \* bound: server connection IDs the random source yields
    maxPendingAttempts, maxAttemptRecords,
    pendingAttemptTimeout, confirmGracePeriod, attemptReplayRetention,
    MaxClock,           \* bound: last time the clock shows
    None                \* nil

\* normalizeServerConfig.
ASSUME LimitAssumption ==
    /\ maxPendingAttempts \in Nat \ {0}
    /\ maxAttemptRecords \in Nat /\ maxPendingAttempts <= maxAttemptRecords
ASSUME TimeoutAssumption ==
    /\ pendingAttemptTimeout \in Nat \ {0}
    /\ confirmGracePeriod \in Nat \ {0}
    /\ attemptReplayRetention \in Nat \ {0}
    /\ MaxClock \in Nat
ASSUME NoneAssumption == None \notin Threads \cup Keys \cup Entries \cup CIDs

VARIABLES
    clock,              \* server.options.now()
    attempts,           \* server.attempts: key -> entry or None
    activeAttempts,     \* server.activeAttempts
    activeCIDs,         \* server.activeCIDs
    entry,              \* the fields of every attemptEntry
    session,            \* the fields of every ServerSession
    pc,                 \* where each goroutine is
    lease,              \* its attemptLease.entry while it waits or builds
    serverCID,          \* the CID its builder reserved
    expiredSessions,    \* sessions it still has to close
    closing             \* the session whose mutex it holds inside closeLocked

cacheVars == <<attempts, activeAttempts, entry>>
threadVars == <<pc, lease, serverCID, expiredSessions, closing>>
vars == <<clock, cacheVars, activeCIDs, session, threadVars>>

Phases == {"unused", "building", "ready", "tombstone", "failed"}
SessionStates == {"none", "PendingConfirm", "Established", "Rejected", "Closed"}
Locations == {"idle", "wait", "build", "reserved", "discard", "failing"}

-----------------------------------------------------------------------------
(* The cache.                                                              *)

Active(e) == entry[e].phase \in {"building", "ready"}
Records == {k \in Keys : attempts[k] # None}

\* entry is the current one of its key: server.attempts[entry.key] == entry.
Current(e) == entry[e].phase # "unused" /\ attempts[entry[e].key] = e

\* tombstoneAttemptLocked, for one entry; the caller adjusts activeAttempts.
Tombstoned(e) ==
    [entry[e] EXCEPT !.phase = "tombstone", !.confirmed = FALSE, !.done = TRUE,
                     !.expiresAt = 0, !.forgetAt = clock + attemptReplayRetention]

Tombstone(e) ==
    /\ entry' = [entry EXCEPT ![e] = Tombstoned(e)]
    /\ activeAttempts' = activeAttempts - 1
    /\ UNCHANGED attempts

\* cleanupAttemptsLocked: what one pass over the map expires and forgets.
Expired == {e \in Entries : Current(e) /\ Active(e) /\ entry[e].expiresAt <= clock}
\* Mutant: the sessions of expired attempts are not collected.
UnconfirmedLost(expired) == {}

Unconfirmed(expired) ==
    {e \in expired : entry[e].phase = "ready" /\ ~entry[e].confirmed}
Forgotten ==
    {k \in Records : \/ /\ entry[attempts[k]].phase = "tombstone"
                        /\ entry[attempts[k]].forgetAt <= clock
                     \/ entry[attempts[k]].phase = "failed"}

CleanEntry == [e \in Entries |-> IF e \in Expired THEN Tombstoned(e) ELSE entry[e]]
CleanAttempts == [k \in Keys |-> IF k \in Forgotten THEN None ELSE attempts[k]]
\* Mutant: attempts that expire while they are being built stay counted.
CleanActiveReadyOnly == activeAttempts - Cardinality({e \in Expired : entry[e].phase = "ready"})

CleanActive == activeAttempts - Cardinality(Expired)

-----------------------------------------------------------------------------
(* HandleInitial.                                                          *)

\* The goroutine is between two calls, or two parts of one, with no session
\* left to close.
Ready(t) == expiredSessions[t] = {} /\ closing[t] = None
Idle(t) == pc[t] = "idle" /\ Ready(t)

NewEntry(k) ==
    [phase |-> "building", key |-> k, expiresAt |-> clock + pendingAttemptTimeout,
     forgetAt |-> 0, confirmed |-> FALSE, done |-> FALSE]

\* acquireAttempt: clean up, then look the key up, all under attemptMu.  A
\* call that finds an attempt in progress waits for it, one that finds a
\* decided one returns, and one that finds none becomes the builder unless
\* the cache is full.
AcquireExisting(t, k) ==
    /\ CleanAttempts[k] # None
    /\ LET e == CleanAttempts[k] IN
       IF CleanEntry[e].phase = "building"
       THEN pc' = [pc EXCEPT ![t] = "wait"] /\ lease' = [lease EXCEPT ![t] = e]
       ELSE UNCHANGED <<pc, lease>>
    /\ entry' = CleanEntry /\ attempts' = CleanAttempts
    /\ activeAttempts' = CleanActive

\* Mutant: the limits are checked one attempt too late.
AtCapacityLate ==
    \/ CleanActive > maxPendingAttempts
    \/ Cardinality({k \in Keys : CleanAttempts[k] # None}) > maxAttemptRecords

AtCapacity ==
    \/ CleanActive >= maxPendingAttempts
    \/ Cardinality({k \in Keys : CleanAttempts[k] # None}) >= maxAttemptRecords

AcquireRefused(k) ==
    /\ CleanAttempts[k] = None
    /\ AtCapacity
    /\ entry' = CleanEntry /\ attempts' = CleanAttempts
    /\ activeAttempts' = CleanActive
    /\ UNCHANGED <<pc, lease>>

AcquireBuilder(t, k, e) ==
    /\ CleanAttempts[k] = None
    /\ ~AtCapacity
    /\ entry[e].phase = "unused"
    /\ entry' = [CleanEntry EXCEPT ![e] = NewEntry(k)]
    /\ attempts' = [CleanAttempts EXCEPT ![k] = e]
    /\ activeAttempts' = CleanActive + 1
    /\ pc' = [pc EXCEPT ![t] = "build"]
    /\ lease' = [lease EXCEPT ![t] = e]

AcquireAttempt(t, k) ==
    /\ Idle(t)
    /\ expiredSessions' = [expiredSessions EXCEPT ![t] = Unconfirmed(Expired)]
    /\ \/ AcquireExisting(t, k)
       \/ AcquireRefused(k)
       \/ \E e \in Entries : AcquireBuilder(t, k, e)
    /\ UNCHANGED <<clock, activeCIDs, session, serverCID, closing>>

\* <-done, then resultOfAttempt: a lease or an error, nothing changes.
ResultOfAttempt(t) ==
    /\ pc[t] = "wait" /\ Ready(t)
    /\ entry[lease[t]].done
    /\ pc' = [pc EXCEPT ![t] = "idle"]
    /\ lease' = [lease EXCEPT ![t] = None]
    /\ UNCHANGED <<clock, cacheVars, activeCIDs, session, serverCID,
                   expiredSessions, closing>>

\* The INITIAL does not authenticate, its fields are refused, or no CID is
\* free: return through the deferred failAttempt.
BuildError(t) ==
    /\ pc[t] = "build" /\ Ready(t)
    /\ pc' = [pc EXCEPT ![t] = "failing"]
    /\ UNCHANGED <<clock, cacheVars, activeCIDs, session, lease, serverCID,
                   expiredSessions, closing>>

ReserveServerCID(t, cid) ==
    /\ pc[t] = "build" /\ Ready(t)
    /\ cid \notin activeCIDs
    /\ activeCIDs' = activeCIDs \cup {cid}
    /\ serverCID' = [serverCID EXCEPT ![t] = cid]
    /\ pc' = [pc EXCEPT ![t] = "reserved"]
    /\ UNCHANGED <<clock, cacheVars, session, lease, expiredSessions, closing>>

\* An error after the reservation: the deferred releaseCID runs first.
BuildErrorAfterReserve(t) ==
    /\ pc[t] = "reserved"
    /\ activeCIDs' = activeCIDs \ {serverCID[t]}
    /\ serverCID' = [serverCID EXCEPT ![t] = None]
    /\ pc' = [pc EXCEPT ![t] = "failing"]
    /\ UNCHANGED <<clock, cacheVars, session, lease, expiredSessions, closing>>

\* Mutant: publishAttempt does not check that the entry is still current and
\* being built.
PublishUnchecked(t) ==
    LET e == lease[t] IN
    /\ pc[t] = "reserved"
    /\ entry' = [entry EXCEPT ![e].phase = "ready", ![e].done = TRUE,
                              ![e].expiresAt = clock + pendingAttemptTimeout]
    /\ session' = [session EXCEPT ![e] =
          [state |-> "PendingConfirm", cid |-> serverCID[t],
           hasAttempt |-> TRUE, closedCID |-> FALSE]]
    /\ pc' = [pc EXCEPT ![t] = "idle"]
    /\ lease' = [lease EXCEPT ![t] = None]
    /\ serverCID' = [serverCID EXCEPT ![t] = None]
    /\ UNCHANGED <<clock, attempts, activeAttempts, activeCIDs,
                   expiredSessions, closing>>

\* publishAttempt succeeds: the entry is still this builder's.
PublishAttempt(t) ==
    LET e == lease[t] IN
    /\ pc[t] = "reserved"
    /\ Current(e) /\ entry[e].phase = "building"
    /\ entry' = [entry EXCEPT ![e].phase = "ready", ![e].done = TRUE,
                              ![e].expiresAt = clock + pendingAttemptTimeout]
    /\ session' = [session EXCEPT ![e] =
          [state |-> "PendingConfirm", cid |-> serverCID[t],
           hasAttempt |-> TRUE, closedCID |-> FALSE]]
    /\ pc' = [pc EXCEPT ![t] = "idle"]
    /\ lease' = [lease EXCEPT ![t] = None]
    /\ serverCID' = [serverCID EXCEPT ![t] = None]
    /\ UNCHANGED <<clock, attempts, activeAttempts, activeCIDs,
                   expiredSessions, closing>>

\* publishAttempt refuses: the attempt expired while it was being built.
PublishTooLate(t) ==
    LET e == lease[t] IN
    /\ pc[t] = "reserved"
    /\ ~(Current(e) /\ entry[e].phase = "building")
    /\ pc' = [pc EXCEPT ![t] = "discard"]
    /\ UNCHANGED <<clock, cacheVars, activeCIDs, session, lease, serverCID,
                   expiredSessions, closing>>

\* session.Close() on the session that was not published releases the CID.
DiscardSession(t) ==
    /\ pc[t] = "discard"
    /\ activeCIDs' = activeCIDs \ {serverCID[t]}
    /\ session' = [session EXCEPT ![lease[t]] =
          [state |-> "Closed", cid |-> serverCID[t],
           hasAttempt |-> FALSE, closedCID |-> TRUE]]
    /\ serverCID' = [serverCID EXCEPT ![t] = None]
    /\ pc' = [pc EXCEPT ![t] = "failing"]
    /\ UNCHANGED <<clock, cacheVars, lease, expiredSessions, closing>>

\* Mutant: failAttempt forgets to close the done channel.
FailAttemptSilently(t) ==
    LET e == lease[t] IN
    /\ pc[t] = "failing"
    /\ IF Current(e) /\ entry[e].phase = "building"
       THEN /\ attempts' = [attempts EXCEPT ![entry[e].key] = None]
            /\ activeAttempts' = activeAttempts - 1
            /\ entry' = [entry EXCEPT ![e].phase = "failed"]
       ELSE UNCHANGED cacheVars
    /\ pc' = [pc EXCEPT ![t] = "idle"]
    /\ lease' = [lease EXCEPT ![t] = None]
    /\ UNCHANGED <<clock, activeCIDs, session, serverCID, expiredSessions, closing>>

\* failAttempt, deferred by HandleInitial.
FailAttempt(t) ==
    LET e == lease[t] IN
    /\ pc[t] = "failing"
    /\ IF Current(e) /\ entry[e].phase = "building"
       THEN /\ attempts' = [attempts EXCEPT ![entry[e].key] = None]
            /\ activeAttempts' = activeAttempts - 1
            /\ entry' = [entry EXCEPT ![e].phase = "failed", ![e].done = TRUE]
       ELSE UNCHANGED cacheVars
    /\ pc' = [pc EXCEPT ![t] = "idle"]
    /\ lease' = [lease EXCEPT ![t] = None]
    /\ UNCHANGED <<clock, activeCIDs, session, serverCID, expiredSessions, closing>>

-----------------------------------------------------------------------------
(* Sessions.  closeLocked runs under session.mu: removeAttempt under       *)
(* attemptMu, then releaseCID under activeMu.                              *)

Unlocked(e) == \A t \in Threads : closing[t] # e
Live(e) == session[e].state \in {"PendingConfirm", "Established"}

\* First half of closeLocked: the new state, and the attempt is tombstoned
\* if the session is still the one its key leads to.
CloseLocked(t, e, next) ==
    /\ session' = [session EXCEPT ![e].state = next, ![e].hasAttempt = FALSE]
    /\ IF session[e].hasAttempt /\ Current(e) /\ entry[e].phase = "ready"
       THEN Tombstone(e)
       ELSE UNCHANGED cacheVars
    /\ closing' = [closing EXCEPT ![t] = e]

\* Mutant: every close releases the CID.
ReleaseCIDAgain(t) ==
    LET e == closing[t] IN
    /\ e # None
    /\ activeCIDs' = activeCIDs \ {session[e].cid}
    /\ session' = [session EXCEPT ![e].closedCID = TRUE]
    /\ closing' = [closing EXCEPT ![t] = None]
    /\ UNCHANGED <<clock, cacheVars, pc, lease, serverCID, expiredSessions>>

\* Second half: the CID is released once.
ReleaseCID(t) ==
    LET e == closing[t] IN
    /\ e # None
    /\ activeCIDs' = IF session[e].closedCID THEN activeCIDs
                     ELSE activeCIDs \ {session[e].cid}
    /\ session' = [session EXCEPT ![e].closedCID = TRUE]
    /\ closing' = [closing EXCEPT ![t] = None]
    /\ UNCHANGED <<clock, cacheVars, pc, lease, serverCID, expiredSessions>>

\* A caller closes a session, or a seal fails at the packet-number limit.
\* Closing a closed session changes nothing.
CloseSession(t, e) ==
    /\ Idle(t)
    /\ Live(e) \/ session[e].state = "Rejected"
    /\ Unlocked(e)
    /\ CloseLocked(t, e, "Closed")
    /\ UNCHANGED <<clock, activeCIDs, pc, lease, serverCID, expiredSessions>>

\* closeExpiredSessions: the next session of the list.
CloseExpiredSession(t, e) ==
    /\ e \in expiredSessions[t] /\ closing[t] = None
    /\ Unlocked(e)
    /\ CloseLocked(t, e, "Closed")
    /\ expiredSessions' = [expiredSessions EXCEPT ![t] = @ \ {e}]
    /\ UNCHANGED <<clock, activeCIDs, pc, lease, serverCID>>

\* Mutant: promoteAttempt does not look at the phase of the attempt.
PromoteAnyAttempt(e) == session[e].hasAttempt

\* HandleConfirm with a valid CONFIRM while PendingConfirm: promoteAttempt
\* decides.
PromoteAttempt(e) ==
    /\ session[e].hasAttempt
    /\ Current(e) /\ entry[e].phase = "ready"
    /\ clock < entry[e].expiresAt

ConfirmPromoted(t, e) ==
    /\ Idle(t)
    /\ session[e].state = "PendingConfirm" /\ Unlocked(e)
    /\ PromoteAttempt(e)
    /\ entry' = [entry EXCEPT ![e].confirmed = TRUE,
                              ![e].expiresAt = clock + confirmGracePeriod]
    /\ session' = [session EXCEPT ![e].state = "Established"]
    /\ UNCHANGED <<clock, attempts, activeAttempts, activeCIDs, threadVars>>

\* Too late: promoteAttempt tombstones its own entry if a cleanup has not
\* done so, and HandleConfirm closes the session.
ConfirmTooLate(t, e) ==
    /\ Idle(t)
    /\ session[e].state = "PendingConfirm" /\ Unlocked(e)
    /\ ~PromoteAttempt(e)
    /\ CloseLocked(t, e, "Closed")
    /\ UNCHANGED <<clock, activeCIDs, pc, lease, serverCID, expiredSessions>>

\* HandleConfirm with a wrong th2 while PendingConfirm.
ConfirmRejected(t, e) ==
    /\ Idle(t)
    /\ session[e].state = "PendingConfirm" /\ Unlocked(e)
    /\ CloseLocked(t, e, "Rejected")
    /\ UNCHANGED <<clock, activeCIDs, pc, lease, serverCID, expiredSessions>>

\* HandleConfirm with a retransmitted CONFIRM while Established: only a
\* grace period that is over changes anything (confirmGraceActive).
ConfirmGraceOver(t, e) ==
    /\ Idle(t)
    /\ session[e].state = "Established" /\ Unlocked(e)
    /\ session[e].hasAttempt
    /\ Current(e) /\ entry[e].phase = "ready" /\ entry[e].confirmed
    /\ entry[e].expiresAt <= clock
    /\ Tombstone(e)
    /\ UNCHANGED <<clock, activeCIDs, session, threadVars>>

-----------------------------------------------------------------------------

CleanupExpired(t) ==
    /\ Idle(t)
    /\ Expired # {} \/ Forgotten # {}
    /\ entry' = CleanEntry /\ attempts' = CleanAttempts
    /\ activeAttempts' = CleanActive
    /\ expiredSessions' = [expiredSessions EXCEPT ![t] = Unconfirmed(Expired)]
    /\ UNCHANGED <<clock, activeCIDs, session, pc, lease, serverCID, closing>>

Tick ==
    /\ clock < MaxClock
    /\ clock' = clock + 1
    /\ UNCHANGED <<cacheVars, activeCIDs, session, threadVars>>

Init ==
    /\ clock = 0
    /\ attempts = [k \in Keys |-> None]
    /\ activeAttempts = 0
    /\ activeCIDs = {}
    /\ entry = [e \in Entries |->
          [phase |-> "unused", key |-> None, expiresAt |-> 0, forgetAt |-> 0,
           confirmed |-> FALSE, done |-> FALSE]]
    /\ session = [e \in Entries |->
          [state |-> "none", cid |-> None, hasAttempt |-> FALSE, closedCID |-> FALSE]]
    /\ pc = [t \in Threads |-> "idle"]
    /\ lease = [t \in Threads |-> None]
    /\ serverCID = [t \in Threads |-> None]
    /\ expiredSessions = [t \in Threads |-> {}]
    /\ closing = [t \in Threads |-> None]

\* The steps with which a goroutine goes on with a call it has begun.
Continue(t) ==
    \/ ResultOfAttempt(t)
    \/ BuildError(t)
    \/ \E cid \in CIDs : ReserveServerCID(t, cid)
    \/ BuildErrorAfterReserve(t)
    \/ PublishAttempt(t)
    \/ PublishTooLate(t)
    \/ DiscardSession(t)
    \/ FailAttempt(t)
    \/ ReleaseCID(t)
    \/ \E e \in Entries : CloseExpiredSession(t, e)

Call(t) ==
    \/ \E k \in Keys : AcquireAttempt(t, k)
    \/ CleanupExpired(t)
    \/ \E e \in Entries :
          \/ CloseSession(t, e)
          \/ ConfirmPromoted(t, e)
          \/ ConfirmTooLate(t, e)
          \/ ConfirmRejected(t, e)
          \/ ConfirmGraceOver(t, e)

Next == Tick \/ \E t \in Threads : Call(t) \/ Continue(t)

Spec == Init /\ [][Next]_vars

\* The Go scheduler runs every goroutine that can run.
FairSpec == Spec /\ \A t \in Threads : WF_vars(Continue(t))

-----------------------------------------------------------------------------
(* Properties.                                                             *)

EntryRecord ==
    [phase : Phases, key : Keys \cup {None}, expiresAt : Nat, forgetAt : Nat,
     confirmed : BOOLEAN, done : BOOLEAN]
SessionRecord ==
    [state : SessionStates, cid : CIDs \cup {None},
     hasAttempt : BOOLEAN, closedCID : BOOLEAN]

TypeOK ==
    /\ clock \in 0..MaxClock
    /\ attempts \in [Keys -> Entries \cup {None}]
    /\ activeAttempts \in Int
    /\ activeCIDs \subseteq CIDs
    /\ entry \in [Entries -> EntryRecord]
    /\ session \in [Entries -> SessionRecord]
    /\ pc \in [Threads -> Locations]
    /\ lease \in [Threads -> Entries \cup {None}]
    /\ serverCID \in [Threads -> CIDs \cup {None}]
    /\ expiredSessions \in [Threads -> SUBSET Entries]
    /\ closing \in [Threads -> Entries \cup {None}]

\* activeAttempts, which decides ErrAttemptCapacity, counts exactly the
\* attempts in progress: an attempt that fails, expires while it is built,
\* is closed, or is expired by one goroutine while another confirms it is
\* subtracted once.  Neither the attempts in progress nor the records of the
\* map, those of decided attempts included, ever exceed their limit.  (And
\* every variable has its type.)
CapacityAccounting ==
    /\ TypeOK
    /\ activeAttempts = Cardinality({e \in Entries : Active(e)})
    /\ activeAttempts <= maxPendingAttempts
    /\ Cardinality(Records) <= maxAttemptRecords

\* Singleflight: every attempt in progress is the one its key leads to, so a
\* repeated INITIAL never has two sessions in progress, even when its first
\* builder is so slow that its own record has expired, been forgotten and
\* replaced (publishAttempt, failAttempt and removeAttempt compare entries).
ActiveIsCurrent == \A e \in Entries : Active(e) => Current(e)

\* Every CID in use has exactly one owner - a builder that reserved it or a
\* session that has not released it - and no CID is used without an owner:
\* none is released twice (which would let two live sessions share it) and
\* none leaks.
Owners(cid) ==
    {t \in Threads : serverCID[t] = cid}
    \cup {e \in Entries : session[e].cid = cid /\ ~session[e].closedCID}
CIDOwnership ==
    \A cid \in CIDs :
        Cardinality(Owners(cid)) = IF cid \in activeCIDs THEN 1 ELSE 0

\* A cleanup that expired an attempt closes its session only after it has
\* released attemptMu; a CONFIRM that arrives in between must not succeed, or
\* an established session would be closed under its user.
ExpiredStaysUnestablished ==
    \A t \in Threads : \A e \in expiredSessions[t] :
        session[e].state # "Established"

\* No session is stranded in PendingConfirm: it is the ready session of its
\* key (where a repeated INITIAL or a cleanup finds it) or it is about to be
\* closed; and the cache never hands out a session that is closed.
NoStrandedSession ==
    \A e \in Entries :
        /\ session[e].state = "PendingConfirm" =>
              \/ Current(e) /\ entry[e].phase = "ready"
              \/ \E t \in Threads : e \in expiredSessions[t]
        /\ entry[e].phase = "ready" => Live(e)

\* Every call returns: builders, goroutines that wait for another builder of
\* the same INITIAL, and goroutines that close expired sessions.
CallsReturn == \A t \in Threads : []<>Idle(t)
=============================================================================
