--------------------------- MODULE SessionMachine ---------------------------
(***************************************************************************)
(* The session state machine of internal/session (machine.go, state.go).   *)
(*                                                                         *)
(* One action per method of Machine that changes it; every method holds    *)
(* m.mu from beginning to end.  Time is supplied by the callers, several   *)
(* goroutines that read the clock before they get the lock, so "now" is    *)
(* any time not before lastEventAt (requireTimeLocked refuses the others). *)
(* A call that returns an error leaves the machine unchanged and is a      *)
(* stuttering step.                                                        *)
(*                                                                         *)
(* handshakes, pingHandshake and confirmedHandshake are history variables: *)
(* they number the completed handshakes, and remember which one the        *)
(* outstanding PING was issued for and which one the last establishment    *)
(* confirmed.                                                              *)
(***************************************************************************)
EXTENDS Integers

CONSTANTS
    \* the TimeoutPolicy
    InitialSent, PendingConfirm, EstablishedIdle, Draining, ConfirmGrace,
    MaxInitialRetries, MaxControlRetries,
    OperationIDs,       \* the PING challenges callers use
    NoTime,             \* time.Time{}
    \* bounds of the instance
    CallHorizon,        \* latest time at which a caller acts
    PollHorizon,        \* latest time at which CheckTimeout is polled
    MaxHandshakes       \* completed handshakes per machine

Durations ==
    {InitialSent, PendingConfirm, EstablishedIdle, Draining, ConfirmGrace}

\* TimeoutPolicy.Validate.
ASSUME PolicyAssumption ==
    /\ Durations \subseteq Nat \ {0}
    /\ MaxInitialRetries \in Nat \ {0}
    /\ MaxControlRetries \in Nat \ {0}
ASSUME OperationIDAssumption == OperationIDs \subseteq Nat
ASSUME NoTimeAssumption == NoTime \notin Int
\* Polling goes on long enough after the last call to see every deadline.
ASSUME HorizonAssumption ==
    /\ CallHorizon \in Nat /\ PollHorizon \in Nat /\ MaxHandshakes \in Nat
    /\ \A d \in Durations : CallHorizon + d + Draining <= PollHorizon

VARIABLES
    role, state,
    enteredAt, lastEventAt, deadline,
    initialRetries,
    ping,               \* hasOutstandingPing, outstandingPingID, controlRetries
    rekeyHandshakeReady,
    confirm,            \* hasLastConfirmID, lastConfirmID, confirmGraceUntil
    handshakes, pingHandshake, confirmedHandshake

historyVars == <<handshakes, pingHandshake, confirmedHandshake>>
vars == <<role, state, enteredAt, lastEventAt, deadline, initialRetries, ping,
          rekeyHandshakeReady, confirm, historyVars>>

Roles == {"client", "server"}
States == {"Idle", "InitialSent", "PendingConfirm", "Established",
           "Rekeying", "Draining", "Closed"}
CallTimes == 0..CallHorizon
Time == 0..PollHorizon

-----------------------------------------------------------------------------
(* nextState: the legal transitions of each role.  Close is legal          *)
(* everywhere.                                                             *)

ClientEdges ==
    { <<"Idle",           "BeginHandshake",    "InitialSent">>,
      <<"InitialSent",    "RetryReceived",     "InitialSent">>,
      <<"InitialSent",    "RetransmitInitial", "InitialSent">>,
      <<"InitialSent",    "HandshakeComplete", "PendingConfirm">>,
      <<"InitialSent",    "Timeout",           "Closed">>,
      <<"PendingConfirm", "IssuePing",         "PendingConfirm">>,
      <<"PendingConfirm", "RetransmitPing",    "PendingConfirm">>,
      <<"PendingConfirm", "Pong",              "Established">>,
      <<"PendingConfirm", "Timeout",           "Closed">>,
      <<"Established",    "Activity",          "Established">>,
      <<"Established",    "BeginRekey",        "Rekeying">>,
      <<"Established",    "BeginDrain",        "Draining">>,
      <<"Established",    "Timeout",           "Draining">>,
      <<"Rekeying",       "HandshakeComplete", "Rekeying">>,
      <<"Rekeying",       "IssuePing",         "Rekeying">>,
      <<"Rekeying",       "RetransmitPing",    "Rekeying">>,
      <<"Rekeying",       "Pong",              "Established">>,
      <<"Rekeying",       "BeginDrain",        "Draining">>,
      <<"Rekeying",       "Timeout",           "Draining">>,
      <<"Draining",       "Timeout",           "Closed">> }

ServerEdges ==
    { <<"Idle",           "HandshakeComplete", "PendingConfirm">>,
      <<"PendingConfirm", "ConfirmPing",       "Established">>,
      <<"PendingConfirm", "Timeout",           "Closed">>,
      <<"Established",    "Activity",          "Established">>,
      <<"Established",    "ConfirmPing",       "Established">>,
      <<"Established",    "BeginRekey",        "Rekeying">>,
      <<"Established",    "BeginDrain",        "Draining">>,
      <<"Established",    "Timeout",           "Draining">>,
      <<"Rekeying",       "HandshakeComplete", "Rekeying">>,
      <<"Rekeying",       "ConfirmPing",       "Established">>,
      <<"Rekeying",       "BeginDrain",        "Draining">>,
      <<"Rekeying",       "Timeout",           "Draining">>,
      <<"Draining",       "Timeout",           "Closed">> }

\* Mutant: PendingConfirm has no timeout.
EdgeWithoutPendingTimeout(event, next) ==
    /\ ~(state = "PendingConfirm" /\ event = "Timeout")
    /\ <<state, event, next>> \in IF role = "client" THEN ClientEdges ELSE ServerEdges

Edge(event, next) ==
    <<state, event, next>> \in IF role = "client" THEN ClientEdges ELSE ServerEdges

-----------------------------------------------------------------------------
(* Checks and updates shared by the methods.                               *)

requireTime(now) == lastEventAt <= now
requireBeforeDeadline(now) == deadline # NoTime => now < deadline

NoPing == [outstanding |-> FALSE, id |-> 0, retries |-> 0]
NoConfirm == [has |-> FALSE, id |-> 0, graceUntil |-> NoTime]

\* The deadline setStateLocked gives to each state.
TimeoutOf(next) ==
    IF next = "InitialSent" THEN InitialSent
    ELSE IF next \in {"PendingConfirm", "Rekeying"} THEN PendingConfirm
    ELSE IF next = "Established" THEN EstablishedIdle
    ELSE Draining

\* Mutant: Draining gets no deadline.
DeadlineOfButDraining(next, now) ==
    IF next \in {"Idle", "Closed", "Draining"} THEN NoTime ELSE now + TimeoutOf(next)

DeadlineOf(next, now) ==
    IF next \in {"Idle", "Closed"} THEN NoTime ELSE now + TimeoutOf(next)

\* setStateLocked.  Only Established and Idle keep the outstanding PING;
\* "kept" is the ping the caller left behind.
setState(next, now, kept) ==
    /\ state' = next
    /\ enteredAt' = now
    /\ lastEventAt' = now
    /\ deadline' = DeadlineOf(next, now)
    /\ initialRetries' = IF next = "InitialSent" THEN 0 ELSE initialRetries
    /\ ping' = IF next \in {"Established", "Idle"} THEN kept ELSE NoPing
    /\ rekeyHandshakeReady' =
          (rekeyHandshakeReady /\ next \in {"Idle", "InitialSent", "PendingConfirm"})
    /\ UNCHANGED role

\* An event that stays in its state and only moves lastEventAt.
stayInState(now) ==
    /\ lastEventAt' = now
    /\ UNCHANGED <<role, state, enteredAt>>

-----------------------------------------------------------------------------
(* The methods.                                                            *)

BeginHandshake(now) ==
    /\ requireTime(now)
    /\ Edge("BeginHandshake", "InitialSent")
    /\ setState("InitialSent", now, ping)
    /\ UNCHANGED <<confirm, historyVars>>

\* Mutant: a RETRY restarts the InitialSent deadline.
HandleRetryExtending(now) ==
    /\ requireTime(now) /\ requireBeforeDeadline(now)
    /\ Edge("RetryReceived", state)
    /\ initialRetries' = 0
    /\ deadline' = now + InitialSent
    /\ stayInState(now)
    /\ UNCHANGED <<ping, rekeyHandshakeReady, confirm, historyVars>>

HandleRetry(now) ==
    /\ requireTime(now) /\ requireBeforeDeadline(now)
    /\ Edge("RetryReceived", state)
    /\ initialRetries' = 0
    /\ stayInState(now)
    /\ UNCHANGED <<deadline, ping, rekeyHandshakeReady, confirm, historyVars>>

RecordInitialRetransmission(now) ==
    /\ requireTime(now) /\ requireBeforeDeadline(now)
    /\ Edge("RetransmitInitial", state)
    /\ initialRetries < MaxInitialRetries
    /\ initialRetries' = initialRetries + 1
    /\ stayInState(now)
    /\ UNCHANGED <<deadline, ping, rekeyHandshakeReady, confirm, historyVars>>

\* Mutant: a PING issued for an earlier handshake of the rekey survives.
HandshakeCompleteKeepingPing(now) ==
    /\ Edge("HandshakeComplete", "Rekeying")
    /\ rekeyHandshakeReady' = TRUE
    /\ deadline' = now + PendingConfirm
    /\ stayInState(now)
    /\ UNCHANGED <<initialRetries, ping>>

HandshakeCompleteInRekey(now) ==
    /\ Edge("HandshakeComplete", "Rekeying")
    /\ rekeyHandshakeReady' = TRUE
    /\ ping' = NoPing
    /\ deadline' = now + PendingConfirm
    /\ stayInState(now)
    /\ UNCHANGED initialRetries

HandshakeComplete(now) ==
    /\ handshakes < MaxHandshakes
    /\ requireTime(now) /\ requireBeforeDeadline(now)
    /\ \/ HandshakeCompleteInRekey(now)
       \/ /\ Edge("HandshakeComplete", "PendingConfirm")
          /\ setState("PendingConfirm", now, ping)
    /\ handshakes' = handshakes + 1
    /\ UNCHANGED <<confirm, pingHandshake, confirmedHandshake>>

IssuePing(operationID, now) ==
    /\ requireTime(now) /\ requireBeforeDeadline(now)
    /\ Edge("IssuePing", state)
    /\ state = "Rekeying" => rekeyHandshakeReady
    /\ ~ping.outstanding
    /\ ping' = [outstanding |-> TRUE, id |-> operationID, retries |-> 0]
    /\ pingHandshake' = handshakes
    /\ stayInState(now)
    /\ UNCHANGED <<deadline, initialRetries, rekeyHandshakeReady, confirm,
                   handshakes, confirmedHandshake>>

RecordPingRetransmission(operationID, now) ==
    /\ requireTime(now) /\ requireBeforeDeadline(now)
    /\ Edge("RetransmitPing", state)
    /\ ping.outstanding /\ operationID = ping.id
    /\ ping.retries < MaxControlRetries
    /\ ping' = [ping EXCEPT !.retries = @ + 1]
    /\ stayInState(now)
    /\ UNCHANGED <<deadline, initialRetries, rekeyHandshakeReady, confirm, historyVars>>

AcceptPong(operationID, now) ==
    /\ requireTime(now) /\ requireBeforeDeadline(now)
    /\ Edge("Pong", "Established")
    /\ ping.outstanding /\ operationID = ping.id
    /\ setState("Established", now, NoPing)
    /\ confirmedHandshake' = pingHandshake
    /\ UNCHANGED <<confirm, handshakes, pingHandshake>>

\* Mutant: every duplicate prolongs the grace period.
AcceptDuplicateConfirmProlonging(operationID, now) ==
    /\ state = "Established"
    /\ confirm.has /\ operationID = confirm.id
    /\ now <= confirm.graceUntil
    /\ confirm' = [confirm EXCEPT !.graceUntil = now + ConfirmGrace]
    /\ deadline' = now + EstablishedIdle
    /\ stayInState(now)
    /\ UNCHANGED <<initialRetries, ping, rekeyHandshakeReady, historyVars>>

\* Established: a retransmission of the accepted CONFIRM, answered again
\* (duplicate = true) until the grace period is over.
AcceptDuplicateConfirm(operationID, now) ==
    /\ state = "Established"
    /\ confirm.has /\ operationID = confirm.id
    /\ now <= confirm.graceUntil
    /\ deadline' = now + EstablishedIdle
    /\ stayInState(now)
    /\ UNCHANGED <<initialRetries, ping, rekeyHandshakeReady, confirm, historyVars>>

\* Mutant: a CONFIRM is accepted in Rekeying before the new handshake is ready.
AcceptFirstConfirmUnready(operationID, now) ==
    /\ state # "Established"
    /\ confirm' = [has |-> TRUE, id |-> operationID,
                   graceUntil |-> now + ConfirmGrace]
    /\ setState("Established", now, ping)
    /\ confirmedHandshake' = handshakes
    /\ UNCHANGED <<handshakes, pingHandshake>>

\* Any other state: the first CONFIRM (duplicate = false).
AcceptFirstConfirm(operationID, now) ==
    /\ state # "Established"
    /\ state = "Rekeying" => rekeyHandshakeReady
    /\ confirm' = [has |-> TRUE, id |-> operationID,
                   graceUntil |-> now + ConfirmGrace]
    /\ setState("Established", now, ping)
    /\ confirmedHandshake' = handshakes
    /\ UNCHANGED <<handshakes, pingHandshake>>

AcceptConfirmPing(operationID, now) ==
    /\ requireTime(now) /\ requireBeforeDeadline(now)
    /\ Edge("ConfirmPing", "Established")
    /\ \/ AcceptDuplicateConfirm(operationID, now)
       \/ AcceptFirstConfirm(operationID, now)

BeginRekey(now) ==
    /\ requireTime(now) /\ requireBeforeDeadline(now)
    /\ Edge("BeginRekey", "Rekeying")
    /\ setState("Rekeying", now, ping)
    /\ UNCHANGED <<confirm, historyVars>>

\* Mutant: activity does not look at the deadline it renews.
TouchLate(now) ==
    /\ requireTime(now)
    /\ Edge("Activity", state)
    /\ deadline' = now + EstablishedIdle
    /\ stayInState(now)
    /\ UNCHANGED <<initialRetries, ping, rekeyHandshakeReady, confirm, historyVars>>

Touch(now) ==
    /\ requireTime(now) /\ requireBeforeDeadline(now)
    /\ Edge("Activity", state)
    /\ deadline' = now + EstablishedIdle
    /\ stayInState(now)
    /\ UNCHANGED <<initialRetries, ping, rekeyHandshakeReady, confirm, historyVars>>

BeginDrain(now) ==
    /\ requireTime(now)
    /\ Edge("BeginDrain", "Draining")
    /\ setState("Draining", now, ping)
    /\ UNCHANGED <<confirm, historyVars>>

CheckTimeout(now) ==
    /\ requireTime(now)
    /\ deadline # NoTime /\ deadline <= now
    /\ \E next \in States : /\ Edge("Timeout", next)
                            /\ setState(next, now, ping)
    /\ UNCHANGED <<confirm, historyVars>>

Close(now) ==
    /\ requireTime(now)
    /\ state # "Closed"
    /\ setState("Closed", now, ping)
    /\ UNCHANGED <<confirm, historyVars>>

-----------------------------------------------------------------------------

\* NewMachine.
Init ==
    /\ role \in Roles
    /\ state = "Idle"
    /\ enteredAt = 0 /\ lastEventAt = 0 /\ deadline = NoTime
    /\ initialRetries = 0
    /\ ping = NoPing
    /\ rekeyHandshakeReady = FALSE
    /\ confirm = NoConfirm
    /\ handshakes = 0 /\ pingHandshake = 0 /\ confirmedHandshake = 0

\* A timeout other than the one of Draining leads to a state with a deadline.
PollTimes == 0..(IF state = "Draining" THEN PollHorizon ELSE PollHorizon - Draining)

Poll == \E now \in PollTimes : CheckTimeout(now)

Next ==
    \/ \E now \in CallTimes :
          \/ BeginHandshake(now)
          \/ HandleRetry(now)
          \/ RecordInitialRetransmission(now)
          \/ HandshakeComplete(now)
          \/ BeginRekey(now)
          \/ Touch(now)
          \/ BeginDrain(now)
          \/ Close(now)
          \/ \E operationID \in OperationIDs :
                \/ IssuePing(operationID, now)
                \/ RecordPingRetransmission(operationID, now)
                \/ AcceptPong(operationID, now)
                \/ AcceptConfirmPing(operationID, now)
    \/ Poll

Spec == Init /\ [][Next]_vars

\* The owner of a machine keeps polling CheckTimeout with the clock.
FairSpec == Spec /\ WF_vars(Poll)

-----------------------------------------------------------------------------
(* Properties.                                                             *)

TypeOK ==
    /\ role \in Roles
    /\ state \in States
    /\ enteredAt \in Time /\ lastEventAt \in Time
    /\ deadline \in Time \cup {NoTime}
    /\ initialRetries \in 0..MaxInitialRetries
    /\ ping \in [outstanding : BOOLEAN, id : OperationIDs \cup {0},
                 retries : 0..MaxControlRetries]
    /\ rekeyHandshakeReady \in BOOLEAN
    /\ confirm \in [has : BOOLEAN, id : OperationIDs \cup {0},
                    graceUntil : Time \cup {NoTime}]
    /\ handshakes \in 0..MaxHandshakes
    /\ pingHandshake \in 0..handshakes
    /\ confirmedHandshake \in 0..handshakes

\* Exactly the states that can time out have a deadline, and it lies after
\* the last event, so that CheckTimeout never meets a state without a timeout
\* edge.  (What a call at or after the deadline may do is LateCallsOnlyEnd.)
DeadlineSound ==
    /\ enteredAt <= lastEventAt
    /\ deadline = NoTime <=> state \in {"Idle", "Closed"}
    /\ deadline # NoTime => lastEventAt < deadline

\* A call at or after the deadline never keeps a machine in use: whatever
\* (stale) clock readings the callers bring, a machine that CheckTimeout has
\* not looked at in time is not renewed, established, rekeyed or retried any
\* more.  What such a call may do is end it: BeginDrain and Close, which do
\* not compare with the deadline, and CheckTimeout close it or let it drain,
\* and a machine that drains already is closed.
LateCallsOnlyEnd ==
    [][deadline # NoTime /\ deadline <= lastEventAt' =>
          /\ \/ state' = "Closed"
             \/ state \in {"Established", "Rekeying"} /\ state' = "Draining"
          /\ UNCHANGED <<confirm, historyVars>>]_vars

\* "The hard InitialSent deadline is intentionally not extended"
\* (HandleRetry), and likewise for PendingConfirm and Draining: retries,
\* retransmissions and PINGs never move the deadline away from the time the
\* state was entered.  Only activity extends Established, and only a
\* completed handshake extends Rekeying.
HardDeadline ==
    /\ state \in {"InitialSent", "PendingConfirm", "Draining"} =>
          deadline = DeadlineOf(state, enteredAt)
    /\ state = "Rekeying" /\ ~rekeyHandshakeReady =>
          deadline = enteredAt + PendingConfirm
    /\ state = "Established" => deadline = lastEventAt + EstablishedIdle

\* "Establishment still requires AcceptPong with this exact operation ID":
\* a PING is outstanding only on a client that has a completed, unconfirmed
\* handshake, and it was issued for that handshake, never for an earlier one
\* that a rekey replaced.
PingIsCurrent ==
    /\ ping.outstanding =>
          /\ role = "client"
          /\ state = "PendingConfirm" \/ (state = "Rekeying" /\ rekeyHandshakeReady)
          /\ pingHandshake = handshakes
    /\ ~ping.outstanding => ping = NoPing

\* Both roles become Established only by confirming the latest completed
\* handshake, and never twice for the same one.
EstablishedOnFreshHandshake ==
    [][state # "Established" /\ state' = "Established"
        => /\ confirmedHandshake' = handshakes
           /\ confirmedHandshake < handshakes]_vars

\* The confirmation grace of AcceptConfirmPing counts from the moment the
\* server became Established: duplicates are answered inside it and never
\* prolong it.
GraceAnchored ==
    role = "server" /\ state = "Established" =>
        /\ confirm.has
        /\ confirm.graceUntil = enteredAt + ConfirmGrace

\* "Establishment must end": a handshake that is under way is confirmed or
\* the machine closes.
HandshakeDecided ==
    state \in {"InitialSent", "PendingConfirm"} ~> state \in {"Established", "Closed"}

\* "Bounded draining period" (BeginDrain): draining always ends.
DrainEnds == state = "Draining" ~> state = "Closed"

\* "A matching retransmission in the confirmation grace period returns
\* duplicate=true so the caller can resend PONG without reactivating state or
\* leases" (comment of AcceptConfirmPing): accepting the operation that was
\* accepted last, inside its grace period, leaves the state alone.
RetransmittedConfirmIsDuplicate ==
    [][\A operationID \in OperationIDs, now \in CallTimes :
          /\ AcceptConfirmPing(operationID, now)
          /\ confirm.has /\ operationID = confirm.id
          /\ now <= confirm.graceUntil
          => UNCHANGED <<state, enteredAt, confirm>>]_vars
=============================================================================
