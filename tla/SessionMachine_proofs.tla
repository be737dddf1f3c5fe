----------------------- MODULE SessionMachine_proofs ------------------------
(***************************************************************************)
(* Proofs about SessionMachine, for every timeout policy, every set of     *)
(* operation IDs and every horizon.                                        *)
(*                                                                         *)
(* None of the safety invariants is inductive alone: that a PING is        *)
(* current needs the deadlines to be sound (no event runs in an expired    *)
(* state), and that an establishment confirms a fresh handshake needs the  *)
(* PING to be current.  IndInv is their conjunction with UnconfirmedLag.   *)
(***************************************************************************)
EXTENDS SessionMachine, TLAPS

\* In a state that waits for a confirmation, the latest handshake has not
\* been confirmed yet.
UnconfirmedLag ==
    state = "PendingConfirm" \/ (state = "Rekeying" /\ rekeyHandshakeReady)
        => confirmedHandshake < handshakes

\* The inductive invariant.
IndInv ==
    /\ TypeOK
    /\ DeadlineSound
    /\ HardDeadline
    /\ PingIsCurrent
    /\ GraceAnchored
    /\ UnconfirmedLag

-----------------------------------------------------------------------------

\* What the transition table allows, event by event.
LEMMA EdgeFacts ==
    ASSUME role \in Roles, NEW next
    PROVE  /\ Edge("BeginHandshake", next) =>
                 role = "client" /\ state = "Idle" /\ next = "InitialSent"
           /\ Edge("RetryReceived", next) => state = "InitialSent" /\ next = state
           /\ Edge("RetransmitInitial", next) => state = "InitialSent" /\ next = state
           /\ Edge("HandshakeComplete", next) =>
                 \/ state \in {"Idle", "InitialSent"} /\ next = "PendingConfirm"
                 \/ state = "Rekeying" /\ next = "Rekeying"
           /\ Edge("IssuePing", next) =>
                 role = "client" /\ state \in {"PendingConfirm", "Rekeying"}
           /\ Edge("RetransmitPing", next) =>
                 role = "client" /\ state \in {"PendingConfirm", "Rekeying"}
           /\ Edge("Pong", next) =>
                 role = "client" /\ state \in {"PendingConfirm", "Rekeying"}
           /\ Edge("ConfirmPing", next) =>
                 /\ role = "server"
                 /\ state \in {"PendingConfirm", "Established", "Rekeying"}
           /\ Edge("Activity", next) => state = "Established"
           /\ Edge("BeginRekey", next) => state = "Established" /\ next = "Rekeying"
           /\ Edge("BeginDrain", next) =>
                 state \in {"Established", "Rekeying"} /\ next = "Draining"
           /\ Edge("Timeout", next) =>
                 \/ state \in {"InitialSent", "PendingConfirm", "Draining"} /\ next = "Closed"
                 \/ state \in {"Established", "Rekeying"} /\ next = "Draining"
  BY DEF Edge, ClientEdges, ServerEdges, Roles

\* Every deadline set by a call lies inside the modelled time.
LEMMA HorizonFacts ==
    /\ \A now \in CallTimes, d \in Durations :
          now \in Time /\ now + d \in Time /\ now < now + d
    /\ \A now \in 0..(PollHorizon - Draining) :
          now \in Time /\ now + Draining \in Time
  BY PolicyAssumption, HorizonAssumption DEF Durations, CallTimes, Time

-----------------------------------------------------------------------------

\* A new machine (NewMachine) satisfies the invariant.
LEMMA InitIndInv == Init => IndInv
  <1> SUFFICES ASSUME Init PROVE IndInv
    OBVIOUS
  <1>1. TypeOK
    <2>1. ping \in [outstanding : BOOLEAN, id : OperationIDs \cup {0},
                    retries : 0..MaxControlRetries]
      BY PolicyAssumption DEF Init, NoPing
    <2>2. confirm \in [has : BOOLEAN, id : OperationIDs \cup {0},
                       graceUntil : Time \cup {NoTime}]
      BY DEF Init, NoConfirm
    <2>3. rekeyHandshakeReady \in BOOLEAN
      BY DEF Init
    <2>4. /\ role \in Roles /\ state \in States
          /\ enteredAt \in Time /\ lastEventAt \in Time
          /\ deadline \in Time \cup {NoTime}
          /\ initialRetries \in 0..MaxInitialRetries
          /\ handshakes \in 0..MaxHandshakes
          /\ pingHandshake \in 0..handshakes
          /\ confirmedHandshake \in 0..handshakes
      BY PolicyAssumption, HorizonAssumption DEF Init, Time, Roles, States
    <2> QED
      BY <2>1, <2>2, <2>3, <2>4 DEF TypeOK
  <1>2. /\ DeadlineSound /\ HardDeadline /\ GraceAnchored /\ UnconfirmedLag
    BY DEF Init, DeadlineSound, HardDeadline, GraceAnchored, UnconfirmedLag
  <1>3. PingIsCurrent
    BY DEF Init, PingIsCurrent, NoPing
  <1> QED
    BY <1>1, <1>2, <1>3 DEF IndInv

\* Entering a state with setState establishes everything that is about the
\* new state, whichever event led there.
LEMMA SetStateInv ==
    ASSUME IndInv, NEW next \in States, NEW now \in Time, NEW kept,
           requireTime(now),
           DeadlineOf(next, now) \in Time \cup {NoTime},
           kept = ping \/ kept = NoPing,
           setState(next, now, kept),
           next = "Established" => kept = NoPing,
           next # "Idle"
    PROVE  /\ role' \in Roles /\ state' \in States
           /\ enteredAt' \in Time /\ lastEventAt' \in Time
           /\ deadline' \in Time \cup {NoTime}
           /\ initialRetries' \in 0..MaxInitialRetries
           /\ rekeyHandshakeReady' \in BOOLEAN
           /\ ping' = NoPing
           /\ ping' \in [outstanding : BOOLEAN, id : OperationIDs \cup {0},
                         retries : 0..MaxControlRetries]
           /\ DeadlineSound' /\ HardDeadline'
  <1>1. ping' = NoPing
    BY DEF setState
  <1>2. ping' \in [outstanding : BOOLEAN, id : OperationIDs \cup {0},
                   retries : 0..MaxControlRetries]
    BY <1>1, PolicyAssumption DEF NoPing
  <1>3. /\ role' \in Roles /\ state' \in States
        /\ enteredAt' \in Time /\ lastEventAt' \in Time
        /\ deadline' \in Time \cup {NoTime}
        /\ initialRetries' \in 0..MaxInitialRetries
        /\ rekeyHandshakeReady' \in BOOLEAN
    BY PolicyAssumption DEF setState, IndInv, TypeOK
  <1>4. DeadlineSound'
    BY PolicyAssumption, NoTimeAssumption
    DEF setState, DeadlineSound, DeadlineOf, TimeoutOf, Durations, Time, States
  <1>5. HardDeadline'
    BY DEF setState, HardDeadline, DeadlineOf, TimeoutOf
  <1> QED
    BY <1>1, <1>2, <1>3, <1>4, <1>5

\* The conjuncts of IndInv that setState leaves open, for a step that sets no
\* confirmation and completes no handshake.
LEMMA SetStateQuietInv ==
    ASSUME IndInv, NEW next \in {"InitialSent", "Rekeying", "Draining", "Closed"},
           NEW now \in Time, requireTime(now),
           DeadlineOf(next, now) \in Time \cup {NoTime},
           setState(next, now, ping),
           UNCHANGED <<confirm, historyVars>>
    PROVE  IndInv'
  <1>1. /\ role' \in Roles /\ state' \in States
        /\ enteredAt' \in Time /\ lastEventAt' \in Time
        /\ deadline' \in Time \cup {NoTime}
        /\ initialRetries' \in 0..MaxInitialRetries
        /\ rekeyHandshakeReady' \in BOOLEAN
        /\ ping' = NoPing
        /\ ping' \in [outstanding : BOOLEAN, id : OperationIDs \cup {0},
                      retries : 0..MaxControlRetries]
        /\ DeadlineSound' /\ HardDeadline'
    BY SetStateInv DEF States
  <1>2. TypeOK'
    BY <1>1 DEF IndInv, TypeOK, historyVars
  <1>3. PingIsCurrent'
    BY <1>1 DEF PingIsCurrent, NoPing
  <1>4. GraceAnchored' /\ UnconfirmedLag'
    BY DEF setState, GraceAnchored, UnconfirmedLag
  <1> QED
    BY <1>1, <1>2, <1>3, <1>4 DEF IndInv

\* BeginHandshake arms the InitialSent deadline and keeps the invariant.
LEMMA BeginHandshakeInv ==
    ASSUME IndInv, NEW now \in CallTimes, BeginHandshake(now) PROVE IndInv'
  <1>1. now \in Time /\ DeadlineOf("InitialSent", now) \in Time \cup {NoTime}
    BY HorizonFacts DEF DeadlineOf, TimeoutOf, Durations
  <1> QED
    BY <1>1, SetStateQuietInv DEF BeginHandshake

\* BeginRekey starts without a ready handshake and without a PING.
LEMMA BeginRekeyInv ==
    ASSUME IndInv, NEW now \in CallTimes, BeginRekey(now) PROVE IndInv'
  <1>1. now \in Time /\ DeadlineOf("Rekeying", now) \in Time \cup {NoTime}
    BY HorizonFacts DEF DeadlineOf, TimeoutOf, Durations
  <1> QED
    BY <1>1, SetStateQuietInv DEF BeginRekey

\* BeginDrain, which may come after the deadline, arms a new one.
LEMMA BeginDrainInv ==
    ASSUME IndInv, NEW now \in CallTimes, BeginDrain(now) PROVE IndInv'
  <1>1. now \in Time /\ DeadlineOf("Draining", now) \in Time \cup {NoTime}
    BY HorizonFacts DEF DeadlineOf, TimeoutOf, Durations
  <1> QED
    BY <1>1, SetStateQuietInv DEF BeginDrain

\* Close drops the deadline and the PING from every state.
LEMMA CloseInv ==
    ASSUME IndInv, NEW now \in CallTimes, Close(now) PROVE IndInv'
  <1>1. now \in Time /\ DeadlineOf("Closed", now) \in Time \cup {NoTime}
    BY HorizonFacts DEF DeadlineOf, TimeoutOf, Durations
  <1> QED
    BY <1>1, SetStateQuietInv DEF Close

\* CheckTimeout leads to Draining with a deadline or to Closed without.
LEMMA PollInv ==
    ASSUME IndInv, Poll PROVE IndInv'
  <1>1. PICK now \in PollTimes : CheckTimeout(now)
    BY DEF Poll
  <1>2. PICK next \in States : Edge("Timeout", next) /\ setState(next, now, ping)
    BY <1>1 DEF CheckTimeout
  <1>3. \/ state \in {"InitialSent", "PendingConfirm", "Draining"} /\ next = "Closed"
        \/ state \in {"Established", "Rekeying"} /\ next = "Draining"
    BY <1>2, EdgeFacts DEF IndInv, TypeOK
  <1>4. now \in Time
    BY HorizonAssumption, PolicyAssumption, HorizonFacts
    DEF PollTimes, Time, Durations
  <1>5. DeadlineOf(next, now) \in Time \cup {NoTime}
    BY <1>3, HorizonFacts DEF DeadlineOf, TimeoutOf, PollTimes
  <1> QED
    BY <1>1, <1>2, <1>3, <1>4, <1>5, SetStateQuietInv DEF CheckTimeout

-----------------------------------------------------------------------------
(* The events that confirm or complete a handshake.                        *)

\* HandshakeComplete discards the PING of an earlier handshake.
LEMMA HandshakeCompleteInv ==
    ASSUME IndInv, NEW now \in CallTimes, HandshakeComplete(now) PROVE IndInv'
  <1>1. /\ now \in Time /\ now + PendingConfirm \in Time
        /\ now < now + PendingConfirm /\ now + PendingConfirm # NoTime
    BY HorizonFacts, NoTimeAssumption DEF Durations, Time
  <1>2. /\ handshakes' = handshakes + 1
        /\ handshakes' \in 0..MaxHandshakes
        /\ pingHandshake' \in 0..handshakes'
        /\ confirmedHandshake' \in 0..handshakes'
        /\ confirmedHandshake' < handshakes'
        /\ confirm' = confirm
    BY HorizonAssumption DEF HandshakeComplete, IndInv, TypeOK
  <1>3. CASE HandshakeCompleteInRekey(now)
    <2>1. state = "Rekeying" /\ state' = "Rekeying"
      BY <1>3, EdgeFacts
      DEF HandshakeCompleteInRekey, stayInState, IndInv, TypeOK
    <2>2. ping' = NoPing
      BY <1>3 DEF HandshakeCompleteInRekey
    <2>3. ping' \in [outstanding : BOOLEAN, id : OperationIDs \cup {0},
                     retries : 0..MaxControlRetries]
      BY <2>2, PolicyAssumption DEF NoPing
    <2>4. rekeyHandshakeReady' = TRUE
      BY <1>3 DEF HandshakeCompleteInRekey
    <2>5. TypeOK'
      BY <1>1, <1>2, <1>3, <2>3, <2>4
      DEF HandshakeCompleteInRekey, stayInState, IndInv, TypeOK
    <2>6. DeadlineSound'
      BY <1>1, <1>3, <2>1
      DEF HandshakeComplete, HandshakeCompleteInRekey, stayInState, requireTime,
          IndInv, DeadlineSound, TypeOK, Time
    <2>7. HardDeadline' /\ GraceAnchored' /\ UnconfirmedLag'
      BY <1>2, <2>1, <2>4 DEF HardDeadline, GraceAnchored, UnconfirmedLag
    <2>8. PingIsCurrent'
      BY <2>2 DEF PingIsCurrent, NoPing
    <2> QED
      BY <2>5, <2>6, <2>7, <2>8 DEF IndInv
  <1>4. CASE setState("PendingConfirm", now, ping)
    <2>1. DeadlineOf("PendingConfirm", now) \in Time \cup {NoTime}
      BY <1>1 DEF DeadlineOf, TimeoutOf
    <2>2. /\ role' \in Roles /\ state' \in States
          /\ enteredAt' \in Time /\ lastEventAt' \in Time
          /\ deadline' \in Time \cup {NoTime}
          /\ initialRetries' \in 0..MaxInitialRetries
          /\ rekeyHandshakeReady' \in BOOLEAN
          /\ ping' = NoPing
          /\ ping' \in [outstanding : BOOLEAN, id : OperationIDs \cup {0},
                        retries : 0..MaxControlRetries]
          /\ DeadlineSound' /\ HardDeadline'
      BY <1>1, <1>4, <2>1, SetStateInv DEF HandshakeComplete, States
    <2>3. TypeOK'
      BY <1>2, <2>2 DEF IndInv, TypeOK
    <2>4. PingIsCurrent'
      BY <2>2 DEF PingIsCurrent, NoPing
    <2>5. GraceAnchored' /\ UnconfirmedLag'
      BY <1>2, <1>4 DEF setState, GraceAnchored, UnconfirmedLag
    <2> QED
      BY <2>2, <2>3, <2>4, <2>5 DEF IndInv
  <1> QED
    BY <1>3, <1>4 DEF HandshakeComplete

\* AcceptPong establishes the handshake its PING was issued for.
LEMMA AcceptPongInv ==
    ASSUME IndInv, NEW now \in CallTimes, NEW operationID \in OperationIDs,
           AcceptPong(operationID, now)
    PROVE  IndInv'
  <1>1. now \in Time /\ DeadlineOf("Established", now) \in Time \cup {NoTime}
    BY HorizonFacts DEF DeadlineOf, TimeoutOf, Durations
  <1>2. role = "client" /\ role' = "client" /\ state' = "Established"
    BY EdgeFacts DEF AcceptPong, setState, IndInv, TypeOK
  <1>3. /\ role' \in Roles /\ state' \in States
        /\ enteredAt' \in Time /\ lastEventAt' \in Time
        /\ deadline' \in Time \cup {NoTime}
        /\ initialRetries' \in 0..MaxInitialRetries
        /\ rekeyHandshakeReady' \in BOOLEAN
        /\ ping' = NoPing
        /\ ping' \in [outstanding : BOOLEAN, id : OperationIDs \cup {0},
                      retries : 0..MaxControlRetries]
        /\ DeadlineSound' /\ HardDeadline'
    BY <1>1, SetStateInv DEF AcceptPong, States
  <1>4. TypeOK'
    BY <1>3 DEF AcceptPong, IndInv, TypeOK
  <1>5. PingIsCurrent'
    BY <1>3 DEF PingIsCurrent, NoPing
  <1>6. GraceAnchored' /\ UnconfirmedLag'
    BY <1>2 DEF GraceAnchored, UnconfirmedLag
  <1> QED
    BY <1>3, <1>4, <1>5, <1>6 DEF IndInv

\* AcceptConfirmPing anchors the grace, or answers a duplicate inside it.
LEMMA AcceptConfirmPingInv ==
    ASSUME IndInv, NEW now \in CallTimes, NEW operationID \in OperationIDs,
           AcceptConfirmPing(operationID, now)
    PROVE  IndInv'
  <1>1. /\ now \in Time /\ DeadlineOf("Established", now) \in Time \cup {NoTime}
        /\ now + EstablishedIdle \in Time /\ now < now + EstablishedIdle
        /\ now + ConfirmGrace \in Time
        /\ now + EstablishedIdle # NoTime
    BY HorizonFacts, NoTimeAssumption DEF DeadlineOf, TimeoutOf, Durations, Time
  <1>2. role = "server" /\ ping = NoPing
    BY EdgeFacts DEF AcceptConfirmPing, IndInv, TypeOK, PingIsCurrent
  <1>3. CASE AcceptDuplicateConfirm(operationID, now)
    <2>1. TypeOK'
      BY <1>1, <1>3
      DEF AcceptDuplicateConfirm, stayInState, historyVars, IndInv, TypeOK
    <2>2. DeadlineSound' /\ HardDeadline'
      BY <1>1, <1>3
      DEF AcceptConfirmPing, AcceptDuplicateConfirm, stayInState, requireTime,
          IndInv, DeadlineSound, HardDeadline, TypeOK, Time
    <2>3. PingIsCurrent'
      BY <1>2, <1>3 DEF AcceptDuplicateConfirm, PingIsCurrent, NoPing
    <2>4. GraceAnchored' /\ UnconfirmedLag'
      BY <1>3
      DEF AcceptDuplicateConfirm, stayInState, IndInv, GraceAnchored, UnconfirmedLag
    <2> QED
      BY <2>1, <2>2, <2>3, <2>4 DEF IndInv
  <1>4. CASE AcceptFirstConfirm(operationID, now)
    <2>1. /\ role' \in Roles /\ state' \in States
          /\ enteredAt' \in Time /\ lastEventAt' \in Time
          /\ deadline' \in Time \cup {NoTime}
          /\ initialRetries' \in 0..MaxInitialRetries
          /\ rekeyHandshakeReady' \in BOOLEAN
          /\ ping' = NoPing
          /\ ping' \in [outstanding : BOOLEAN, id : OperationIDs \cup {0},
                        retries : 0..MaxControlRetries]
          /\ DeadlineSound' /\ HardDeadline'
      BY <1>1, <1>2, <1>4, SetStateInv
      DEF AcceptConfirmPing, AcceptFirstConfirm, States
    <2>2. confirm' \in [has : BOOLEAN, id : OperationIDs \cup {0},
                        graceUntil : Time \cup {NoTime}]
      BY <1>1, <1>4 DEF AcceptFirstConfirm
    <2>3. /\ handshakes' \in 0..MaxHandshakes
          /\ pingHandshake' \in 0..handshakes'
          /\ confirmedHandshake' \in 0..handshakes'
      BY <1>4 DEF AcceptFirstConfirm, IndInv, TypeOK
    <2>4. TypeOK'
      BY <2>1, <2>2, <2>3 DEF TypeOK
    <2>5. PingIsCurrent'
      BY <2>1 DEF PingIsCurrent, NoPing
    <2>6. GraceAnchored' /\ UnconfirmedLag'
      BY <1>4 DEF AcceptFirstConfirm, setState, GraceAnchored, UnconfirmedLag
    <2> QED
      BY <2>1, <2>4, <2>5, <2>6 DEF IndInv
  <1> QED
    BY <1>3, <1>4 DEF AcceptConfirmPing

-----------------------------------------------------------------------------
(* The events that stay in their state.                                    *)

\* They advance lastEventAt, and never past the deadline.
LEMMA StayInv ==
    ASSUME IndInv, NEW now \in CallTimes,
           requireTime(now), requireBeforeDeadline(now), stayInState(now),
           UNCHANGED <<deadline, rekeyHandshakeReady, confirm, handshakes,
                       confirmedHandshake>>,
           initialRetries' \in 0..MaxInitialRetries,
           ping' \in [outstanding : BOOLEAN, id : OperationIDs \cup {0},
                      retries : 0..MaxControlRetries],
           pingHandshake' \in 0..handshakes,
           state # "Established",
           PingIsCurrent'
    PROVE  IndInv'
  <1>1. now \in Time
    BY HorizonAssumption, PolicyAssumption, HorizonFacts DEF CallTimes, Durations
  <1>2. TypeOK'
    BY <1>1 DEF stayInState, IndInv, TypeOK
  <1>3. DeadlineSound'
    BY <1>1 DEF requireTime, requireBeforeDeadline, stayInState, IndInv, TypeOK,
                DeadlineSound, Time
  <1>4. HardDeadline' /\ GraceAnchored' /\ UnconfirmedLag'
    BY DEF stayInState, IndInv, HardDeadline, GraceAnchored, UnconfirmedLag
  <1> QED
    BY <1>2, <1>3, <1>4 DEF IndInv

\* RecordInitialRetransmission counts up to the limit of the policy.
LEMMA InitialRetransmissionInv ==
    ASSUME IndInv, NEW now \in CallTimes,
           HandleRetry(now) \/ RecordInitialRetransmission(now)
    PROVE  IndInv'
  <1>1. state # "Established"
    BY EdgeFacts DEF HandleRetry, RecordInitialRetransmission, IndInv, TypeOK
  <1>2. initialRetries' \in 0..MaxInitialRetries
    BY PolicyAssumption DEF HandleRetry, RecordInitialRetransmission, IndInv, TypeOK
  <1>3. PingIsCurrent'
    BY DEF HandleRetry, RecordInitialRetransmission, stayInState, historyVars,
           IndInv, PingIsCurrent
  <1> QED
    BY <1>1, <1>2, <1>3, StayInv
    DEF HandleRetry, RecordInitialRetransmission, historyVars, IndInv, TypeOK

\* IssuePing ties the PING to the latest completed handshake.
LEMMA IssuePingInv ==
    ASSUME IndInv, NEW now \in CallTimes, NEW operationID \in OperationIDs,
           IssuePing(operationID, now)
    PROVE  IndInv'
  <1>1. role = "client" /\ state \in {"PendingConfirm", "Rekeying"}
    BY EdgeFacts DEF IssuePing, IndInv, TypeOK
  <1>2. /\ ping' \in [outstanding : BOOLEAN, id : OperationIDs \cup {0},
                      retries : 0..MaxControlRetries]
        /\ ping'.outstanding
    BY PolicyAssumption DEF IssuePing
  <1>3. pingHandshake' \in 0..handshakes
    BY DEF IssuePing, IndInv, TypeOK
  <1>4. PingIsCurrent'
    BY <1>1, <1>2 DEF IssuePing, stayInState, PingIsCurrent
  <1> QED
    BY <1>1, <1>2, <1>3, <1>4, StayInv DEF IssuePing, IndInv, TypeOK

\* RecordPingRetransmission counts up to the limit of the policy.
LEMMA RecordPingRetransmissionInv ==
    ASSUME IndInv, NEW now \in CallTimes, NEW operationID \in OperationIDs,
           RecordPingRetransmission(operationID, now)
    PROVE  IndInv'
  <1>1. state # "Established"
    BY EdgeFacts DEF RecordPingRetransmission, IndInv, TypeOK
  <1>2. /\ ping' \in [outstanding : BOOLEAN, id : OperationIDs \cup {0},
                      retries : 0..MaxControlRetries]
        /\ ping'.outstanding
    BY PolicyAssumption DEF RecordPingRetransmission, IndInv, TypeOK
  <1>3. PingIsCurrent'
    BY <1>2 DEF RecordPingRetransmission, stayInState, historyVars, IndInv,
                PingIsCurrent
  <1> QED
    BY <1>1, <1>2, <1>3, StayInv
    DEF RecordPingRetransmission, historyVars, IndInv, TypeOK

\* Touch moves the idle deadline of Established along with the event.
LEMMA TouchInv ==
    ASSUME IndInv, NEW now \in CallTimes, Touch(now) PROVE IndInv'
  <1>1. /\ now \in Time /\ now + EstablishedIdle \in Time
        /\ now < now + EstablishedIdle /\ now + EstablishedIdle # NoTime
    BY HorizonFacts, NoTimeAssumption DEF Durations, Time
  <1>2. state = "Established"
    BY EdgeFacts DEF Touch, IndInv, TypeOK
  <1>3. TypeOK'
    BY <1>1 DEF Touch, stayInState, historyVars, IndInv, TypeOK
  <1>4. DeadlineSound' /\ HardDeadline'
    BY <1>1, <1>2
    DEF Touch, stayInState, requireTime, IndInv, DeadlineSound, HardDeadline,
        TypeOK, Time
  <1>5. PingIsCurrent' /\ GraceAnchored' /\ UnconfirmedLag'
    BY DEF Touch, stayInState, historyVars, IndInv, PingIsCurrent, GraceAnchored,
           UnconfirmedLag
  <1> QED
    BY <1>3, <1>4, <1>5 DEF IndInv

-----------------------------------------------------------------------------
(* The theorems.                                                           *)

\* Every method preserves the invariant.
LEMMA NextIndInv == IndInv /\ [Next]_vars => IndInv'
  <1> SUFFICES ASSUME IndInv, [Next]_vars PROVE IndInv'
    OBVIOUS
  <1>1. CASE Poll
    BY <1>1, PollInv
  <1>2. ASSUME NEW now \in CallTimes,
               \/ BeginHandshake(now) \/ HandleRetry(now)
               \/ RecordInitialRetransmission(now) \/ HandshakeComplete(now)
               \/ BeginRekey(now) \/ Touch(now) \/ BeginDrain(now) \/ Close(now)
        PROVE  IndInv'
    BY <1>2, BeginHandshakeInv, InitialRetransmissionInv, HandshakeCompleteInv,
       BeginRekeyInv, TouchInv, BeginDrainInv, CloseInv
  <1>3. ASSUME NEW now \in CallTimes, NEW operationID \in OperationIDs,
               \/ IssuePing(operationID, now)
               \/ RecordPingRetransmission(operationID, now)
               \/ AcceptPong(operationID, now)
               \/ AcceptConfirmPing(operationID, now)
        PROVE  IndInv'
    BY <1>3, IssuePingInv, RecordPingRetransmissionInv, AcceptPongInv,
       AcceptConfirmPingInv
  <1>4. CASE UNCHANGED vars
    BY <1>4 DEF vars, historyVars, IndInv, TypeOK, DeadlineSound, HardDeadline,
                PingIsCurrent, GraceAnchored, UnconfirmedLag
  <1> QED
    BY <1>1, <1>2, <1>3, <1>4 DEF Next

\* The inductive invariant holds in every reachable state.
THEOREM Invariance == Spec => []IndInv
  <1>1. Init => IndInv
    BY InitIndInv
  <1>2. IndInv /\ [Next]_vars => IndInv'
    BY NextIndInv
  <1> QED
    BY <1>1, <1>2, PTL DEF Spec

\* Type correctness: in particular the uint8 retry counters never pass the
\* limits of the policy.
THEOREM TypeCorrect == Spec => []TypeOK
  <1>1. IndInv => TypeOK
    BY DEF IndInv
  <1> QED
    BY <1>1, Invariance, PTL

\* Exactly the states with a timeout have a deadline, and no event moves a
\* machine up to it (setStateLocked, requireBeforeDeadlineLocked).
THEOREM DeadlinesSound == Spec => []DeadlineSound
  <1>1. IndInv => DeadlineSound
    BY DEF IndInv
  <1> QED
    BY <1>1, Invariance, PTL

\* RETRYs, retransmissions and PINGs never extend a handshake or the draining
\* period.
THEOREM DeadlinesHard == Spec => []HardDeadline
  <1>1. IndInv => HardDeadline
    BY DEF IndInv
  <1> QED
    BY <1>1, Invariance, PTL

\* The outstanding PING always belongs to the latest completed handshake.
THEOREM PingsCurrent == Spec => []PingIsCurrent
  <1>1. IndInv => PingIsCurrent
    BY DEF IndInv
  <1> QED
    BY <1>1, Invariance, PTL

\* Duplicates of a CONFIRM never prolong its grace period.
THEOREM GraceIsAnchored == Spec => []GraceAnchored
  <1>1. IndInv => GraceAnchored
    BY DEF IndInv
  <1> QED
    BY <1>1, Invariance, PTL

\* A step whose time is at or after the deadline closes or drains.
LEMMA StepLate ==
    ASSUME IndInv, Next, deadline # NoTime, deadline <= lastEventAt'
    PROVE  /\ \/ state' = "Closed"
              \/ state \in {"Established", "Rekeying"} /\ state' = "Draining"
           /\ UNCHANGED <<confirm, historyVars>>
  <1>1. /\ deadline \in Nat
        /\ \A now \in CallTimes : now \in Nat /\ ~(now < deadline /\ deadline <= now)
    BY HorizonAssumption DEF IndInv, TypeOK, Time, CallTimes
  <1>2. state # "Idle"
    BY DEF IndInv, DeadlineSound
  <1>3. CASE Poll
    <2>1. PICK now \in PollTimes : CheckTimeout(now)
      BY <1>3 DEF Poll
    <2>2. PICK next \in States : Edge("Timeout", next) /\ state' = next
      BY <2>1 DEF CheckTimeout, setState
    <2> QED
      BY <2>1, <2>2, EdgeFacts DEF CheckTimeout, IndInv, TypeOK
  <1>4. ASSUME NEW now \in CallTimes,
               \/ HandleRetry(now) \/ RecordInitialRetransmission(now)
               \/ HandshakeComplete(now) \/ BeginRekey(now) \/ Touch(now)
        PROVE  FALSE
    <2>1. now < deadline /\ lastEventAt' = now
      BY <1>4
      DEF HandleRetry, RecordInitialRetransmission, HandshakeComplete,
          HandshakeCompleteInRekey, BeginRekey, Touch, setState, stayInState,
          requireBeforeDeadline
    <2> QED
      BY <1>1, <2>1
  <1>5. ASSUME NEW now \in CallTimes, NEW operationID \in OperationIDs,
               \/ IssuePing(operationID, now)
               \/ RecordPingRetransmission(operationID, now)
               \/ AcceptPong(operationID, now)
               \/ AcceptConfirmPing(operationID, now)
        PROVE  FALSE
    <2>1. now < deadline /\ lastEventAt' = now
      BY <1>5
      DEF IssuePing, RecordPingRetransmission, AcceptPong, AcceptConfirmPing,
          AcceptDuplicateConfirm, AcceptFirstConfirm, setState, stayInState,
          requireBeforeDeadline
    <2> QED
      BY <1>1, <2>1
  <1>6. ASSUME NEW now \in CallTimes, BeginHandshake(now) \/ BeginDrain(now) \/ Close(now)
        PROVE  /\ \/ state' = "Closed"
                  \/ state \in {"Established", "Rekeying"} /\ state' = "Draining"
               /\ UNCHANGED <<confirm, historyVars>>
    BY <1>2, <1>6, EdgeFacts
    DEF BeginHandshake, BeginDrain, Close, setState, IndInv, TypeOK
  <1> QED
    BY <1>3, <1>4, <1>5, <1>6 DEF Next

\* Whatever clock readings the callers bring, a call at or after the deadline
\* only ends a machine (requireBeforeDeadlineLocked, BeginDrain, Close).
THEOREM LateCallsEnd == Spec => LateCallsOnlyEnd
  <1>1. IndInv /\ [Next]_vars =>
           [deadline # NoTime /\ deadline <= lastEventAt' =>
              /\ \/ state' = "Closed"
                 \/ state \in {"Established", "Rekeying"} /\ state' = "Draining"
              /\ UNCHANGED <<confirm, historyVars>>]_vars
    BY StepLate
  <1> QED
    BY <1>1, Invariance, PTL DEF Spec, LateCallsOnlyEnd

\* Becoming Established always confirms the latest completed handshake, and
\* no handshake is confirmed twice.
LEMMA StepFresh ==
    ASSUME IndInv, [Next]_vars, state # "Established", state' = "Established"
    PROVE  confirmedHandshake' = handshakes /\ confirmedHandshake < handshakes
  <1>1. ~Poll
    <2> SUFFICES ASSUME Poll PROVE FALSE
      OBVIOUS
    <2>1. PICK now \in PollTimes : CheckTimeout(now)
      BY DEF Poll
    <2>2. PICK next \in States : Edge("Timeout", next) /\ state' = next
      BY <2>1 DEF CheckTimeout, setState
    <2> QED
      BY <2>2, EdgeFacts DEF IndInv, TypeOK
  <1>2. ASSUME NEW now \in CallTimes,
               \/ BeginHandshake(now) \/ HandleRetry(now)
               \/ RecordInitialRetransmission(now) \/ HandshakeComplete(now)
               \/ BeginRekey(now) \/ Touch(now) \/ BeginDrain(now) \/ Close(now)
        PROVE  FALSE
    BY <1>2
    DEF BeginHandshake, HandleRetry, RecordInitialRetransmission,
        HandshakeComplete, HandshakeCompleteInRekey, BeginRekey, Touch,
        BeginDrain, Close, setState, stayInState
  <1>3. ASSUME NEW now \in CallTimes, NEW operationID \in OperationIDs,
               IssuePing(operationID, now) \/ RecordPingRetransmission(operationID, now)
        PROVE  FALSE
    BY <1>3 DEF IssuePing, RecordPingRetransmission, stayInState
  <1>4. ASSUME NEW now \in CallTimes, NEW operationID \in OperationIDs,
               AcceptPong(operationID, now)
        PROVE  confirmedHandshake' = handshakes /\ confirmedHandshake < handshakes
    BY <1>4 DEF AcceptPong, IndInv, PingIsCurrent, UnconfirmedLag
  <1>5. ASSUME NEW now \in CallTimes, NEW operationID \in OperationIDs,
               AcceptConfirmPing(operationID, now)
        PROVE  confirmedHandshake' = handshakes /\ confirmedHandshake < handshakes
    <2>1. state \in {"PendingConfirm", "Rekeying"}
      BY <1>5, EdgeFacts DEF AcceptConfirmPing, IndInv, TypeOK
    <2>2. AcceptFirstConfirm(operationID, now)
      BY <1>5, <2>1 DEF AcceptConfirmPing, AcceptDuplicateConfirm
    <2> QED
      BY <2>1, <2>2 DEF AcceptFirstConfirm, IndInv, UnconfirmedLag
  <1> QED
    BY <1>1, <1>2, <1>3, <1>4, <1>5 DEF Next, vars

\* A machine becomes Established only for the latest completed handshake,
\* and once for each (AcceptPong, AcceptConfirmPing).
THEOREM FreshEstablishment == Spec => EstablishedOnFreshHandshake
  <1>1. IndInv /\ [Next]_vars =>
           [state # "Established" /\ state' = "Established"
              => /\ confirmedHandshake' = handshakes
                 /\ confirmedHandshake < handshakes]_vars
    BY StepFresh
  <1> QED
    BY <1>1, Invariance, PTL DEF Spec, EstablishedOnFreshHandshake
=============================================================================
