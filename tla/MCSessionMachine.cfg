SPECIFICATION FairSpec
CONSTANTS
    InitialSent = 3
    PendingConfirm = 2
    EstablishedIdle = 3
    Draining = 1
    ConfirmGrace = 2
    MaxInitialRetries = 2
    MaxControlRetries = 1
    OperationIDs = {0, 7}
    NoTime = NoTime
    CallHorizon = 7
    PollHorizon = 11
    MaxHandshakes = 3
INVARIANTS
    HardDeadline
    PingIsCurrent
    GraceAnchored
PROPERTIES
    LateCallsOnlyEnd
    EstablishedOnFreshHandshake
    HandshakeDecided
    DrainEnds
CHECK_DEADLOCK FALSE
