SPECIFICATION FairSpec
CONSTANTS
    Threads = {1, 2}
    Keys = {1, 2, 3}
    Entries = {1, 2, 3}
    CIDs = {1, 2}
    maxPendingAttempts = 2
    maxAttemptRecords = 2
    pendingAttemptTimeout = 1
    confirmGracePeriod = 1
    attemptReplayRetention = 1
    MaxClock = 2
    None = None
ACTION_CONSTRAINT FirstOfEqual
INVARIANTS
    CapacityAccounting
    ActiveIsCurrent
    CIDOwnership
    ExpiredStaysUnestablished
    NoStrandedSession
PROPERTY CallsReturn
CHECK_DEADLOCK FALSE
