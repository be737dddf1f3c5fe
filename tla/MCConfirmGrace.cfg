SPECIFICATION Spec
CONSTANTS
    InitialSent = 3
    PendingConfirm = 2
    EstablishedIdle = 3
    Draining = 1
    ConfirmGrace = 2
    MaxInitialRetries = 2
    MaxControlRetries = 1
    OperationIDs = {0, 7}
    NoTime = NoTime
    CallHorizon = 5
    PollHorizon = 9
    MaxHandshakes = 3
PROPERTY
    RetransmittedConfirmIsDuplicate
CHECK_DEADLOCK FALSE
