SPECIFICATION MCSpec
CONSTANTS
    MaxUint16 = 7
    Overhead = 2
    MinimumMTU = 2
    DefaultSize = 5
    DefaultLease = 2
    LeaseSeconds = {0}
    WireSizes = {4, 6}
    None = None
    MaxUint = 150
    DefaultMaxFramePlaintext = 150
    DefaultMaxDatagramSize = 150
    DefaultMaxCloseTextLength = 1
    ConfirmBodySize = 2
    ChallengeBodySize = 1
    EphemeralPublicKeySize = 1
    AEADTagSize = 1
    MinRetryTokenSize = 2
    Error = Error
    MaxInt = 31
INVARIANTS
    AnswerSound
    RejectedOnlyLocally
    RefusedOnlyForFamiliesOrSize
    WireCanonical
    BackoffSaturates
CHECK_DEADLOCK FALSE
