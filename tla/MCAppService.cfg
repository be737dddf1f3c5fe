SPECIFICATION Spec
CONSTANTS
    addr = addr
    wide = wide
    Targets = {addr, wide}
    Covers <- MCCovers
    Bits <- MCBits
    Actions = {"TUNNEL", "DIRECT"}
    None = None
    Requests = {r1, r2, r3}
    Operations = {o1, o2}
    Validations = {v1, v2}
    Servers = {s1, s2}
    AutoTargets = {addr}
    maxConcurrent = 2
    maxPendingValidations = 1
    validationLifetime = 1
    Namings <- MCNamings
    MaxClock = 1
    MaxRevision = 3
CONSTRAINT Followed
SYMMETRY ServiceSymmetry
INVARIANTS
    ExpiredStopsDeciding
    ResourcesAccounted
PROPERTIES
    EditsFindWhatWasShown
    CompletedOnce
CHECK_DEADLOCK FALSE
