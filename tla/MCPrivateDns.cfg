SPECIFICATION Spec
CONSTANTS
    Keys = {k1, k2}
    Refreshers = {r1, r2}
    Resolvers = {q1}
    TTLs = {1, 2}
    MaxVersion = 1
    MaxGeneration = 3
    MaxStores = 3
    MaxLookups = 2
    MaxTime = 2
    Failed = Failed
    None = None
SYMMETRY DnsSymmetry
INVARIANTS
    RecordsCurrent
    ExpiredOnce
    HealthConsistent
CHECK_DEADLOCK FALSE
