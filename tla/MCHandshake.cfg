SPECIFICATION Spec
CONSTANTS
    Clients = {a1, a2}
    Sessions = {s1, s2}
    Challenges = {x1, x2}
    rehandshakePacketNumber = 2
    ReplayWindowSize = 1
    None = None
    Tombstone = Tombstone
SYMMETRY HandshakeSymmetry
INVARIANTS
    NoncesUnique
    DataOnlyConfirmed
    RetransmissionAnswerable
PROPERTY
    RefinesEstablishment
CHECK_DEADLOCK FALSE
