SPECIFICATION Spec
CONSTANTS
    Requests = {r1, r2}
    Main = Main
    Children = {p1, p2, p3}
    ForeignPorts = {"tcp", "udp"}
    None = None
SYMMETRY ProxySymmetry
INVARIANTS
    NoLostChild
    AllOrNothing
    NoStaleListener
    CleanExit
CHECK_DEADLOCK FALSE
