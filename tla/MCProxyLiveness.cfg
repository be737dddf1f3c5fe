SPECIFICATION Spec
CONSTANTS
    Requests = {r1, r2}
    Main = Main
    Children = {p1}
    ForeignPorts = {}
    None = None
PROPERTY RequestsReturn
CHECK_DEADLOCK FALSE
