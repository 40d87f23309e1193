SPECIFICATION Spec
CONSTANTS
    c1 = c1
    c2 = c2
    p1 = p1
    p2 = p2
    p3 = p3
    p4 = p4
    NoPid = NoPid
    NoName = NoName
    Cli = {c1, c2}
    Pid = {p1, p2, p3, p4}
    Relays = {}
    SnapName = {}
    Faults = {}
SYMMETRY Symmetry
PROPERTY NoSpawnOverRunning
CHECK_DEADLOCK FALSE
