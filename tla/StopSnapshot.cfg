SPECIFICATION Spec
CONSTANTS
    c1 = c1
    c2 = c2
    p1 = p1
    p2 = p2
    p3 = p3
    NoPid = NoPid
    NoName = NoName
    s1 = s1
    Cli = {c1, c2}
    Pid = {p1, p2, p3}
    Relays = {}
    SnapName = {s1}
    Faults = {}
SYMMETRY Symmetry
INVARIANT StopExcludesSnapshot
CHECK_DEADLOCK FALSE
