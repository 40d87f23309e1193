SPECIFICATION Spec
CONSTANTS
    c1 = c1
    p1 = p1
    p2 = p2
    p3 = p3
    p4 = p4
    p5 = p5
    NoPid = NoPid
    NoName = NoName
    s1 = s1
    Cli = {c1}
    Pid = {p1, p2, p3, p4, p5}
    Relays = {"docker", "port"}
    SnapName = {s1}
    Faults = {"helper-crash"}
SYMMETRY Symmetry
INVARIANT NoStrayProcess
PROPERTY PublishAfterStop
