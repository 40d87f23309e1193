SPECIFICATION Spec
CONSTANTS
    c1 = c1
    p1 = p1
    p2 = p2
    p3 = p3
    p4 = p4
    NoPid = NoPid
    NoName = NoName
    s1 = s1
    Cli = {c1}
    Pid = {p1, p2, p3, p4}
    Relays = {}
    SnapName = {s1}
    Faults = {"vmm-crash", "vmm-hang", "helper-crash", "slow-exit", "io"}
SYMMETRY Symmetry
INVARIANT TypeOK
INVARIANT LiveVMMRecorded
INVARIANT NoWedgedDirectory
INVARIANT GuestResumed
CHECK_DEADLOCK FALSE
