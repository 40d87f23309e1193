SPECIFICATION FairSpec
CONSTANTS
    c1 = c1
    c2 = c2
    p1 = p1
    NoPid = NoPid
    NoName = NoName
    s1 = s1
    Cli = {c1, c2}
    Pid = {p1}
    Relays = {}
    SnapName = {s1}
    Faults = {"cli-crash", "vmm-crash", "vmm-hang", "slow-exit", "io"}
INVARIANT ExitBeforeWrite
CHECK_DEADLOCK FALSE
PROPERTY CommandReturns
