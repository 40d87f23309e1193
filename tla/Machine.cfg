SPECIFICATION Spec
CONSTANTS
    c1 = c1
    c2 = c2
    p1 = p1
    p2 = p2
    d1 = d1
    d2 = d2
    NoPid = NoPid
    NoDir = NoDir
    Cli = {c1, c2}
    Pid = {p1, p2}
    Dir = {d1, d2}
    Faults = {"runner-crash", "machine", "guest-off", "slow", "io", "interrupt"}
SYMMETRY Symmetry
VIEW Seen
ACTION_CONSTRAINT StaysAlone
INVARIANTS TypeOK SavedWhole NoStrayRunner UpBeforeRunning
