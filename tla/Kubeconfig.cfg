SPECIFICATION Spec
CONSTANTS
    c1 = c1
    c2 = c2
    a = a
    b = b
    mine = mine
    NoName = NoName
    NoPath = NoPath
    Free = Free
    Stale = Stale
    Cli = {c1, c2}
    Name = {a, b}
    Own = {mine}
    Path = {1}
    MaxStarts = 2
SYMMETRY Symmetry
INVARIANTS TypeOK NoLeakedLock
PROPERTIES StoreSpec EntryNeverOlder ReferencesStay
