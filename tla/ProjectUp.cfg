SPECIFICATION Spec
CONSTANTS
    Root = {r1, r2}
    None = None
    Unread = Unread
    Steps = 2
    MaxVersion = 2
SYMMETRY Symmetry
CONSTRAINT OneStray
INVARIANTS TypeOK ProvisionedWhole ReprovisionIsFresh
PROPERTY OwnObjectsOnly
