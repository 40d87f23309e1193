SPECIFICATION Spec
CONSTANTS
    Cli = {c1, c2}
    Image = {i1}
    VM = {v1}
    Snap = {s1}
    None = None
    MaxStamp = 2
    Builders = 1
    Together = FALSE
SYMMETRY Symmetry
ACTION_CONSTRAINT Asked
CONSTRAINT DisksAreLinked
INVARIANTS TypeOK WritesStayHome TemplateWhole
PROPERTIES ImagesAreWhole SnapshotsArePairs CreatedIsComplete 
