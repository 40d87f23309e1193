SPECIFICATION Spec
CONSTANTS
    Cli = {c1}
    Image = {i1}
    VM = {v1, v2}
    Snap = {s1}
    None = None
    MaxStamp = 2
    Builders = 1
    Together = FALSE
PROPERTY RestoresAPair
