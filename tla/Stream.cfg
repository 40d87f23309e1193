SPECIFICATION Spec
CONSTANTS
    MaxBytes = 2
    Cap = 1
INVARIANT TypeOK
PROPERTIES StreamInOrder StreamArrives EndsTogether
CHECK_DEADLOCK FALSE
