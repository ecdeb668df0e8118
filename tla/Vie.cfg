CONSTANTS
    DIM = 6
    GRAIN = 3
    Threads = 2
    Images <- MCImages
    RefreshRate = 1
    KeyRates = {1, 2}
    DoPause = TRUE
    MaxIter = 6
SPECIFICATION Spec
INVARIANTS
    FixpointsAreFound
PROPERTIES
    ImplementsLife
CHECK_DEADLOCK FALSE
