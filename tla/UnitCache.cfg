CONSTANTS
    Compilers = {c1, c2}
    MaxBuilds = 2
    MaxEdits = 1
    MaxFaults = 1
SPECIFICATION Spec
SYMMETRY Alike
INVARIANT CacheCorrect
PROPERTY WriteOnce
CHECK_DEADLOCK FALSE
