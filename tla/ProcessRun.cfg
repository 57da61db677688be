CONSTANTS
    Modes = {"untimed", "timed", "stream"}
    PipeSize = 1
    MaxWrites = 2
SPECIFICATION Spec
INVARIANTS Consistent OutputWhole KilledWhole
PROPERTY Returns
CHECK_DEADLOCK FALSE
