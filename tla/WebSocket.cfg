CONSTANTS
    Handler = h
    Others = {o}
    Readers = {h}
    MaxMessages = 2
    MaxPings = 1
    MaxCalls = 2
SPECIFICATION FairSpec
INVARIANTS Consistent InOrder ReceiveHeld
PROPERTY ReceiveEnds
CHECK_DEADLOCK FALSE
