CONSTANTS
    m = m
    Message <- MCMessage
    Sent <- MCMessage
    Wants <- MCWants
    Delays = {1}
    Names = {}
    MaxProcs = 2
    MaxWaits = 2
    MaxMailbox = 2
    MaxClock = 2
SPECIFICATION FairSpec
INVARIANTS Consistent OneHome NoLostWakeup TimeoutNotEarly StuckIsReal
PROPERTIES PendingTimerFires ReadyRuns
