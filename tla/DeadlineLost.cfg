CONSTANTS
    m = m
    Message <- MCMessage
    Sent <- MCMessage
    Wants <- MCWants
    Delays = {1}
    Names = {}
    MaxProcs = 2
    MaxWaits = 1
    MaxMailbox = 1
    MaxClock = 1
SPECIFICATION Spec
INVARIANT DeadlineKept
