CONSTANTS
    Message <- Envelopes
    Sent = {}
    Wants = {}
    Delays = {1}
    Names = {"svc"}
    MaxProcs = 3
    MaxWaits = 2
    MaxMailbox = 2
    MaxClock = 1
    Starts = {"task", "server"}
    NumWorkers = 1
    PollDelay = 1
    MaxCalls = 1
SPECIFICATION ActorsSpec
INVARIANTS ActorsConsistent CallAccounted AwaitNotStranded
