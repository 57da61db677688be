CONSTANTS
    Message <- Envelopes
    Sent = {}
    Wants = {}
    Delays = {}
    Names = {}
    MaxProcs = 5
    MaxWaits = 3
    MaxMailbox = 0
    MaxClock = 3
    Starts = {"supervisor"}
    NumWorkers = 2
    PollDelay = 1
    MaxCalls = 0
SPECIFICATION ActorsFairSpec
INVARIANTS OneLiveChild PollReplaces
PROPERTY SupervisorWakes
