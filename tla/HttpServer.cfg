CONSTANTS
    Conns = {a, b}
    Clients = {s, u}
    Linked = {a}
    MaximumHandlers = 1
    MaxErrors = 1
SPECIFICATION FairSpec
INVARIANTS Consistent ReportAddsUp StopMeansStopped
PROPERTIES StopReturns PendingServed
CHECK_DEADLOCK FALSE
