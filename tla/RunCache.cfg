CONSTANTS
    Processes = {p, q}
    MaxRuns = 3
    MaxFaults = 1
    MaxEdits = 2
    Removable = {"shadow", "asset"}
    RemoveAnytime = FALSE
SPECIFICATION Spec
SYMMETRY Alike
INVARIANTS Consistent AnswerFresh AnswerWhole
CHECK_DEADLOCK FALSE
