CONSTANTS
    Modes = {"timed"}
    PipeSize = 2
    MaxWrites = 2
SPECIFICATION Spec
INVARIANT AnswersAsRun
CHECK_DEADLOCK FALSE
