\* A permanent failure whose transaction commits and raises.
CONSTANTS
    t1 = t1
    Threads = {t1}
    MaxRuntimes = 1
    MaxCalls = 1
    FailureModes = {"raise", "continue"}
    AmbiguousMarks = TRUE
SPECIFICATION Spec
INVARIANT NothingBehindFailure
CHECK_DEADLOCK FALSE
