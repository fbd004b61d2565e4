\* One call, whose input or result may be nested too deep to digest.
CONSTANTS
    t1 = t1
    Threads = {t1}
    MaxRuntimes = 1
    MaxCalls = 1
    FailureModes = {"raise", "continue"}
    AmbiguousMarks = TRUE
SPECIFICATION Spec
INVARIANT OriginalOutcome
CHECK_DEADLOCK FALSE
