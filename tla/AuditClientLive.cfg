\* Liveness of calls and of close(): two threads on one client.
CONSTANTS
    t1 = t1
    t2 = t2
    Threads = {t1, t2}
    MaxRuntimes = 1
    MaxCalls = 2
    FailureModes = {"raise", "continue"}
    AmbiguousMarks = TRUE
SPECIFICATION FairSpec
PROPERTIES
    CallEnds
    CloseEnds
CHECK_DEADLOCK FALSE
