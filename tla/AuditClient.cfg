\* Local concurrency: two threads, two clients one after the other, two calls.
\* mark_permanent either commits or raises, never both: see ClientStranded.cfg.
CONSTANTS
    t1 = t1
    t2 = t2
    Threads = {t1, t2}
    MaxRuntimes = 2
    MaxCalls = 2
    FailureModes = {"raise", "continue"}
    AmbiguousMarks = FALSE
SPECIFICATION Spec
SYMMETRY ThreadSymmetry
INVARIANTS
    TypeOK
    HashChain
    HeadIsDurable
    TerminalAfterStart
    RaiseModeAudited
    NothingBehindFailure
PROPERTIES
    AppendOnlyByOwner
    ImplementsAuditLog
CHECK_DEADLOCK FALSE
