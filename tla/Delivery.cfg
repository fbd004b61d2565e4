\* Two runtimes of two events: retries, refusals, garbled answers and restarts;
\* and honest events against a service that may lose its newest ones.
CONSTANTS
    MaxRuntimes = 2
    MaxEvents = 2
    RequestLimit = 1
    Scenarios = {{"halt", "refuse", "reject", "garble", "storage"}, {"forget"}}
SPECIFICATION Spec
INVARIANTS
    TypeOK
    UploadedIsServed
    ServiceAtMostOneAhead
    NothingWaitsForever
    GivenUpForCause
PROPERTIES
    ImplementsAuditLog
CHECK_DEADLOCK FALSE
