\* The catalogue of MCReferenceServer, batches of up to two candidates.
CONSTANTS
    Envelopes <- Catalogue
    Agents <- TwoAgents
    Keys <- TwoKeys
    NoKey = NoKey
    Organisation = "acme"
    Skew = 0
    MaxTime = 1
    MaxBatch = 2
SPECIFICATION Spec
INVARIANTS
    TypeOK
    ReplayGetsOriginal
    StoredIsAuthentic
PROPERTIES
    ImplementsAuditLog
CHECK_DEADLOCK FALSE
