\* Bundles with up to two parts of another origin, under six trust files.
CONSTANTS
    Null = Null
    Bundles <- MCBundles
    TrustFiles <- MCTrustFiles
    Times <- MCTimes
    AgentKeys <- MCAgentKeys
    ServiceKeys <- MCServiceKeys
    Signed <- MCSigned
    Issued <- MCIssued
SPECIFICATION Spec
INVARIANTS
    TypeOK
    ValidIsGenuine
    ContextCovers
    LinkIsGenuine
    GenuineIsValid
    VerdictIsStable
CHECK_DEADLOCK FALSE
