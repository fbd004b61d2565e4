\* One directory, which may draw three identities.
CONSTANTS
    MaxAgents = 3
SPECIFICATION FairSpec
INVARIANTS
    TypeOK
    OneAgentPerDirectory
    SignsAsRegistered
    HaltedForCause
PROPERTIES
    IdentityIsForever
    EventuallyRegistered
CHECK_DEADLOCK FALSE
