\* Honest events against a service that lost its newest ones.
CONSTANTS
    MaxRuntimes = 1
    MaxEvents = 2
    RequestLimit = 1
    Scenarios = {{"forget"}}
SPECIFICATION FairSpec
PROPERTY MissingIsRepaired
CHECK_DEADLOCK FALSE
