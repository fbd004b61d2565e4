\* Delivery of everything, with a request limit below the number of runtimes.
CONSTANTS
    MaxRuntimes = 2
    MaxEvents = 2
    RequestLimit = 1
    Scenarios = {{"storage"}}
SPECIFICATION FairSpec
PROPERTIES
    EverythingDelivered
CHECK_DEADLOCK FALSE
