\* The runtime lock in a forked child.
SPECIFICATION FairForkSpec
PROPERTIES
    ChildCallEnds
CHECK_DEADLOCK FALSE
