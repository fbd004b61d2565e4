\* Two commands at once and a client on the same state directory; four starts
\* by two servers; three writers of the failure log; a fork; the back-off.
CONSTANTS
    c1 = c1  c2 = c2  k1 = k1  k2 = k2
    ActionOf <- MCActionOf
    InCharset <- MCInCharset
    HasInputDigest <- MCHasInputDigest
    NoMapping = NoMapping
    Commands = {c1, c2}
    Arguments <- MCArguments
    Times = {1, 2}
    InitialFiles <- MCInitialFiles
    ActiveKey = k1
    Default = Default
    StateDir = StateDir
    BadUsage = BadUsage
    BadMapping = BadMapping
    Nobody = Nobody
    ClientProcess = ClientProcess
    Servers = {p1, p2}
    MaxStarts = 4
    Writers = {w1, w2, w3}
    Lengths = {1, 2}
    MaxBytes = 3
    MaxRecords = 5
    Interval = 3
    MaxDelay = 40
    RetryAfters <- MCRetryAfters
SPECIFICATION LocalSpec
INVARIANTS
    LocalTypeOK
    ExportTells
    SecondLinks
    OneService
    LogBounded
    LockFollowsOwner
    DelayFits
CHECK_DEADLOCK FALSE
