SPECIFICATION FairSpec
CONSTANTS
    u1 = u1
    u2 = u2
    open = open
    closed = closed
    w1 = w1
    w2 = w2
    NoOwner = NoOwner
    NoHolder = NoHolder
    Users = {u1, u2}
    Accounts = {open, closed}
    Workers = {w1, w2}
    Holder <- MCHolder
    RowKinds <- OwnedKinds
    RowIds <- TwoRows
    MaxStaged = 2
    MAX_ATTEMPTS = 4
    FLUSH_BATCH = 2
    MaxFaults = 2
INVARIANTS
    AtMostOnce
    SentMeansRecorded
    NoSilentLoss
    GivenUpOnlyIfClosed
PROPERTIES
    ImplementsDelivery
    EventuallyRecorded
CHECK_DEADLOCK FALSE
