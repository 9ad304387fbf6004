\* One subscription with one worker, two callers of Close.
CONSTANTS
    s1 = s1
    s2 = s2
    w1 = w1
    w2 = w2
    NoSub = NoSub
    Subs = {s1}
    Workers = {w1}
    SubOf <- MCOneSub
    Publishers = {p1}
    Closers = {k1, k2}
    Cap = 1
    NotifySlots = 1
    MaxRetries = 1
    MaxMessages = 3
    FaultKinds = {"listener", "handler", "cancel", "deadline"}
    MaxFaults = 1
CHECK_DEADLOCK FALSE
SPECIFICATION FairSpec
INVARIANTS
    TypeOK
    ConcludedInOrder
    ClosedIsQuiet
    DrainedIsQuiet
PROPERTIES
    ImplementsTopic
    EveryMessageIsConcluded
    CloseReturns
