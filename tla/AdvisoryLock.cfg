\* Both modes, both ways to unlock, and one failure at any point.
CONSTANTS
    a = a
    b = b
    s1 = s1
    s2 = s2
    NoSession = NoSession
    Nobody = Nobody
    Clients = {a, b}
    Sessions = {s1, s2}
    Pool <- MCPool
    Keys = {1, 2}
    Requests <- MCRequests
    FaultKinds = {"cancel", "session", "crash", "unchecked"}
    MaxReentry = 2
    MaxFaults = 1
SPECIFICATION FairSpec
INVARIANTS
    TypeOK
    SessionBalanced
    NoDeadlock
PROPERTIES
    ImplementsResourceLock
    EveryLockReturns
