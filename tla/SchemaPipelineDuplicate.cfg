\* Two instances receive the same event; no failure at all.
CONSTANTS
    c1 = c1
    n1 = n1
    n2 = n2
    w1 = w1
    w2 = w2
    r1 = r1
    r2 = r2
    q1 = q1
    Nobody = Nobody
    NoSnapshot = NoSnapshot
    NoHash = "none"
    Connections = {c1}
    Refreshers = {r1}
    Workers = {w1, w2}
    Instances = {n1, n2}
    Readers = {}
    Hashes <- MCHashes
    Parts <- MCParts
    ChunksOf <- MCChunksOf
    InstanceOf <- MCInstanceOf
    MaxSnapshots = 2
    MaxRetries = 1
    MaxFaults = 0
    FaultKinds = {}
SPECIFICATION Spec
PROPERTY
    CompletedIsNotReopened
