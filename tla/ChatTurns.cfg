\* Two requests in any order and interleaving, after a turn that failed or succeeded.
CONSTANTS
    r1 = r1
    r2 = r2
    None = None
    Given = Given
    First = First
    ann = ann
    bob = bob
    k1 = k1
    Users = {ann, bob}
    Admins = {ann}
    Connections = {k1}
    Conversations = {1, 2}
    Requests = {r1, r2}
    MaxAttempts = 3
SPECIFICATION FairSpec
CHECK_DEADLOCK FALSE
INVARIANTS
    TypeOK
    TurnsAreWhole
    TurnsStayTogether
PROPERTY
    RequestsEnd
