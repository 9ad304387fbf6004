\* An inferred title after a failed turn: two requests in any order and interleaving, after a turn that failed or succeeded.
CONSTANTS
    r1 = r1
    r2 = r2
    None = None
    Given = Given
    First = First
    ann = ann
    bob = bob
    k1 = k1
    Users = {bob}
    Admins = {}
    Connections = {k1}
    Conversations = {1, 2}
    Requests = {r1, r2}
    MaxAttempts = 3
SPECIFICATION Spec
CHECK_DEADLOCK FALSE
INVARIANT
    TitleIsOfOneTurn
