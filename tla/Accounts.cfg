\* Two requests at a time, from an empty installation on.
CONSTANTS
    u1 = u1
    u2 = u2
    p1 = p1
    t1 = t1
    t2 = t2
    t3 = t3
    r1 = r1
    r2 = r2
    NoUser = NoUser
    NoToken = NoToken
    Users = {u1, u2}
    Passwords = {p1}
    Tokens = {t1, t2, t3}
    Requests = {r1, r2}
    Updates <- MCUpdates
    NewRoles = {"member"}
    FaultKinds = {"request"}
SYMMETRY MCSymmetry
SPECIFICATION Spec
INVARIANTS
    TypeOK
    OneOwner
    OneTokenPerSession
PROPERTY
    EndedSessionsStayEnded
