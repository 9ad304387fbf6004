\* A tab that is reloaded: a page with two calls and one with one; every failure.
CONSTANTS
    u1 = u1
    p1 = p1
    t1 = t1
    t2 = t2
    t3 = t3
    x1 = x1
    x2 = x2
    tab = tab
    c1 = c1
    c2 = c2
    c3 = c3
    NoUser = NoUser
    NoToken = NoToken
    Users = {u1}
    Passwords = {p1}
    Tokens = {t1, t2, t3}
    Requests <- MCRequests
    Updates = {}
    NewRoles = {}
    FaultKinds = {"request", "answer"}
    Pages = {x1, x2}
    TabOf <- MCTabOf
    Calls = {c1, c2, c3}
    PageOf <- MCPageOf
    Saving = {c2, c3}
    Forms <- MCForms
    OneMishap = TRUE
\* A behaviour ends when the tokens of the instance are used up.
CHECK_DEADLOCK FALSE
SPECIFICATION FairWebSpec

    
    
PROPERTIES
    
    
    
    EveryCallEnds
