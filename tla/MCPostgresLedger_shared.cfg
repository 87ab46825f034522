SPECIFICATION PGSpec
CONSTANTS
    Null = Null
    r1 = r1
    r2 = r2
    a = a
    b = b
    c = c
    c1 = c1
    c2 = c2
    c3 = c3
    s1 = s1
    s2 = s2
    s3 = s3
    RunIds = {r1, r2}
    Events <- MCSharedEvents
    Requests <- MCSharedRequests
    AllowedTypes <- MCAllowedTypes
    Callers = {c1, c2}
    Clients = {s1}
    ClientOf <- MCOneClient
    MaxCalls = 2
CHECK_DEADLOCK FALSE
INVARIANTS
    AckedIsStored
