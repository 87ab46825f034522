SPECIFICATION JsonlSpec
CONSTANTS
    Null = Null
    Garbage = Garbage
    r1 = r1
    r2 = r2
    a = a
    b = b
    c = c
    c1 = c1
    c2 = c2
    RunIds = {r1, r2}
    Events <- ParsedEvents
    Requests <- ParsedRequests
    Callers = {c1, c2}
    MaxCalls = 3
    Interruptions = {"nothing"}
CHECK_DEADLOCK FALSE
INVARIANTS
    AckedReadsBack
