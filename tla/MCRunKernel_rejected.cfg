SPECIFICATION Spec
CONSTANTS
    Null = Null
    Default = Default
    RunId = r1
    CanonicalHash <- MCHash
    e1 = e1
    e2 = e2
    k1 = k1
    k2 = k2
    m1 = m1
    m2 = m2
    s1 = s1
    s2 = s2
    p1 = p1
    p2 = p2
    w1 = w1
    w2 = w2
    a1 = a1
    x1 = x1
    x2 = x2
    q1 = q1
    v1 = v1
    badHash = badHash
    ToolCommands <- MCTool
    MutationCommands <- MCMutations
    FinalCandidates <- MCCandidates
    EffectRequests <- MCEffectRequests
    EffectReceipts <- MCReceipts
    Observations <- MCObservations
    WritePreflightCandidates <- MCPreflights
    WritePreflightDecisions <- MCDecisions
    WriteQuarantines <- MCQuarantines
    ApprovalRequests <- MCApprovalRequests
    ApprovalGrants <- MCApprovalGrants
    ApprovalDenials <- MCApprovalDenials
    ApprovalExpiries <- MCApprovalExpiries
    StateRefs = {s1, s2}
    Times = {2}
    EventOptions <- MCOptions
    FinalOptions <- MCFinalOptions
    MaxEvents = 2
CONSTRAINT OneStory
CHECK_DEADLOCK FALSE
INVARIANTS
    RejectedCallsLeaveNoEvent
