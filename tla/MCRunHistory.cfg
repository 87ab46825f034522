SPECIFICATION HistorySpec
CONSTANTS
    Null = Null
    Default = Default
    RunId = r1
    CallerIds = {e1, e2}
    CanonicalHash <- MCHash
    e1 = e1
    e2 = e2
    k1 = k1
    k2 = k2
    m1 = m1
    m2 = m2
    s1 = s1
    s2 = s2
    p1 = p1
    p2 = p2
    w1 = w1
    w2 = w2
    a1 = a1
    x1 = x1
    x2 = x2
    q1 = q1
    v1 = v1
    badHash = badHash
    ToolCommands <- MCTool
    MutationCommands <- MCMutations
    FinalCandidates <- HistoryCandidates
    EffectRequests <- MCEffectRequests
    EffectReceipts <- HistoryReceipts
    Observations <- HistoryObservations
    WritePreflightCandidates <- MCPreflights
    WritePreflightDecisions <- MCDecisions
    WriteQuarantines <- MCQuarantines
    ApprovalRequests <- MCApprovalRequests
    ApprovalGrants <- MCApprovalGrants
    ApprovalDenials <- MCApprovalDenials
    ApprovalExpiries <- MCApprovalExpiries
    StateRefs = {s1, s2}
    Times = {2}
    EventOptions <- HistoryOptions
    FinalOptions <- HistoryFinalOptions
    MaxEvents = 6
    rc1 = rc1
    rc2 = rc2
    Explored <- ShortStory
    Forgeries <- HistoryForgeries
    FreshObservations <- HistoryFresh
    StatusSummaries <- HistorySummaries
    ExtraEvidence <- HistoryExtra
    Checks <- HistoryChecks
CHECK_DEADLOCK FALSE
INVARIANTS
    ReplayDecidesRightly
    ProjectionIsCoherent
    ReconciliationIsSound
