SPECIFICATION LBFairSpec
CONSTANTS
    Null = Null
    Default = Default
    RunId = r1
    CanonicalHash <- MCHash
    x1 = x1
    w1 = w1
    c1 = c1
    c2 = c2
    ToolCommands <- MCTool
    FinalCandidates <- MCCandidates
    EffectRequests <- MCEffectRequests
    EffectReceipts <- MCReceipts
    MutationCommands = {}
    Observations = {}
    WritePreflightCandidates = {}
    WritePreflightDecisions = {}
    WriteQuarantines = {}
    ApprovalRequests = {}
    ApprovalGrants = {}
    ApprovalDenials = {}
    ApprovalExpiries = {}
    StateRefs = {}
    Times = {0}
    EventOptions <- MCOptions
    FinalOptions <- MCFinalOptions
    Callers = {c1, c2}
    MaxEvents = 4
    MaxRestarts = 1
CHECK_DEADLOCK FALSE
INVARIANTS
    StreamMirrorsLog
    ReturnedIsDurable
    QuietMeansPersisted
    NoSuccessOverInherited
PROPERTIES
    CallsSettle
    GapCloses
