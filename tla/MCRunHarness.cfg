SPECIFICATION HarnessSpec
CONSTANTS
    Null = Null
    Default = Default
    RunId = r1
    CanonicalHash <- MCHash
    SanitizeId <- MCSanitizeId
    Callers = {d1, d2}
    ToolCommands <- MCCommands
    FinalCandidates <- MCCandidates
    InitialCapabilities <- MCCapabilities
    InitialAdapters <- MCAdapters
    Capabilities = {}
    Adapters = {}
    AllowedAdapterKinds = {"deterministic_fake"}
    AnswersTo <- MCAnswersTo
    EffectRequests <- MCEffectRequests
    EffectReceipts <- MCEffectReceipts
    MutationCommands = {}
    Observations <- MCObservations
    WritePreflightCandidates = {}
    WritePreflightDecisions = {}
    WriteQuarantines = {}
    ApprovalRequests = {}
    ApprovalGrants = {}
    ApprovalDenials = {}
    ApprovalExpiries = {}
    StateRefs = {}
    Times = {0}
    EventOptions <- MCEventOptions
    FinalOptions <- MCFinalOptions
    MaxEvents = 40
    MaxExecutions = 3
    MaxCalls = 3
CHECK_DEADLOCK FALSE
SYMMETRY Interchangeable
INVARIANTS
    ReceiptsWereExecuted
    ReleasedClaimsHappened
    ResolvedIsRecorded
