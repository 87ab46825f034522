SPECIFICATION Spec
CONSTANTS
    Null = Null
    CanonicalHash <- MCHash
    SanitizeId <- MCSanitizeId
    Callers = {d1, d2}
    Commands <- MCCommands
    InitialCapabilities <- MCInitialCapabilities
    InitialAdapters <- MCInitialAdapters
    Capabilities <- MCCapabilities
    Adapters <- MCAdapters
    AllowedAdapterKinds = {"external_write", "external_read"}
    PreflightIds = {Null}
    DecisionTimes = {1}
    EffectIds = {Null}
    AnswersTo <- MCAnswersTo
    MaxExecutions = 2
CONSTRAINT OneDrift
SYMMETRY Interchangeable
INVARIANTS
    KeysRunOnce
    ResultsAreBacked
PROPERTIES
    WritesAreCleared
    CacheEntriesStay
