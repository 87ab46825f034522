CONSTANTS
    Null = Null
    run = run
    otherRun = otherRun
    x1 = x1
    x2 = x2
    e1 = e1
    e2 = e2
    badHash = badHash
    CanonicalHash <- MCHash
    Candidates <- MCCandidates
    Receipts <- MCReceipts
    Observations <- MCObservations
    ForeignProofs <- MCForeignProofs
    MaxTime = 4
SPECIFICATION Spec
INVARIANT ProofsAreRight
INVARIANT MessagesAreTrue
PROPERTY EvidenceRetractsOnlyByFailure
PROPERTY TimeOnlyAges
