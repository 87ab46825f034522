SPECIFICATION ToolsSpec
CONSTANTS
    Null = Null
    UnsafeHeaderNames = {"cookie", "authorization"}
    UnsafeHeaderValues = {"Bearer x"}
    MaxOutputBytes = 1
    MaxWritten = 2
    Missing = Missing
    Directory = Directory
    Special = Special
    Link = Link
    Chunks = {"a", "b"}
    Contents <- MCContents
    MaxBytes = 2
    MaxDiskChanges = 2
    Responses <- MCResponses
    UnsafeOrigins = {"http://localhost"}
    GithubResponses <- MCGithubResponses
    PullNumbers = {"7"}
    Lost = Lost
    ProcessCases <- MCProcessCases
    FilesystemCases <- MCFilesystemCases
    HttpCases <- MCHttpCases
    GithubCases <- MCGithubCases
    FirstDisks <- MCFirstDisks
CHECK_DEADLOCK FALSE
INVARIANTS
    ReceiptsTellTheTruth
    NothingRefusedIsDone
PROPERTIES
    CallsEnd
