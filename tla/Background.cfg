SPECIFICATION MCSpec
CONSTANTS
    Path = {"notes", "photo", "scan", "tool"}
    Ext <- MCExt
    Dir <- MCDir
    Exported = {}
    Upload = {u1, u2}
    Uploaded = {"photo", "notes"}
    MaxBeside = 1
    MaxDepth = 1
    MaxFiles = 3
    MaxReports = 1
    MaxAdjusts = 1
    f1 = f1
    f2 = f2
    f3 = f3
    File = {f1, f2, f3}
    Batches <- MCBatches
    Cost <- MCCost
    Limits = {1, 2, 4}
    NoLimit = NoLimit
    NoFile = NoFile
    Concurrency = {1, 2}
    query = query
    p1 = p1
    p2 = p2
    Request = {query}
    Executor = {p1}
    Updater = {p1, p2}
    MaxResponses = 2
    NoQuery = NoQuery
INVARIANTS
    RowShowsAnswer
    PausedMeansTooExpensive
    CompletedIsDrained
    FilesConserved
    ScanCoversFolder
PROPERTIES
    EventuallyAnswered
    CancelIsFinal
    BatchSettles
    ImplementsContract
    ScanAnswers
CHECK_DEADLOCK FALSE
