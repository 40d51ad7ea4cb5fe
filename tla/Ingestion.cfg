SPECIFICATION IntakeSpec
CONSTANTS
    Task = {t1, t2}
    File = {"f1", "f2"}
    Structure = {"post", "image", "user", "flat"}
    Doc <- MCDoc
    Desc = {"posts", "users"}
    Field = {"a", "b"}
    Proposals <- MCProposals
    Registry <- MCRegistry
    Org = {o1}
    NoOrg = NoOrg
    RefField = {"posts"}
    NoTask = NoTask
    NoSchema = NoSchema
    MaxRequests = 2
    MaxRestarts = 1
    Job = {"p1", "p2", "p3", "notes", "hook", "book"}
    Kind <- MCKind
    Items <- MCItems
    Token <- MCToken
    Sim <- MCSim
    Unindexable = {"f0"}
    Malformed = {"bad"}
    Spec0 <- MCSpec0
    K = 2
    MinFingerprints = 2
    MinMentions = 1
    Workload <- MCWorkload
    Source = {"notes", "reminders", "photos", "calendar", "contacts"}
    MaxRecords = 3
    BatchSize = 2
    Daily = 1
    Weekly = 2
    CustomHours = {0}
    MaxTime = 2
    MaxImports = 2
    MaxSyncs = 2
    MaxUpdates = 2
    MaxCrashes = 1
    Together = FALSE
    Never = Never
INVARIANTS
    IngestedIsStored
    SupersededHasSuccessor
    NoDanglingEdge
    ResolveBracketed
    LateSimilarLinked
    ArmedWhenEnabled
PROPERTY RowTellsImport
CHECK_DEADLOCK FALSE
