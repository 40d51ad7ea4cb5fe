SPECIFICATION BothSpec
CONSTANTS
    Task = {t1}
    File = {"f1", "f2"}
    Structure = {"post", "image", "user", "flat"}
    Doc <- MCDoc
    Desc = {"posts", "users"}
    Field = {"a", "b"}
    Proposals <- MCProposals
    Registry <- MCRegistry
    Org = {o1}
    NoOrg = NoOrg
    RefField = {"posts"}
    NoTask = NoTask
    NoSchema = NoSchema
    MaxRequests = 2
    MaxRestarts = 0
    Job = {"p1", "p2", "p3", "notes", "hook", "book"}
    Kind <- MCKind
    Items <- MCItems
    Token <- MCToken
    Sim <- MCSim
    Unindexable = {"f0"}
    Malformed = {"bad"}
    Spec0 <- MCSpec0
    K = 2
    MinFingerprints = 2
    MinMentions = 1
    Workload <- MCWorkload
INVARIANTS
    ScopeKept
CHECK_DEADLOCK FALSE
