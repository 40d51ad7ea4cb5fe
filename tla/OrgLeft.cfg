SPECIFICATION OrgSpec
CONSTANTS
    MAX_ATTEMPTS = 3
    MAX_BACKOFF = 2
    EXHAUSTION_COOLDOWN = 6
    MaxClock = 0
    MaxKeys = 1
    CloudOrgs = {}
    MaxCrashes = 0
    Org = {"acme", "guild"}
    Me = "me"
    Other = "bob"
    OrgRequest <- MCOrgRequest
    OrgOverlap = FALSE
    MaxOrgRequests = 3
    Row = {}
    MigrateBesideReset = FALSE
INVARIANT LeftOrgNotSynced
CHECK_DEADLOCK FALSE
