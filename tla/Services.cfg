SPECIFICATION Spec
CONSTANTS
    Embedding <- MCEmbedding
    PubCategory = {"reading", "travel"}
    CategoryOf <- MCCategoryOf
    OptInRequest <- MCOptInRequest
    Sensitive = {"email", "city_name"}
    PeerProfile <- MCPeerProfile
    StoreLayouts = {TRUE, FALSE}
    MaxDeletes = 1
    MaxPublishes = 1
    MaxOptOuts = 2
    Peer = {"ann", "bob"}
    Messaging = {"ann", "bob"}
    CalBatch <- MCCalBatch
    PeerBatch <- MCPeerBatch
    Accepted = {"ann", "bob"}
    MaxCalendarBatch = 2
    Photos <- MCPhotos
    MaxPhotoBatch = 2
    MaxHashes = 10
    PeerHashes <- MCPeerHashes
    Asker = {"q1"}
    Knows = {"ann", "bob"}
    Rule = {"r1", "r2"}
    Share <- MCShare
    Approved = {"notes", "photos"}
    MaxScans = 2
    MaxFailures = 2
    SchemaDef <- MCSchemaDef
    RowsAtStart <- MCRows
    TierOf <- MCTierOf
    OwnerKey = "me"
    Pager <- MCPager
    Write <- MCWrite
    Edit <- MCEdit
    Hit <- MCHit
    Listing <- MCListing
    MAX_QUERY_LIMIT = 4
    INTERNAL_FETCH_CAP = 4
    Ask <- MCAsk
    Response <- MCResponse
    AgentFiles = {"f1"}
    Schema_Service = "real"
    PHASE_1_DESCRIPTIVE_NAMES = {"Mention"}
    TTL = 1
    SearchKey = {"environment"}
    WebPage <- MCWebPage
    MAX_FETCH_CHARS = 2
    MAX_RAW_RESULTS_TO_AI = 1
    MaxTicks = 2
    MaxSeconds = 1
    MAX_ATTEMPTS = 3
    MAX_BACKOFF = 2
    EXHAUSTION_COOLDOWN = 6
    MaxClock = 10
    MaxKeys = 3
    CloudOrgs = {"acme", "guild"}
    MaxCrashes = 2
    Org = {"acme", "guild"}
    Me = "me"
    Other = "bob"
    OrgRequest <- MCOrgRequest
    OrgOverlap = FALSE
    MaxOrgRequests = 4
    Row = {"x", "y"}
    MigrateBesideReset = FALSE
INVARIANTS
    HeldIsTracked
    CalendarPurged
    MarkedShareStored
    PagesComplete
    PolicyKept
    TurnRemembered
    CallsTold
    JobTellsOutcome
    AttemptsThrottled
    RestoreResumable
    JoinedOrgSynced
    ResetNotUndone
CHECK_DEADLOCK FALSE
