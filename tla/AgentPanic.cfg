SPECIFICATION AgentAloneSpec
CONSTANTS
    SchemaDef <- MCSchemaDef
    RowsAtStart <- MCRows
    TierOf <- MCTierOf
    OwnerKey = "me"
    Pager <- MCPager
    Write <- MCWrite
    Edit <- MCEdit
    Hit <- MCHit
    Listing <- MCListing
    MAX_QUERY_LIMIT = 4
    INTERNAL_FETCH_CAP = 4
    Ask <- MCAsk
    Response <- MCResponse
    AgentFiles = {"f1", "f2"}
    Schema_Service = "real"
    PHASE_1_DESCRIPTIVE_NAMES = {"Mention"}
    TTL = 1
    SearchKey = {"environment"}
    WebPage <- MCWebPage
    MAX_FETCH_CHARS = 2
    MAX_RAW_RESULTS_TO_AI = 1
    MaxTicks = 0
    MaxSeconds = 1
INVARIANT TurnsKnowWhatHappened
CHECK_DEADLOCK FALSE
