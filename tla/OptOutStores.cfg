SPECIFICATION PublishSpec
CONSTANTS
    Embedding <- MCEmbedding
    PubCategory = {"reading", "travel"}
    CategoryOf <- MCCategoryOf
    OptInRequest <- MCOptInRequest
    Sensitive = {"email", "city_name"}
    PeerProfile <- MCPeerProfile
    StoreLayouts = {FALSE}
    MaxDeletes = 1
    MaxPublishes = 1
    MaxOptOuts = 1
INVARIANT RecordedTakenBack
CHECK_DEADLOCK FALSE
