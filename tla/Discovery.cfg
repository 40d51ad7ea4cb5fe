SPECIFICATION MCSpec
CONSTANTS
    a = a
    b = b
    acquaintance = acquaintance
    friend = friend
    NoContact = NoContact
    Node = {a, b}
    Connecting = {a}
    Discoverable = {b}
    OptedIn = {b}
    Sharing = {b}
    HasCard = {a, b}
    Legacy = {b}
    Schema = {1}
    NoSchema = 0
    Poller = {1}
    Role = {acquaintance}
    DomainOf <- MCOneDomain
    DefaultRole = acquaintance
    MaxMessages = 3
INVARIANTS
    TrustNeedsHandshake
    AcceptedWasAnswered
PROPERTY EventuallyProcessed
CHECK_DEADLOCK FALSE
