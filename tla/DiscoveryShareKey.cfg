SPECIFICATION MCSpec
CONSTANTS
    a = a
    b = b
    acquaintance = acquaintance
    friend = friend
    NoContact = NoContact
    Node = {a, b}
    Connecting = {a}
    Discoverable = {}
    OptedIn = {b}
    Sharing = {a}
    HasCard = {a, b}
    Legacy = {}
    Schema = {1}
    NoSchema = 0
    Poller = {1}
    Role = {acquaintance}
    DomainOf <- MCOneDomain
    DefaultRole = acquaintance
    MaxMessages = 3
INVARIANT SharesFromContactsPass
CHECK_DEADLOCK FALSE
