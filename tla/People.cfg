SPECIFICATION PeopleSpec
CONSTANTS
    k1 = k1
    friend = friend
    kin = kin
    i1 = i1
    t1 = t1
    t2 = t2
    Key = {k1}
    Role = {friend, kin}
    Domain = {"personal", "family"}
    DomainOf <- MCDomainOf
    NoRole = NoRole
    NoContact = NoContact
    Invite = {i1}
    SenderOf <- MCSenderOf
    Nonce = {1}
    Task = {t1, t2}
    alice = alice
    bob = bob
    mallory = mallory
    m1 = m1
    m2 = m2
    m3 = m3
    Fp = {1, 2}
    Cluster = {{1}, {2}}
    NodeFp = 0
    Exclusion = {e}
    Self = Self
    Peer = {alice, bob, mallory}
    Name = {n}
    Message = {m1, m2, m3}
    CardOf <- MCCardOf
    Valid = {m1, m3}
    Forwarded = {m3}
    Pasted = {alice}
    MaxPersonas = 2
    MaxRequests = 3
    Requester = {t1, t2}
    Boot = Boot
    Does <- MCDoes
    None = None
INVARIANTS
    ReplayRefused
    MeSound
PROPERTIES
    RevokedAfterTrustGone
    MergeLosesNothing
CHECK_DEADLOCK FALSE
