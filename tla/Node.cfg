SPECIFICATION NodeSpec
CONSTANTS
    t1 = t1
    t2 = t2
    a = a
    m = m
    Task = {t1, t2}
    Admin = {t1}
    Path = {"p", "q"}
    Home = "p"
    Identity = {a}
    Fresh = {m}
    Ghost = Ghost
    NoKey = NoKey
    NoNode = NoNode
    NoPool = NoPool
    NoConfig = NoConfig
    Free = Free
    Ops = {"setup", "register", "restore", "bootstrap", "delete"}
    MaxOps = 2
    MaxCrashes = 1
    UserKey = {k1}
    LegacyKey = k0
    EnvKey = ke
    EnvEnabled = TRUE
    NoApiKey = nokey
    Redacted = redacted
    Saver = {s1, s2}
    Requested <- MCRequested
    MaxRetries = 2
    MaxCalls = 1
    MaxAiRestarts = 1
    MaxFaults = 1
INVARIANTS
    NodeMatchesIdentity
    PlaintextCleared
    KeyKept
PROPERTY RestoreAllOrNothing
