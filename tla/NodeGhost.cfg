SPECIFICATION Spec
CONSTANTS
    t1 = t1
    t2 = t2
    a = a
    m = m
    Task = {t1, t2}
    Admin = {t1}
    Path = {"p"}
    Home = "p"
    Identity = {a}
    Fresh = {m}
    Ghost = Ghost
    NoKey = NoKey
    NoNode = NoNode
    NoPool = NoPool
    NoConfig = NoConfig
    Free = Free
    Ops = {"delete"}
    MaxOps = 1
    MaxCrashes = 0
INVARIANT OnlyBootstrapMints
