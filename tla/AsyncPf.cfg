SPECIFICATION FairSpec
CONSTANTS
    Vcpu = {v1, v2}
    None = None
    BROADCAST = BROADCAST
    Dummy = Dummy
    TokenWrap = 4
    Boot = {v2}
    t1 = t1
    g1 = g1
    g2 = g2
    g3 = g3
    Gfn = {g1, g2, g3}
    ASYNC_PF_PER_VCPU = 4
    Hash <- MCHash
    Task = {t1, t2}
    NestedTask = {t2}
    MayOffline = {v1}
    MayReturn = {}
    Pages <- MCPages
    MaxFaults = 2
INVARIANTS
    TypeOK
    GfnsFindable
    FlagsMatchException
    NodeLifetimes
PROPERTIES
    TokenConsumed
    SleeperWoken
CHECK_DEADLOCK FALSE
