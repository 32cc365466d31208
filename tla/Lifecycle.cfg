SPECIFICATION FairSpec
CONSTANTS
    f1 = f1
    f2 = f2
    f3 = f3
    i1 = i1
    i2 = i2
    r1 = r1
    r2 = r2
    p1 = p1
    p2 = p2
    p3 = p3
    Fronts = {f1, f2}
    Impls = {i1, i2}
    Packets = {p1, p2, p3}
    PoolOf <- Pools
    Receivers = {r1}
    NoImpl = NoImpl
    NoFront = NoFront
    User = User
INVARIANTS
    OneOwner
    JobsLive
    PacketsHome
    QuietWhenStopped
    OnlyLiveUsed
PROPERTIES
    StopAlwaysReturns
CHECK_DEADLOCK FALSE
