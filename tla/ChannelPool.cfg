SPECIFICATION Spec
CONSTANTS
    p1 = p1
    p2 = p2
    p3 = p3
    t1 = t1
    t2 = t2
    t3 = t3
    Packets = {p1, p2, p3}
    Threads = {t1, t2, t3}
    MaxTime = 1
    MaxPushes = 4
    NoPacket = NoPacket
SYMMETRY Interchange
CHECK_DEADLOCK FALSE
INVARIANTS
    NothingLost
    NothingShared
    EventsBalance
    DataInUse
PROPERTIES
    ImplementsPacketLife
