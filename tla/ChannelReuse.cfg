SPECIFICATION SpecWithReuse
CONSTANTS
    p1 = p1
    p2 = p2
    p3 = p3
    t1 = t1
    t2 = t2
    t3 = t3
    Packets = {p1, p2}
    Threads = {t1, t2}
    MaxTime = 1
    MaxPushes = 3
    NoPacket = NoPacket
CHECK_DEADLOCK FALSE
INVARIANTS
    NothingLost
