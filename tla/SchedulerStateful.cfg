SPECIFICATION Spec
CONSTANTS
    w1 = w1
    w2 = w2
    w3 = w3
    ca = ca
    cb = cb
    cc = cc
    x = x
    y = y
    nil = nil
    p1 = p1
    p2 = p2
    p3 = p3
    p4 = p4
    Workers = {w1, w2, w3}
    Channels = {ca, cb, cc}
    States = {x, y}
    Packets = {p1, p2, p3, p4}
    StateOf <- StatefulNodes
    ChannelOf <- SharedSlots
    MaxTime = 2
    Stateless = nil
    NoPacket = NoPacket
    NoThread = NoThread
SYMMETRY Threads
INVARIANTS
    QueuesInOrder
    MutualExclusion
    CleanWhenStopped
    WorkConserving
