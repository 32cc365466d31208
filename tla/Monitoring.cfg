SPECIFICATION FairSpec
CONSTANTS
    c1 = c1
    c2 = c2
    w1 = w1
    executed = executed
    kEventPushed = kEventPushed
    NoName = NoName
    None = None
    Channels = {c1, c2}
    Workers = {w1}
    Externals = {}
    Pipeline <- OneEdge
    Logs <- Both
    EventOrder <- Order
    kMaxSenders = 1
    BufferSizes = {128, 508}
    HeaderSize = 32
    SendSize = 32
    EntrySize = 64
    ReceiveSize = 160
    MaxPending = 2
    MaxInTransit = 1
INVARIANTS
    EveryEventCounted
    BufferHolds
    GatheringUndisturbed
    ChannelsComplete
    MapTrue
PROPERTIES
    EverythingGathered
    StopReturns
