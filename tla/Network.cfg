SPECIFICATION FairSpec
CONSTANTS
    p1 = p1
    p2 = p2
    Packets = {p1, p2}
    Properties = Properties
    capacity_ = 2
    MaxCopies = 2
CHECK_DEADLOCK FALSE
INVARIANTS
    NothingInvented
    OnlyCompatible
    HandshakeNotPushed
    WithinCapacity
PROPERTIES
    SocketDrains
