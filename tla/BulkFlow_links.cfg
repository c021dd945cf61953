CONSTANTS
    Flows <- MCFlows
    SendSize = 2
    HeaderSize = 1
    KB = 2
    Word = 64
    HalfWord = 16
    Capacity = 2
    MiceThresh = 1
    MaxSize = 3
    DeviceQueue = 2
    FlowSizeThresh = 2
    Quota = 1
    NoTag = NoTag
    NoPacket = NoPacket
    MaxLosses = 2
    MaxAcked = 2
SPECIFICATION Spec
INVARIANTS
    TypeOK
    NoStall
PROPERTIES
    ServesShort
    FlowCompletes
    ImplementsStream
CHECK_DEADLOCK FALSE
