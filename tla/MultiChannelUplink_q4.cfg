CONSTANTS
    Q = 4
    Capacity = 2
    NoPacket = NoPacket
    DayLength = 3
    NightLength = 2
    TxTime = 2
    MaxPackets = 4
SPECIFICATION Spec
INVARIANTS
    TypeOK
    OneTransmission
    WorkConserving
PROPERTIES
    SilentAtNight
    ServedQueueFlushed
