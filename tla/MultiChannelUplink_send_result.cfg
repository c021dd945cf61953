CONSTANTS
    Q = 4
    Capacity = 2
    NoPacket = NoPacket
    DayLength = 3
    NightLength = 2
    TxTime = 2
    MaxPackets = 2
SPECIFICATION Spec
INVARIANTS
    RefusedPacketNotKept
