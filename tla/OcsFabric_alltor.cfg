CONSTANTS
    N = 6
    Q = 5
    Capacity = 1
    NoPacket = NoPacket
    Interval = 4
    ReConfigurable = 2
    FinishTime = 54
    TxTime = 1
    Delay = 1
    Senders = {0, 1}
    MaxPackets = 2
SPECIFICATION Spec
INVARIANTS
    NoCircuitMissed
PROPERTIES
    PacketSettles
CHECK_DEADLOCK FALSE
