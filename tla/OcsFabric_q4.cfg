CONSTANTS
    N = 6
    Q = 4
    Capacity = 2
    NoPacket = NoPacket
    Interval = 4
    ReConfigurable = 2
    FinishTime = 54
    TxTime = 1
    Delay = 1
    Senders = {0, 1}
    MaxPackets = 3
SPECIFICATION Spec
INVARIANTS
    TypeOK
    QueuePurity
    NoCircuitMissed
    CircuitExclusive
    OnePlace
PROPERTIES
    ImplementsChannel
CHECK_DEADLOCK FALSE
