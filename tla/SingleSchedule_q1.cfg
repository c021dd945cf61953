CONSTANTS
    N = 4
    Interval = 9
    ReConfigurable = 1
    FinishTime = 60
    Capacity = 2
    NoPacket = NoPacket
    LeftSizes = {499, 500}
SPECIFICATION Spec
INVARIANTS
    TypeOK
    QueuedForCircuit
PROPERTIES
    ImplementsSchedule
CHECK_DEADLOCK FALSE
