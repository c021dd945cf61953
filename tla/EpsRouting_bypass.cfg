CONSTANTS
    N = 6
    Q = 2
    Key = {"a"}
    Packet <- MCBypassPackets
    rownum = 1
    Cell = {"x"}
    Column <- MCBypassColumn
    ElephantThresh = 1
    SSThresh = 1
    SentThresh = 3
    Cycle = 2
    LossTimeout = 4
    IdleTimeout = 11
    Strategies = {"nobypass", "randomize", "cwndbased", "pktonly"}
    MaxInserts = 3
SPECIFICATION Spec
INVARIANTS
    TypeOK
    OneEarlyPacket
    DropTimerCoversStreak
