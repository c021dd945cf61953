CONSTANTS
    N = 3
    Q = 1
    Key = {"a", "b", "c"}
    Packet <- MCSketchPackets
    rownum = 2
    Cell = {"x", "y"}
    Column <- MCSketchColumn
    ElephantThresh = 1
    SSThresh = 1
    SentThresh = 1
    Cycle = 1
    LossTimeout = 1
    IdleTimeout = 1
    Strategies = {"nobypass"}
    MaxInserts = 4
SPECIFICATION Spec
INVARIANTS
    SketchNeverUnder
