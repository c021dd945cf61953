CONSTANTS
    N = 6
    Q = 4
    Interval = 12
    ReConfigurable = 1
    FinishTime = 780
SPECIFICATION FairSpec
INVARIANTS
    TypeOK
    Aligned
    WindowIsNextDays
    CircuitsDisjoint
    DayAgreed
PROPERTIES
    ReconfiguredInTheDark
    EveryPairConnected
    ImplementsService
CHECK_DEADLOCK FALSE
