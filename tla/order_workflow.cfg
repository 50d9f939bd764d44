SPECIFICATION FairSpec
CONSTANTS
    Orders = {"order"}
    Bodies <- MCBodies
    Absent = Absent
INVARIANTS
    TypeOK
    SmokeTestTruthful
PROPERTIES
    ImplementsOutcome
    EveryOrderEnds
CHECK_DEADLOCK FALSE
