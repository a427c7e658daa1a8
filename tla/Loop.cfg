CONSTANTS
    r1 = r1
    Records = {r1}
    MaxEdits = 2
    MaxFaults = 1
SPECIFICATION FairSpec
INVARIANTS
    TypeOK
    NoWakeLost
    ClosedLast
PROPERTY EveryEditIsTried
CHECK_DEADLOCK FALSE
