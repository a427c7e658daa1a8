CONSTANTS
    UserActions <- MCActions
    Outcomes <- MCOutcomes
    MaxIds = 3
    MaxTime = 4
    MaxWeb = 1
    MaxFaults = 1
SPECIFICATION Spec
INVARIANTS TypeOK StatusFitsSessions PushReproduces WorkKept SettledAgrees
CHECK_DEADLOCK FALSE
