CONSTANTS
    UserActions <- MCActions
    Outcomes <- MCOutcomes
    MaxIds = 3
    MaxTime = 2
    MaxWeb = 1
    MaxFaults = 0
SPECIFICATION Spec
INVARIANT AcceptNeverDeletesWork
CHECK_DEADLOCK FALSE
