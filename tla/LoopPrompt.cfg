CONSTANTS
    r1 = r1
    Records = {r1}
    MaxEdits = 2
    MaxFaults = 0
SPECIFICATION Spec
INVARIANT EditsArePrompt
CHECK_DEADLOCK FALSE
