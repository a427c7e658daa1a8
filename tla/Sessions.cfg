CONSTANTS
    loop = loop
    page = page
    Threads = {loop, page}
    MaxPairs = 3
    MaxFaults = 1
    MaxResets = 1
SPECIFICATION Spec
SYMMETRY ThreadSymmetry
INVARIANTS
    TypeOK
    OneLiveCredential
    
    KeptIsUnspent
PROPERTY
    NoLateSession
CHECK_DEADLOCK FALSE
