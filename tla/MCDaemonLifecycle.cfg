SPECIFICATION Spec
CONSTANTS
    Pids = {1, 2}
    Entries = {e1, e2}
    Launched = TRUE
    MaxFaults = 3
INVARIANTS
    TypeOK
    FirstPrevails
    MoveIsSafe
PROPERTIES
    ServedAgain
CHECK_DEADLOCK FALSE
