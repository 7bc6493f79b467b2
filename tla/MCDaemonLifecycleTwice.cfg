SPECIFICATION Spec
CONSTANTS
    Pids = {1, 2}
    Entries = {e1}
    Launched = TRUE
    MaxFaults = 2
INVARIANTS
    NoDoubleStart
CHECK_DEADLOCK FALSE
