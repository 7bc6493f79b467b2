SPECIFICATION Spec
CONSTANTS
    p1 = p1
    p2 = p2
    Process = {p1, p2}
    Nobody = Nobody
    Token = {1, 2, 3}
    MaxTicket = 3
    MaxCrashes = 1
SYMMETRY Perms
INVARIANTS
    OneGuardHolder
