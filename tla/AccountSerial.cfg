SPECIFICATION Spec
CONSTANTS
    Admins = {a1}
    Clients = {c1, c2}
    Codes = {k1, k2}
    Overlap = FALSE
    Null = Null
INVARIANTS EndedIsInert AccessRevoked
CHECK_DEADLOCK FALSE
