SPECIFICATION Spec
CONSTANTS
    Admins = {a1}
    Clients = {c1}
    Codes = {k1}
    Overlap = TRUE
    Null = Null
INVARIANT ArchivedRevoked
CHECK_DEADLOCK FALSE
