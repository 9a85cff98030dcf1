SPECIFICATION Spec
CONSTANTS
    Employees = {e1}
    Periods = {p1}
    Uploads = {u1, u2}
    Removals = {}
    Readings = {}
    Signings = {g1}
    MaxAttempts = 1
    Null = Null
INVARIANT SignedFileIntact
CHECK_DEADLOCK FALSE
