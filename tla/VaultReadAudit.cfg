SPECIFICATION Spec
CONSTANTS
    Employees = {e1}
    Periods = {p1}
    Uploads = {u1}
    Removals = {}
    Readings = {m1, m2}
    Signings = {g1}
    MaxAttempts = 1
    Null = Null
INVARIANT OneReadEntry
CHECK_DEADLOCK FALSE
