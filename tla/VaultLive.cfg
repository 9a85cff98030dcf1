SPECIFICATION FairSpec
CONSTANTS
    Employees = {e1}
    Periods = {p1, p2}
    Uploads = {u1, u2}
    Removals = {}
    Readings = {}
    Signings = {g1, g2}
    MaxAttempts = 2
    Null = Null
INVARIANTS SignatureOfSlot SignedAuditExact
PROPERTIES EveryUploadAnswered
CHECK_DEADLOCK FALSE
