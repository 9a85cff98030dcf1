SPECIFICATION Spec
CONSTANTS
    f1 = f1
    f2 = f2
    f3 = f3
    e1 = e1
    p1 = p1
    p2 = p2
    Files = {f1, f2, f3}
    Drops <- MCDrops
    Info <- MCInfo
    Employees = {e1}
    Periods = {p1, p2}
    None = None
    Batches = {b1}
    Confirms = {c1, c2}
    Others = {o}
    MaxEdits = 1
SYMMETRY MCSymmetry
INVARIANTS TypeOK PositionsAgree ReportTrue NoSelfConflict
PROPERTY RetrySendsFailures
CHECK_DEADLOCK FALSE
