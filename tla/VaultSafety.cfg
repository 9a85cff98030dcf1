SPECIFICATION Spec
CONSTANTS
    Employees = {e1}
    Periods = {p1}
    Uploads = {u1, u2}
    Removals = {d1}
    Readings = {m1}
    Signings = {g1}
    MaxAttempts = 2
    Null = Null
INVARIANTS TypeOK OneRowPerSlot ReceiptConsistent LostFileHasCause WithdrawnFileGone
PROPERTIES ReceiptImmutable ImplementsLedger
SYMMETRY UploadSymmetry
CHECK_DEADLOCK FALSE
