SPECIFICATION Spec
CONSTANTS
    Admins = {a1}
    Clients = {c1}
    Codes = {k1}
    Overlap = FALSE
    Null = Null
PROPERTY ArchivedForGood
CHECK_DEADLOCK FALSE
