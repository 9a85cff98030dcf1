SPECIFICATION FairSpec
CONSTANTS
    Admins = {a1, a2}
    Clients = {c1}
    Codes = {k1, k2}
    Overlap = TRUE
    Null = Null
INVARIANTS TypeOK NoticeHasEnd PendingHasNoSession
PROPERTIES EveryNoticeEnds ReadOnlyAccessEnds
CHECK_DEADLOCK FALSE
