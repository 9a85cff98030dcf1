SPECIFICATION Spec
CONSTANTS
    Tabs = {t1}
    Requests = {q1, q2}
    Tokens = {k1, k2, k3, k4, k5, k6}
    None = None
    MaxLogins = 1
    StrictMode = TRUE
INVARIANTS TypeOK OneRowPerLogin RevokedForGood SignedInHasTokens NoParallelRefresh
PROPERTIES DroppedForCause QueueServed
CHECK_DEADLOCK FALSE
