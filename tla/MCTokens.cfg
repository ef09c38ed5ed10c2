\* Two requests and a reconnect about one account, under every fault.  The
\* clock runs until the stored access token has expired.
CONSTANTS
    t1 = t1
    t2 = t2
    k1 = k1
    Task = {t1, t2}
    Callback = {k1}
    LIFETIME = 5
    MARGIN = 4
    PATIENCE = 1
    MaxTime = 5
    Faults = {"database", "crash", "twitter", "revoke"}
SPECIFICATION Spec
INVARIANTS
    TypeOK
    NotExpiredMidFlight
    ConnectionNotLost
PROPERTIES
    DisconnectSticks
SYMMETRY Tasks
CHECK_DEADLOCK FALSE
