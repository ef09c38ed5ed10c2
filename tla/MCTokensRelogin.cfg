\* NoManualRelogin with two concurrent requests, every service answering and
\* the user revoking nothing.
CONSTANTS
    t1 = t1
    t2 = t2
    k1 = k1
    Task = {t1, t2}
    Callback = {}
    LIFETIME = 5
    MARGIN = 4
    PATIENCE = 1
    MaxTime = 5
    Faults = {}
SPECIFICATION Spec
INVARIANTS
    NoManualRelogin
CHECK_DEADLOCK FALSE
