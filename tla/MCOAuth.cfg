\* Two logins, of one user or of two, and three callbacks, under every fault.
CONSTANTS
    u1 = u1
    u2 = u2
    a1 = a1
    a2 = a2
    l1 = l1
    l2 = l2
    k1 = k1
    k2 = k2
    k3 = k3
    User = {u1, u2}
    Account = {a1, a2}
    Login = {l1, l2}
    Callback = {k1, k2, k3}
    Faults = {"redis", "twitter", "database", "crash", "denial"}
SPECIFICATION Spec
INVARIANTS
    TypeOK
    OneRowPerAccount
    TokensOfOwner
    AnswerTellsOutcome
PROPERTIES
    ReplayRefused
    ConnectionSpec
SYMMETRY Symmetric
CHECK_DEADLOCK FALSE
