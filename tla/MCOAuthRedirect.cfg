\* AlwaysRedirects for one user in two tabs, every service answering.
CONSTANTS
    u1 = u1
    u2 = u2
    a1 = a1
    a2 = a2
    l1 = l1
    l2 = l2
    k1 = k1
    k2 = k2
    k3 = k3
    User = {u1}
    Account = {a1}
    Login = {l1, l2}
    Callback = {k1, k2}
    Faults = {}
SPECIFICATION Spec
INVARIANTS
    AlwaysRedirects
CHECK_DEADLOCK FALSE
