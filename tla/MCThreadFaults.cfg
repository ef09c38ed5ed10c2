\* One thread of four tweets under every fault.
CONSTANTS
    c1 = c1
    Call = {c1}
    Size <- One
    Faults = {"database", "crash", "delete"}
    HTTP_MAX_RETRIES = 3
SPECIFICATION FairSpec
INVARIANTS
    TypeOK
    AtMostOnce
    PublishedIsLive
    AtMostOneUnrecorded
    AuditShape
PROPERTIES
    ContractSpec
    EveryPostSettles
    EveryStepCounts
CHECK_DEADLOCK FALSE
