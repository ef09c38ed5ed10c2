\* A thread of three tweets beside one of two, and a reader of either.
CONSTANTS
    c1 = c1
    c2 = c2
    Call = {c1, c2}
    Size <- Pair
    Faults = {"database", "crash"}
    HTTP_MAX_RETRIES = 3
SPECIFICATION ReaderSpec
INVARIANTS
    PublishedIsLive
    FailedIsGone
    NoLiveReplyToDeleted
    AnalyticsTellThread
PROPERTIES
    ContractSpec
CHECK_DEADLOCK FALSE
