\* Two submissions of up to two tries each, under every fault of post_tweet.
CONSTANTS
    s1 = s1
    s2 = s2
    Submission = {s1, s2}
    MaxTries = 2
    Faults = {"database", "crash"}
    HTTP_MAX_RETRIES = 3
SPECIFICATION Spec
INVARIANTS
    TypeOK
    AuditTrail
    RowsNameTheirOwn
    StatusTellsTweet
PROPERTIES
    ContractSpec
CHECK_DEADLOCK FALSE
