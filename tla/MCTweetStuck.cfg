\* PublishingIsInFlight, with every database statement answered and no crash.
CONSTANTS
    s1 = s1
    s2 = s2
    Submission = {s1}
    MaxTries = 2
    Faults = {}
    HTTP_MAX_RETRIES = 3
SPECIFICATION Spec
INVARIANTS
    PublishingIsInFlight
CHECK_DEADLOCK FALSE
