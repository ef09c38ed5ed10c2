\* What ThreadPostingError reports, with every database statement answered.
CONSTANTS
    c1 = c1
    Call = {c1}
    Size <- One
    Faults = {}
    HTTP_MAX_RETRIES = 3
SPECIFICATION Spec
INVARIANTS
    ReportsExactlyPosted
CHECK_DEADLOCK FALSE
