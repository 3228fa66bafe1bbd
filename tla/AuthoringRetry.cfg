SPECIFICATION Spec
CONSTANTS
    Requests = {r1}
    None = None
    MaxCrashes = 0
INVARIANT RetriedWithFeedback
CHECK_DEADLOCK FALSE
