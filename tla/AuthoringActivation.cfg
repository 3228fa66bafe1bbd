SPECIFICATION Spec
CONSTANTS
    Requests = {r1}
    None = None
    MaxCrashes = 0
INVARIANT ActivationRecorded
CHECK_DEADLOCK FALSE
