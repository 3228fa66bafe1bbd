SPECIFICATION Spec
CONSTANTS
    Operator = "ABS_DIFF_GT"
    Threshold = 1
    Freshness = 2
    OperatingEquals = 1
    None = None
    Duration = 2
    Times <- MCTimes
    FrameInputs <- MCFrameInputs
PROPERTY DocumentedTransitions
