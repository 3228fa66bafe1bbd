SPECIFICATION Spec
CONSTANTS
    Frames <- SplitFrames
    Pairs <- SplitPairs
    BatchSize = 2
    Watermark = 1
    MaxNow = 3
    MaxFailures = 0
INVARIANT DelayHarmless
CHECK_DEADLOCK FALSE
