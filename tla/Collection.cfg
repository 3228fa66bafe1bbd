SPECIFICATION FairSpec
CONSTANTS
    Frames <- SplitFrames
    Pairs <- SplitPairs
    BatchSize = 3
    Watermark = 1
    MaxNow = 3
    MaxFailures = 1
INVARIANTS RowsCollected NothingSkipped
PROPERTY EventuallyDone
CHECK_DEADLOCK FALSE
