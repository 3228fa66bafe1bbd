SPECIFICATION FairSpec
CONSTANTS
    Packs <- AllPacks
    PointsOf <- Registered
    BuildingOf <- Sites
    Selections <- Buildings
    Hashes <- Orders
    Limits = {0, 2}
    MaxRuns = 2
    MaxCycles = 1
    QueueBound = 2
    None = None
INVARIANTS DeliveryFaithful RepeatIsDuplicate CurrentIsLatest
PROPERTIES LiveMoves EventuallyReplayed
CHECK_DEADLOCK FALSE
