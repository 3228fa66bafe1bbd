SPECIFICATION Spec
CONSTANTS
    Packs <- LastFrame
    PointsOf <- Registered
    BuildingOf <- Sites
    Selections <- Buildings
    Hashes <- Orders
    Limits = {0, 2}
    MaxRuns = 2
    MaxCycles = 1
    QueueBound = 1
    None = None
PROPERTY OlderNeverReplaces
CHECK_DEADLOCK FALSE
