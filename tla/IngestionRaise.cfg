SPECIFICATION FairSpec
CONSTANTS
    Workers = {w1}
    Observations <- RaceObservations
    Payloads <- RacePayloads
    None = None
    Dialect = "postgresql"
    BatchSize = 2
    FutureLimit = 3
    GapLimit = 1
    MaxMessages = 1
    MaxNow = 0
    MaxCrashes = 0
    MaxSteals = 0
PROPERTY EventuallyVisible
