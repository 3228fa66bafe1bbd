SPECIFICATION Spec
CONSTANTS
    Workers = {w1}
    Observations <- ItemObservations
    Payloads <- ItemPayloads
    None = None
    Dialect = "sqlite"
    BatchSize = 2
    FutureLimit = 2
    GapLimit = 1
    MaxMessages = 3
    MaxNow = 3
    MaxCrashes = 1
    MaxSteals = 0
INVARIANT GapsExplained
