SPECIFICATION FairSpec
CONSTANTS
    Workers = {w1, w2}
    Observations <- RaceObservations
    Payloads <- RacePayloads
    None = None
    Dialect = "postgresql"
    BatchSize = 1
    FutureLimit = 2
    GapLimit = 1
    MaxMessages = 2
    MaxNow = 1
    MaxCrashes = 1
    MaxSteals = 1
INVARIANTS TypeOK ExactlyOnce CurrentIsLatest AcknowledgedIsAccounted OpenRowsDisjoint
PROPERTIES LedgerSpec EventuallyAcknowledged
