SPECIFICATION Spec
CONSTANTS
    Workers = {w1, w2}
    Observations <- RaceObservations
    Payloads <- RacePayloads
    None = None
    Dialect = "postgresql"
    BatchSize = 1
    FutureLimit = 3
    GapLimit = 1
    MaxMessages = 3
    MaxNow = 0
    MaxCrashes = 1
    MaxSteals = 1
INVARIANTS TypeOK ExactlyOnce CurrentIsLatest AcknowledgedIsAccounted OpenRowsDisjoint
PROPERTY LedgerSpec
SYMMETRY WorkerSymmetry
