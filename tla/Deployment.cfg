SPECIFICATION FairSpec
CONSTANTS
    v1 = v1
    c1 = c1
    Commands = {"migrate", "reset"}
    MaxCrashes = 1
    Payloads <- Inventories
    Registers <- Bases
    Configs <- Reviewed
    Requests = {r1, r2}
    Versions = {v1, v2}
    Saved <- OneDraft
    Screens = {c1, c2}
    None = None
INVARIANTS SchemaSound RegistrySound RequestTruthful
PROPERTIES EventuallyHead ActivatedWhole GrowthOnlyAmbiguates EventuallyStops ActivatedAsReviewed SnapshotForward BusyEnds
CHECK_DEADLOCK FALSE
