SPECIFICATION Spec
CONSTANTS
    v1 = v1
    v2 = v2
    c1 = c1
    c2 = c2
    Versions = {v1, v2, v3}
    Saved <- TwoDrafts
    Configs = {c1, c2}
    None = None
INVARIANTS TypeOK TickedIsShown
PROPERTIES ActivatedAsReviewed SnapshotForward
CHECK_DEADLOCK FALSE
