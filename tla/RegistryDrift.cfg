SPECIFICATION Spec
CONSTANTS
    Payloads <- Inventories
    Registers <- Bases
    Configs <- Reviewed
    None = None
INVARIANT MonitoredAsReviewed
CHECK_DEADLOCK FALSE
