SPECIFICATION FairSpec
CONSTANTS
    Commands = {"migrate", "reset"}
    MaxCrashes = 0
PROPERTY CommandsRecover
CHECK_DEADLOCK FALSE
