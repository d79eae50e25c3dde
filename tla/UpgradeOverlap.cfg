SPECIFICATION FairSpec
CONSTANTS
    Images = {a, b}
    None = none
    Overlap = TRUE
    MaxUpgrades = 2
    MaxCrashes = 1
PROPERTIES RollbackRestarts
CHECK_DEADLOCK FALSE
