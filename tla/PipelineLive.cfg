SPECIFICATION FairSpec
CONSTANTS
    h1 = h1
    h2 = h2
    h3 = h3
    boot = boot
    none = none
    Hash = {h1, h2, h3}
    Boot = boot
    None = none
    Keep = 10
    MaxHistory = 50
    Snapshots <- Publishes
    MaxVersions = 2
    MaxFaults = 1
    Faults = {"exit", "restart", "unreachable", "lost", "crash"}
    Docker = TRUE
    Managed = {}
PROPERTIES PromotedIsActive LiveIsServed
CHECK_DEADLOCK FALSE
