SPECIFICATION Spec
CONSTANTS
    h1 = h1
    h2 = h2
    h3 = h3
    boot = boot
    none = none
    Hash = {h1, h2, h3}
    Boot = boot
    None = none
    Keep = 10
    MaxHistory = 50
    Snapshots <- LbOnly
    MaxVersions = 3
    MaxFaults = 0
    Faults = {}
    Docker = FALSE
    Managed = {}
PROPERTIES RollbackRestores
CHECK_DEADLOCK FALSE
