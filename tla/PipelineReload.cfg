SPECIFICATION Spec
CONSTANTS
    h1 = h1
    h2 = h2
    h3 = h3
    boot = boot
    none = none
    Hash = {h1, h2, h3}
    Boot = boot
    None = none
    Keep = 10
    MaxHistory = 50
    Snapshots <- Mixed
    MaxVersions = 3
    MaxFaults = 1
    Faults = {"restart"}
    Docker = FALSE
    Managed = {}
INVARIANTS OnePortOwner RoutesBehindFrontends
PROPERTIES ChangeIsTakenBack
CHECK_DEADLOCK FALSE
