SPECIFICATION FairSpec
CONSTANTS
    h1 = h1
    h2 = h2
    h3 = h3
    boot = boot
    none = none
    Hash = {h1, h2, h3}
    Boot = boot
    None = none
    Keep = 10
    MaxHistory = 50
    Snapshots <- ProxySwitch
    MaxVersions = 2
    MaxFaults = 1
    Faults = {"crash"}
    Docker = FALSE
    Managed = {}
PROPERTIES LiveIsServed
CHECK_DEADLOCK FALSE
