CONSTANTS
    h1 = h1
    h2 = h2
    h3 = h3
    boot = boot
    none = none
    Hash = {h1, h2}
    Boot = boot
    None = none
    Keep = 1
    MaxHistory = 3
    AlwaysOn = TRUE
    IOErrors = FALSE
    ExecFails = TRUE
    OldRejected = FALSE
    Kills = FALSE
    Selected = TRUE
SPECIFICATION Spec
INVARIANT WantedIsRestarted
