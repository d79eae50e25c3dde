CONSTANTS
    h1 = h1
    h2 = h2
    h3 = h3
    boot = boot
    none = none
    Hash = {h1, h2, h3}
    Boot = boot
    None = none
    Keep = 1
    MaxHistory = 3
    AlwaysOn = TRUE
    IOErrors = TRUE
    ExecFails = TRUE
    OldRejected = TRUE
    Kills = TRUE
    Selected = FALSE
SPECIFICATION Spec
SYMMETRY HashSymmetry
INVARIANTS
    StoppedStaysDown
