CONSTANTS
    h1 = h1
    h2 = h2
    h3 = h3
    boot = boot
    none = none
    http = http
    stream = stream
    moved = moved
    Listener = {http, stream, moved}
    Addr <- Shared
    Configs <- Loads
    MaxVersion = 3
    Settings <- AllSettings
    Questions <- Asked
    Plans <- AllPlans
    Sessions <- AllSessions
    Addresses <- Abc
    Hash = {h1, h2, h3}
    Boot = boot
    None = none
    Keep = 1
    MaxHistory = 3
    AlwaysOn = TRUE
    IOErrors = FALSE
    ExecFails = FALSE
    OldRejected = FALSE
    Kills = TRUE
    Selected = FALSE
SPECIFICATION EngineSpec
SYMMETRY HashSymmetry
INVARIANTS
    AnswerHolds
    WantedIsRestarted
    SocketsAreAccounted
    NoRenewalIsMissed
    EnginesAgree
    BalancersAgree
PROPERTY RequestsAreAtomic
