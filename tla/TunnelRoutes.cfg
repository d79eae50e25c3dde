SPECIFICATION MCFairSpec
CONSTANTS
    host = host
    port = port
    client = client
    none = none
    Names = {host}
    Ports = {port}
    Tables <- HostOrBoth
    Defs = {"enabled", "disabled"}
    Versions = {TRUE, FALSE}
    Clients = {client}
    None = none
    MaxSessions = 2
    MaxLoops = 2
    MaxEdits = 1
    MaxFaults = 1
    Most <- TwoAndOne
    Window = 1
INVARIANTS AckedIsServed StatusIsOwn DrainSparesStreams NothingIsCut
PROPERTIES RoutesMoveForward EventuallyPublished StreamsEnd
CHECK_DEADLOCK FALSE
