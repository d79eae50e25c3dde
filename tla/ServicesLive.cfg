SPECIFICATION FairSpec
CONSTANTS
  Parts = {"agent", "upgrade", "update", "approvals", "certificates", "docker", "alerts"}
  Depth = 1
  Judges = {one}
  one = one
  two = two
  three = three
  left = left
  right = right
  None = none
INVARIANT RollbackUndoes
PROPERTIES EventuallyRuns EngineReturns UpdateEnds CallIsAnswered PendingEnds HostsFollow AlertsFollow
CHECK_DEADLOCK FALSE
