SPECIFICATION Spec
CONSTANTS
  Parts = {"pipeline", "upgrade", "update", "pairing", "approvals", "balancer", "listeners", "certificates",
           "alerts"}
  Depth = 2
  Judges = {one, two}
  one = one
  two = two
  three = three
  left = left
  right = right
  None = none
INVARIANTS TypeOK AdminStopHolds EngineKept ListIsNotOlder AnswerIsTrue
           ConnectionsAreKept FilesAreNotBehind AlertsAreTrue
PROPERTIES FailureKeepsOld SuccessIsTrue PairedByConfirmation ChecksAreCurrent
CHECK_DEADLOCK FALSE
