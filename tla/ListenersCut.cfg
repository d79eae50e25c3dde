SPECIFICATION Spec
CONSTANTS
  Parts = {"listeners"}
  Depth = 1
  Judges = {one}
  one = one
  two = two
  three = three
  left = left
  right = right
  None = none
INVARIANT NobodyIsCut
CHECK_DEADLOCK FALSE
