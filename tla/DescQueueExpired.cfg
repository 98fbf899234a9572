SPECIFICATION Spec
CONSTANTS
  Blocking <- OneCaller
  Vector <- TwoElements
  Sizes <- ShortAndLong
  RingSize = 3
  Modes = {"poll", "auto", "intr"}
  MaxStarts = 2
INVARIANT ReturnsTransferred
CHECK_DEADLOCK FALSE
