SPECIFICATION Spec
CONSTANTS
  Blocking <- OneCaller
  Vector <- TwoElements
  Sizes <- ShortAndLong
  RingSize = 3
  Modes = {"poll", "auto", "intr"}
  MaxStarts = 2
INVARIANTS QueueKept ToldWhenMoved LoopEnds VectorReported
PROPERTY Answered
CHECK_DEADLOCK FALSE
