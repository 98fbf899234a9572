CONSTANTS
  Requests = 2
  Commands = 2
  Length <- MCLength
  Block = 4
  Space = 24
  MaxLen = 8
  Packets = 2
  Hold1 = 3
  Hold2 = 2
  Lag = 2
SPECIFICATION FairSpec
INVARIANTS
  FlagsRight
  BurstsRight
  DrainedWhenComplete
PROPERTIES
  EveryRequestFlagged
  PacketsComplete
CHECK_DEADLOCK FALSE
