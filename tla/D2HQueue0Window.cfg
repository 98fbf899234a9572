CONSTANTS
  NumQ = 2
  AddrSpace = 8
  QDepth = 2
  FifoDepth = 1
  Hold = 0
  Drain = 1
  HoldSpan = 4
  Lat = 3
  DefaultPkt = 1
  Cmds <- SmallCmds
  UsedQueues = {0}
  MaxPosts = 1
  MaxH2D = 1
SPECIFICATION Spec
INVARIANT LengthMoved
