CONSTANTS
  NumQ = 3
  AddrSpace = 8
  QDepth = 2
  FifoDepth = 2
  Hold = 0
  Drain = 1
  HoldSpan = 4
  Lat = 3
  DefaultPkt = 1
  Cmds <- SmallCmds
  UsedQueues = {1, 2}
  MaxPosts = 2
  MaxH2D = 2
SPECIFICATION FairSpec
INVARIANTS
  DataRight
  CompletionsRight
PROPERTIES
  ImplementsDelivery
  BothAnswered
