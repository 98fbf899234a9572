CONSTANTS
  NumQ = 2
  QDepth = 1
  BufDepth = 2
  AddrSpace = 8
  DefaultPkt = 1
  Hold = 0
  Lat = 3
  MaxPosts = 3
  Cmds <- MoreCmds
SPECIFICATION FairSpec
INVARIANTS
  TypeOK
  PacketsTile
  WaitingHeadSelected
  StreamAligned
  CompletionsRight
  FairShare
PROPERTIES
  ImplementsDelivery
  PostedCompletes
