SPECIFICATION Spec
CONSTANTS
  v1 = v1
  v2 = v2
  VF = {v1, v2}
  NoVf = NoVf
  TotalQ = 1
  CountModulus = 1
  QMaxs = {0, 1}
  RetryCnt = 2
  Lag = 1
  RxPoll = FALSE
  MaxQueues = 1
  MaxStrays = 1
  Tables <- SmallTables
  Netlink = Netlink
  Mailbox = Mailbox
  Debugfs = Debugfs
  Free = Free
  PfQueues <- TwoDirections
  VfQueues <- OneCmpt
  HasVec = TRUE
  MaxStarts = 2
  MaxExpired = 1
  MaxDumps = 1
  Boards <- ThreeBoards
  Procs = {"b1", "b3"}
  Files = 2
  N = 2
  Window = 1
  Junk = Junk
SYMMETRY Sym
INVARIANTS
  ConfigAgrees
  MapsOwned
  InFlight
  ContentsRight
  ContextsRight
  TablesRight
CHECK_DEADLOCK FALSE
