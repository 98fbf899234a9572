SPECIFICATION Spec
CONSTANTS
  f1 = f1
  f2 = f2
  Func = {f1, f2}
  TotalQ = 3
  CountModulus = 64
  QSets = {0, 1, 2}
  RingSizes = {1, 8}
  AnyIndex = AnyIndex
  Requests = {0, 1}
  Aggregating = {f1, f2}
  DeviceIndex = 0
  BusNumber = 1
  MaxActive = 2
  MaxSized = 1
  Unit = 3
  Base = 1
  Total = 9
  MaxNodes = 4
  HbmSizes = {1, 3, 4, 6, 9}
  NumLists = 2
  Slots = 2
  SlotSize <- TwoSlotSizes
  Large = 9
  HugeSizes = {1, 2, 3, 4, 6}
  MaxRegions = 3
  Threads = {t1, t2, t3}
  Fields = 2
  MaxCalls = 1
  Page = 4
  Mini <- SmallMini
  Entries = 2
  QDepth = 4
  Cmds <- SmallCmds
  MaxCmds = 1
  MaxWrites = 2
  NoCmd = NoCmd
INVARIANT FreeReturns
CHECK_DEADLOCK FALSE
