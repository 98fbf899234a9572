SPECIFICATION ControlSpec
CONSTANTS
  f1 = f1
  f2 = f2
  Func = {f1, f2}
  TotalQ = 3
  CountModulus = 64
  QSets = {0, 1, 2}
  RingSizes = {1, 8}
  AnyIndex = AnyIndex
  Requests = {0, 1}
  Aggregating = {f1, f2}
  DeviceIndex = 0
  BusNumber = 1
  MaxActive = 2
  MaxSized = 1
PROPERTY RingHeld
CHECK_DEADLOCK FALSE
