SPECIFICATION LiveSpec
CONSTANTS
  p1 = p1
  p2 = p2
  None = None
  Proc = {p1}
  Work <- Features
  Keys <- NoKey
  Kinds = {"accel", "ir", "extension"}
  Lights <- OneLight
  Reads <- OneRead
  EventCap = 2
  MemCap = 1
  RxCap = 1
  Faults = {}
INVARIANTS
  MotorFollows
  FramesWhole
PROPERTIES
  ModeInEffect
  OutputReturns
CHECK_DEADLOCK FALSE
