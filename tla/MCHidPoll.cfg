SPECIFICATION LiveSpec
CONSTANTS
  p1 = p1
  p2 = p2
  None = None
  Proc = {p1}
  Work <- Plain
  Keys <- OneKey
  Kinds = {}
  Lights <- OneLight
  Reads <- OneRead
  EventCap = 2
  MemCap = 1
  RxCap = 2
  Faults = {}
PROPERTY PollReturns
CHECK_DEADLOCK FALSE
