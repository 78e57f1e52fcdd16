SPECIFICATION Spec
CONSTANTS
  p1 = p1
  p2 = p2
  None = None
  Proc = {p1}
  Work <- Plain
  Keys <- OneKey
  Kinds = {}
  Lights <- OneLight
  Reads <- TwoReads
  EventCap = 2
  MemCap = 1
  RxCap = 2
  Faults = {"eof", "err", "write", "drop"}
INVARIANTS
  NeverTwice
  PollNeverFull
  KeysTold
CHECK_DEADLOCK FALSE
