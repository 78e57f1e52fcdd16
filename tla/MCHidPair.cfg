SPECIFICATION Spec
CONSTANTS
  p1 = p1
  p2 = p2
  None = None
  Proc = {p1, p2}
  Work <- Duo
  Keys <- OneKey
  Kinds = {}
  Lights <- OneLight
  Reads <- OneRead
  EventCap = 1
  MemCap = 1
  RxCap = 2
  Faults = {"err"}
INVARIANTS
  TypeOK
  AnswerNotLost
  AnswerFresh
PROPERTIES
  AnswersOnce
CHECK_DEADLOCK FALSE
