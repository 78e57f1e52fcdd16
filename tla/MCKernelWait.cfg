SPECIFICATION LiveSpec
CONSTANTS
  n1 = n1
  n2 = n2
  None = None
  Closed = Closed
  Kinds = {1, 2}
  Rumbles = {}
  Nodes = {n1, n2}
  Fds = {1, 2}
  QueueCap = 6
  Work <- WaitCalls
PROPERTY WaitReturns
