SPECIFICATION Spec
CONSTANTS
  Producers = {p1, loop}
  Loop = loop
  Nodes = {n1, n2}
  Stub = stub
  Null = null
  Descriptors = {d1}
  MaxId = 2
  MaxTime = 1
PROPERTIES
  PostedIsRun
  TimersFire
  TerminateReturns
