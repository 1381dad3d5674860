SPECIFICATION LoopAndPollerSpec
SYMMETRY Symmetry
CONSTANTS
  Producers = {p1, p2, loop}
  Loop = loop
  Nodes = {n1, n2}
  Stub = stub
  Null = null
  Descriptors = {d1, d2}
  MaxId = 3
  MaxTime = 1
  None = none
  PolledSockets = {d1, d2}
  PolledEvents = {e1, e2}
  AutoEvents = {e1}
  MaxEventsPerWait = 2
  MaxSocketsPerPoll = 1
  MaxHandles = 3
INVARIANTS
  NothingSleptOver
  PostsRunInOrder
  ReadinessIsForThisWatch
