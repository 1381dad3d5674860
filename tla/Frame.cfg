SPECIFICATION FrameSpec
CONSTANTS
  a = a
  b = b
  c = c
  Modules = {a, b, c}
  Setups <- MCSetups
  FramePhases = {1, 2}
  MaxBoots = 2
  Threads = {main, w}
  Main = main
  Types = {t}
  MaxHandles = 3
  MaxQueued = 2
  MaxDispatches = 2
  None = none
  FlCapacity = 16
  FlSizes = {1, 2, 5}
  FlAlignments = {1, 2, 4}
  ArCapacity = 12
  ArSizes = {1, 2, 3}
  ArAlignments = {1, 4}
  ArObjects = 4
  MemThreads = {x1, x2}
  Addresses = {y1, y2}
  MemSizes = {1}
  MaxScopes = 1
  CounterRange = 3
  MaxResets = 1
  UintRange = 8
  MaxThreads = 3
INVARIANTS
  OrderIsStable
  LifeIsOrdered
  ListsAreRight
  OwnUnsubscribeIsImmediate
  AllocatorsAreSound
  TrackingIsExact
  RangeIsPartitioned
PROPERTIES
  RefusedForCause
  DrainInOrder
CHECK_DEADLOCK FALSE
