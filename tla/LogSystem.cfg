CONSTANTS
  Threads = {main, writer}
  Main = main
  Channels = {c1, c2}
  Listeners = {l1}
  OwnListeners = {o1}
  Levels = {info}
  Configs <- MCConfigs
  MaxMessages = 2
  MaxHistory = 1
  MaxChanges = 2
  MaxNesting = 1
SYMMETRY ChannelSymmetry
SPECIFICATION Spec
INVARIANT ListenersAreServed
CHECK_DEADLOCK FALSE
