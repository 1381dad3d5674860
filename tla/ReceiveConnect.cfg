SPECIFICATION NetSpec
CONSTANTS
  None = none
  NetSockets = {s1}
INVARIANT ConnectNeverPassesForNone
CHECK_DEADLOCK FALSE
