SPECIFICATION WatchSpec
SYMMETRY FolderSymmetry
CONSTANTS
  Folders = {f1, f2, f3}
  FolderNames = {a, b}
  Root = root
  Outside = outside
  Away = away
  Gone = gone
  RacingMoves = TRUE
  MaxQueue = 2
  MaxChanges = 3
INVARIANT TreeIsWatched
CHECK_DEADLOCK FALSE
