SPECIFICATION Spec
SYMMETRY Symmetry
CONSTANTS
  None = none
  Producers = {x1, x2, p3}
  Nodes = {y1, y2, n3, n4}
  Stub = stub
  Null = null
  Writers = {x1, x2}
  TempNames = {y1, y2}
  Old = old
  NoFile = noFile
  SymLink = symLink
  FileSize = 2
  MaxTries = 2
  Folders = {f1, f2, f3}
  FolderNames = {a, b}
  Root = root
  Outside = outside
  Away = away
  Gone = gone
  RacingMoves = FALSE
  MaxQueue = 3
  MaxChanges = 3
  MaxEntries = 1
  MaxWrites = 4
  Children = {x1, x2}
  Pids = {y1, y2}
  Other = other
  Orphan = orphan
  MaxWord = 3
  Lookups = {y1, y2, l3}
  NetSockets = {y1, y2, s3}
INVARIANTS
  NoUseAfterFree
  NoCellLeaked
  ReadIsWhole
  NoChangeUnseen
  SystemWritesIntoLive
  NothingIsLeaked
  ChildIsOwn
  ProgramIsLaunched
  FailedConnectIsReported
  CertificatesAreRight
PROPERTIES
  ImplementsFifo
  ImplementsAtomicFile
  KeepsLinkAndMode
CHECK_DEADLOCK FALSE
