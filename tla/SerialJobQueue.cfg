SPECIFICATION FairSpec
CONSTANTS
  Clients = {c1, c2}
  Owner = c1
  JobIds = {a, b}
  MaxSubmits = 3
INVARIANT JobsAreKept
PROPERTY PendingIsTaken
