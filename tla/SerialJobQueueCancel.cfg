SPECIFICATION FairSpec
CONSTANTS
  Clients = {c1}
  Owner = c1
  JobIds = {a}
  MaxSubmits = 2
INVARIANT CancelledResultDiscarded
