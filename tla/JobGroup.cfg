SPECIFICATION FairSpec
CONSTANTS
  main = main
  w1 = w1
  g1 = g1
  g2 = g2
  g3 = g3
  j1 = j1
  j2 = j2
  j3 = j3
  Clients = {main}
  Workers = {w1}
  Groups = {g1, g2, g3}
  Jobs = {j1, j2, j3}
  GroupOf <- MCGroupOf
  Creator <- MCCreator
  NoGroup = noGroup
  NoJob = noJob
INVARIANT GroupsAreSound
PROPERTIES CancelReachesNested WaitMeansDone WaitReturns
