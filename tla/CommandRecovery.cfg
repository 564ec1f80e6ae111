\* Restart pages through unresolved rows, some of which stay unresolved.
CONSTANTS
  c1 = c1  c2 = c2  t1 = t1  t2 = t2  w1 = w1  w2 = w2  e1 = e1  e2 = e2
  Requests <- TwoRequests
  Contents = {c1}
  RouteOf <- OneRoute
  Correlated = {}
  Tasks = {t1}
  Writers = {}
  Events = {}
  PageLimit = 1
  MaxGenerations = 1
  MaxBoots = 1
  Prunable = {}
  NoCommand = NoCommand
  NoResult = NoResult
SPECIFICATION FairSpec
INVARIANTS
  RecoveryIsComplete
PROPERTIES
  RecoveryCompletes SubmissionsEnd
