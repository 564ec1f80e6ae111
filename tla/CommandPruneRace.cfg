\* A writer of evidence outlives the pruning of its command.
CONSTANTS
  c1 = c1  c2 = c2  t1 = t1  t2 = t2  w1 = w1  w2 = w2  e1 = e1  e2 = e2
  Requests <- OneRequest
  Contents = {c1, c2}
  RouteOf <- Routes
  Correlated <- OneRequest
  Tasks = {t1}
  Writers = {w1}
  Events = {e1}
  PageLimit = 1
  MaxGenerations = 1
  MaxBoots = 0
  Prunable = {1}
  NoCommand = NoCommand
  NoResult = NoResult
SPECIFICATION Spec
INVARIANTS
  ResultHasCommand
