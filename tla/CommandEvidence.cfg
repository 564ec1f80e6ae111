\* Writers of observed effects and late replies race one submission.
CONSTANTS
  c1 = c1  c2 = c2  t1 = t1  t2 = t2  w1 = w1  w2 = w2  e1 = e1  e2 = e2
  Requests <- OneRequest
  Contents = {c1}
  RouteOf <- OneRoute
  Correlated <- OneRequest
  Tasks = {t1}
  Writers = {w1, w2}
  Events = {e1, e2}
  PageLimit = 1
  MaxGenerations = 1
  MaxBoots = 0
  Prunable = {}
  NoCommand = NoCommand
  NoResult = NoResult
SPECIFICATION Spec
SYMMETRY WriterSymmetry
INVARIANTS
  NoManufacturedAnswer CallersAgree UnresolvedColumn
PROPERTIES
  LifecycleMonotone EffectsNeverLost
