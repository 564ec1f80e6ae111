\* Two submissions of one request ID race over a reconnection and a restart.
CONSTANTS
  c1 = c1  c2 = c2  t1 = t1  t2 = t2  w1 = w1  w2 = w2  e1 = e1  e2 = e2
  Requests <- OneRequest
  Contents = {c1, c2}
  RouteOf <- Routes
  Correlated = {}
  Tasks = {t1, t2}
  Writers = {}
  Events = {}
  PageLimit = 1
  MaxGenerations = 2
  MaxBoots = 1
  Prunable = {}
  NoCommand = NoCommand
  NoResult = NoResult
SPECIFICATION Spec
SYMMETRY TaskSymmetry
INVARIANTS
  TypeOK AtMostOneSend WriteAhead RejectedMeansUnsent NoReplay
  CallersAgree
