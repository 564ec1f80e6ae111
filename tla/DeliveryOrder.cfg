SPECIFICATION Spec
CONSTANTS
  a1 = a1
  a2 = a2
  b1 = b1
  Deliveries = {a1, a2}
  KeyOf <- TwoStations
  Critical = {a2}
  Adapters = {"mqtt"}
  Lifetime = 2
  InitialBackoff = 1
  MaximumBackoff = 2
  PageLimit = 1
  QueueCapacity = 1
  ReportCapacity = 1
  HeldLimit = 2
  HistoryAge = 1
  LastCommit = 1
  MaxTime = 3
  MaxRestarts = 1
INVARIANTS
  TypeOK
  NothingVanishes
  OneCopy
  WorkerSurvives
PROPERTY
  PeerOrder
CHECK_DEADLOCK FALSE
