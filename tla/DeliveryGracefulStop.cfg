SPECIFICATION Spec
CONSTANTS
  a1 = a1
  a2 = a2
  b1 = b1
  Deliveries = {a1}
  KeyOf <- TwoStations
  Critical = {a1}
  Adapters = {"http"}
  Lifetime = 2
  InitialBackoff = 1
  MaximumBackoff = 2
  PageLimit = 1
  QueueCapacity = 1
  ReportCapacity = 1
  HeldLimit = 1
  HistoryAge = 9
  LastCommit = 1
  MaxTime = 3
  MaxRestarts = 0
INVARIANT
  CompletedDrainExitsZero
CHECK_DEADLOCK FALSE
