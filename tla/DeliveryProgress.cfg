SPECIFICATION FairSpec
CONSTANTS
  a1 = a1
  a2 = a2
  b1 = b1
  Deliveries = {a1, b1}
  KeyOf <- TwoStations
  Critical = {a1, b1}
  Adapters = {"http", "mqtt"}
  Lifetime = 2
  InitialBackoff = 1
  MaximumBackoff = 2
  PageLimit = 1
  QueueCapacity = 1
  ReportCapacity = 1
  HeldLimit = 1
  HistoryAge = 9
  LastCommit = 0
  MaxTime = 3
  MaxRestarts = 0
PROPERTY
  EverySettles
CHECK_DEADLOCK FALSE
