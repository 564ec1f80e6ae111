SPECIFICATION FairSpec
CONSTANTS
  Attempts <- Calls
  IdOf <- SharedIds
  Reservations <- Reserving
  PendingCapacity = 2
  HistoryCapacity = 2
  NoAttempt = NoAttempt
PROPERTIES
  KeepsContract
  EveryCallSettles
CHECK_DEADLOCK FALSE
