SPECIFICATION Spec
CONSTANTS
  Attempts <- Calls
  IdOf <- SharedIds
  Reservations <- Reserving
  PendingCapacity = 2
  HistoryCapacity = 2
  NoAttempt = NoAttempt
INVARIANTS
  TypeOK
  NotTransmittedMeansUnsent
  NoStaleReply
  LateReportedOnce
CHECK_DEADLOCK FALSE
