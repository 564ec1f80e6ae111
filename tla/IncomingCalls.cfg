SPECIFICATION FairSpec
CONSTANTS
  i1 = i1
  i2 = i2
  i3 = i3
  Ids = {i1, i2, i3}
  IncomingCapacity = 2
  HistoryCapacity = 2
  MaxFrames = 5
INVARIANTS
  TypeOK
  AnsweredOnce
  IdsAreReserved
  DeliveredOncePerWindow
PROPERTIES
  CallsAreAnswered
CHECK_DEADLOCK FALSE
