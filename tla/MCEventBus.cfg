SPECIFICATION Spec
CONSTANTS
  Items = {1, 2, 3, 4}
  None = none
  Size = 3
  Publishers = {tracer, etw}
  NumEvents = 4
  MaxClears = 1
  MaxDisplay = 2
INVARIANTS
  DeliveredOnceInOrder
  LogShowsNewest
PROPERTIES
  RingIsBoundedLog
  EventsReachTheLog
CHECK_DEADLOCK FALSE
