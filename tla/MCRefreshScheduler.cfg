SPECIFICATION Spec
CONSTANTS
  Threads = {main, listener, tracer}
  Main = main
  MaxMarks = 4
  MaxOrders = 2
INVARIANTS
  NoLostMark
PROPERTY KeepsPromise
CHECK_DEADLOCK FALSE
