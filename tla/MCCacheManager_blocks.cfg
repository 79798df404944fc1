SPECIFICATION Spec
CONSTANTS
  Keys = {routes}
  Callers = {main, worker}
  BaseTtl = 1
  MaxTtl = 3
  StartTime = 4
  MaxTime = 7
  MaxChanges = 1
  MaxCalls = 4
INVARIANT NeverBlocksOnBackground
CHECK_DEADLOCK FALSE
