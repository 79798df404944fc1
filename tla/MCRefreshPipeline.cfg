SPECIFICATION Spec
CONSTANT MaxCauses = 2
INVARIANTS
  RefreshSeesChange
  QuietMeansFresh
PROPERTY Settles
CHECK_DEADLOCK FALSE
