SPECIFICATION Spec
CONSTANTS
  Keys <- MCKeys
  InitialTables <- MCInitialTables
  Files <- MCFiles
  Tasks = {t1, t2}
  MaxOps = 2
  MaxMishaps = 1
INVARIANTS
  RestoredExactly
  SuccessIsInstalled
  SwitchedDefault
  OwnWritesSeen
PROPERTY SkipKeepsRoutes
SYMMETRY TaskSymmetry
CHECK_DEADLOCK FALSE
