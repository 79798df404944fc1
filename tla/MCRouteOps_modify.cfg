SPECIFICATION Spec
CONSTANTS
  Keys <- MCKeys
  InitialTables <- MCInitialTables
  Files <- MCFiles
  Tasks = {t1}
  MaxOps = 1
  MaxMishaps = 0
INVARIANT ModifyAddsNew
CHECK_DEADLOCK FALSE
