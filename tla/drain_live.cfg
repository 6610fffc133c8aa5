SPECIFICATION FairSpec
CONSTANTS
  None = None
  Effect = {e1}
  Registrar = {r1}
  Drainer = {d1, d2}
  Saga = {g1}
  Rows = 1
  MaxAttempts = 2
  MaxPasses = 1
  CrashBudget = 1
  Prompt = FALSE
PROPERTIES Drained
CHECK_DEADLOCK FALSE
