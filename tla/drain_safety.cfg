SPECIFICATION Spec
CONSTANTS
  None = None
  Effect = {e1, e2}
  Registrar = {r1}
  Drainer = {d1, d2}
  Saga = {g1}
  Rows = 2
  MaxAttempts = 2
  MaxPasses = 2
  CrashBudget = 1
  Prompt = TRUE
SYMMETRY Perms
INVARIANTS NeverFalselyCompensated ReversalsAccounted StuckIsReal 
PROPERTIES TerminalStays
CHECK_DEADLOCK FALSE
