SPECIFICATION Spec
CONSTANTS
  None = None
  Key = {wire, post}
  NonIdempotent = {wire}
  Compensable = {wire, post}
  Dispatcher = {d1, d2}
  Reconciler = {r1}
  MaxAttempts = 2
  AttemptCap = 2
  CrashBudget = 2
  Peeks = TRUE
  Prompt = TRUE
  ReconcilePending = FALSE
SYMMETRY Perms
INVARIANTS AtMostOneLanding ObligedLanded
PROPERTIES ConfirmedStays KeepsContract
CHECK_DEADLOCK FALSE
