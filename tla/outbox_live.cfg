SPECIFICATION FairSpec
CONSTANTS
  None = None
  Key = {wire}
  NonIdempotent = {wire}
  Compensable = {wire}
  Dispatcher = {d1, d2}
  Reconciler = {r1}
  MaxAttempts = 1
  AttemptCap = 1
  CrashBudget = 1
  Peeks = TRUE
  Prompt = FALSE
  ReconcilePending = FALSE
PROPERTIES Dispatched
CHECK_DEADLOCK FALSE
