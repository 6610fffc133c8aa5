SPECIFICATION Spec
CONSTANTS
  Declaration <- Tools
  Granted = {"wire"}
  MaxAttempts = 2
  Posture <- Postures
  Slack = 3
  CrashBudget = 2
  BlipBudget = 1
INVARIANTS ExecutedIsRecorded BodiesRepeatable  OverrunBounded InverseRegistered
CHECK_DEADLOCK FALSE
