SPECIFICATION Spec
CONSTANTS
  Declaration <- Samplers
  Granted = {}
  MaxAttempts = 1
  Posture <- Managed1
  Slack = 3
  CrashBudget = 1
  BlipBudget = 0
INVARIANTS
  SampleReplays
CHECK_DEADLOCK FALSE
