SPECIFICATION Spec
CONSTANTS
  None = None
  Invocation = {"i1"}
  Tool = {"pay", "wire"}
  OutboxTool = {"wire"}
  Connectors = {"wire"}
  Kind = "refund"
  MaxObAttempts = 1
  Timer = {"t1"}
  Worker = {w1, w2}
  Writer = {c1, c2}
  Faults = {"lose_ack", "duplicate"}
  Dedupes = TRUE
  ReconcilePending = FALSE
  AttemptCap = 1
  CrashBudget = 1
  Retention = FALSE
  Promptness = {TRUE, FALSE}
  Script <- TwiceWire
  AgentCrashBudget = 0
  MaxSets = 2
  MaxVersion = 2
  Focus = {"agent", "timers", "values"}
SYMMETRY Perms
 
PROPERTIES KeepsContract
CHECK_DEADLOCK FALSE
