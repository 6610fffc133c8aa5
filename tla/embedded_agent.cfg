SPECIFICATION Spec
CONSTANTS
  None = None
  Invocation = {"i1", "i2"}
  Tool = {"pay", "wire"}
  OutboxTool = {"wire"}
  Connectors = {"refund"}
  Kind = "refund"
  MaxObAttempts = 1
  Timer = {}
  Worker = {w1}
  Writer = {}
  Faults = {}
  Dedupes = FALSE
  ReconcilePending = TRUE
  AttemptCap = 1
  CrashBudget = 0
  Retention = TRUE
  Promptness = {TRUE}
  Script <- TwoDecisions
  AgentCrashBudget = 1
  MaxSets = 1
  MaxVersion = 1
  Focus = {"agent"}
  
PROPERTIES  NothingOwedForgotten
CHECK_DEADLOCK FALSE
