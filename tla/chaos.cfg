SPECIFICATION Spec
CONSTANTS
  Rules <- MCRules
  Message <- MCMessage
  Events = 4
  Upstream <- MCUpstream
  MaxStarts = 2
  Registered = {"bank", "mail"}
  ToolSpec <- MCToolSpec
  Scenarios <- MCScenarios
  Bodies <- MCBodies
  Skies <- MCSkies
  Streams <- MCStreams
  Request = {q1, q2}
  MaxSeq = 6
  Prompt = TRUE
  Target = {"pending", "unknown", "confirmed", "stuck", "compensated"}
  FromSeq = 4
  Consoles = {"inspector", "summary", "doctor", "doctor_adk", "inspect_adk"}
INVARIANTS  ScenarioSound  LineageSound ScreenFaithful 
PROPERTIES ProxyEnds
CHECK_DEADLOCK FALSE
