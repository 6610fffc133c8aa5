SPECIFICATION FairSpec
CONSTANTS
  App = app
  Reactor = {r1}
  Human = {h1}
  Ticker = {t1}
  Gates = 2
  SendBudget = 2
  CrashBudget = 2
  Prompt = TRUE
  Settled = TRUE
INVARIANTS  EndsAnswered NoLostWakeup
PROPERTIES Ends
CHECK_DEADLOCK FALSE
