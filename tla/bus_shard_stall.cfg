SPECIFICATION DeliveryFairSpec
CONSTANTS
  r1 = r1
  r2 = r2
  hit = hit
  near = near
  miss = miss
  d1 = d1
  d2 = d2
  b1 = b1
  Run = {r1}
  Subject = {hit}
  Appender = {a1}
  MaxEntries = 2
  Batch = 1
  Defs <- ShardedReaction
  ShardOf <- Hash
  Server = {s1}
  Worker = {d1, d2, b1}
  Bridge = {b1}
  Registrations = 1
  Concurrency = 2
  MaxAttempts = 3
  FaultBudget = 0
  Pattern = {hit}
  Prefilter = {hit, near}
  TickLimit = 2
  BufferLimit = 2
  Buffering = {TRUE, FALSE}
  Effect = {e1}
  Subscriber = {p1, p2}
  Outbox = outbox
  Nobody = nobody
  LruSize = 2
  MaxMessages = 3
  MaxOutboxAttempts = 3
  Path = {"reactions"}
PROPERTIES EveryHitSettles
CHECK_DEADLOCK FALSE
