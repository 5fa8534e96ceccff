\* Two runs of one thread, with a child namespace, and a WebSocket of two subscriptions that
\* subscribe, leave and resume under a buffer of two events; the read of a run may fail.
SPECIFICATION Spec
CONSTANTS
  s1 = s1
  s2 = s2
  Runs = 2
  MaxEvents = 1
  Kinds = {"works", "closes"}
  Outcomes = {"success"}
  MaxAttempts = 1
  Subs = {s1, s2}
  Filter <- TwoFilters
  SseSub = s1
  Transports = {"ws"}
  MaxBuffer = 2
  MaxCommands = 2
  MaxConnects = 1
  Faults = {"run"}
CHECK_DEADLOCK FALSE
INVARIANTS
  TypeOK
  NothingMissed
  InOrder
