\* Two runs, with chunks, an interrupt and a namespace that opens, and an SSE client that
\* connects twice; the thread state may be unreadable.
SPECIFICATION FairSpec
CONSTANTS
  s1 = s1
  s2 = s2
  Runs = 2
  MaxEvents = 1
  Kinds = {"chunk", "input", "opens"}
  Outcomes = {"success", "error", "interrupted"}
  MaxAttempts = 1
  Subs = {s1, s2}
  Filter <- TwoFilters
  SseSub = s1
  Transports = {"sse"}
  MaxBuffer = 2
  MaxCommands = 0
  MaxConnects = 2
  Faults = {"state"}
CHECK_DEADLOCK FALSE
INVARIANTS
  TerminalTold
PROPERTIES
  EndTold
