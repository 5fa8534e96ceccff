\* Two runs compete for the one slot; the doorbell fails at will (a wakeup that another
\* process takes is the same loss), delayed runs and retries ring none, runs are cancelled
\* by calls that may die half way, and attempt counters expire for some time: every due run
\* is claimed, every claimed run ends.
SPECIFICATION FairSpec
CONSTANTS
  r1 = r1
  r2 = r2
  t1 = t1
  t2 = t2
  w1 = w1
  w2 = w2
  s1 = s1
  s2 = s2
  NoRun = NoRun
  Runs = {r1, r2}
  Threads = {t1}
  ThreadOf <- OneThread
  Temporary = {}
  Strategies = {"enqueue", "reject"}
  Procs = {w1}
  Slots = {s1}
  ProcOf <- AllOnOne
  MaxRetries = 1
  Cancellers = {c1}
  MaxWakeups = 2
  Calls = {"delay", "cancel"}
  Faults = {"bell", "abort", "attempt expiry"}
PROPERTIES
  DueRunIsClaimed
  ClaimedRunEnds
