\* Two runs enqueued on one thread.
SPECIFICATION Spec
CONSTANTS
  r1 = r1
  r2 = r2
  t1 = t1
  t2 = t2
  w1 = w1
  w2 = w2
  s1 = s1
  s2 = s2
  NoRun = NoRun
  Runs = {r1, r2}
  Threads = {t1}
  ThreadOf <- OneThread
  Temporary = {}
  Strategies = {"enqueue"}
  Procs = {w1, w2}
  Slots = {s1, s2}
  ProcOf <- OneEach
  MaxRetries = 1
  Cancellers = {}
  MaxWakeups = 0
  Calls = {}
  Faults = {}
INVARIANTS
  EnqueueWaits
