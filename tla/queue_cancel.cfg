\* Cancellation: two runs of one thread, two slots of one process, one caller
\* that cancels by id, by status or through a multitask strategy; the control
\* key expires at any time.
SPECIFICATION Spec
CONSTANTS
  r1 = r1
  r2 = r2
  t1 = t1
  t2 = t2
  w1 = w1
  w2 = w2
  s1 = s1
  s2 = s2
  NoRun = NoRun
  Runs = {r1, r2}
  Threads = {t1}
  ThreadOf <- OneThread
  Temporary = {}
  Strategies = {"enqueue", "interrupt", "rollback"}
  Procs = {w1}
  Slots = {s1, s2}
  ProcOf <- AllOnOne
  MaxRetries = 1
  Cancellers = {c1}
  MaxWakeups = 0
  Calls = {"cancel", "cancel by status"}
  Faults = {"control expiry"}
SYMMETRY Interchangeable
INVARIANTS
  NoLostCancel
  NoOrphans
PROPERTIES
  TerminalIsFinal
