\* Two crons, two schedulers that fail and drop replies, patches and deletions: what is
\* due fires, unless a patch took its assistant away, and what is stopped comes to an end.
SPECIFICATION FairSpec
CONSTANTS
  Ids = {c1, c2}
  Schedulers = {s1, s2}
  Periods = {2}
  Ends = {4}
  Calls = {"patch", "reassign", "delete"}
  MaxTime = 3
  MaxFired = 3
INVARIANTS
  TypeOK
  StopsFiring
PROPERTIES
  DueCronFires
