\* Two files, a run of the agent beside a save or an upload, and deletions; one content is
\* written, three fetches, and two requests that fail or lose their answers.
SPECIFICATION Spec
CONSTANTS
  f1 = f1
  f2 = f2
  Files = {f1, f2}
  MaxContents = 2
  MaxFetches = 3
  MaxFaults = 2
CHECK_DEADLOCK FALSE
SYMMETRY Interchangeable
INVARIANTS
  TypeOK
  CurrentIfNewest
  SelectionIsShown
