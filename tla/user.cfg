\* The user stops and resumes, the reaper reaps, and nobody reconciles or looks
\* at the worktree.
SPECIFICATION Spec
CONSTANTS
  Workers = {w1, w2}
  Reconcilers = {}
  MaxAttempts = 0
  MaxStops = 1
  MaxResumes = 1
  MaxFaults = 0
  MaxReaps = 1
  NoWorker = NoWorker
  NoRow = NoRow
INVARIANTS RecordsUnfinished
PROPERTIES ImplementsLifecycle
CONSTRAINT WorktreeClean
SYMMETRY Symmetry
ACTION_CONSTRAINT UsualSteps
\* The run ends and its processes exit: the system really stops.
CHECK_DEADLOCK FALSE
