\* A stale worker's last write takes back a counted restart.
SPECIFICATION Unattended
CONSTANTS
  Workers = {w1, w2, w3}
  Reconcilers = {r1}
  MaxAttempts = 1
  MaxStops = 0
  MaxResumes = 0
  MaxFaults = 0
  MaxReaps = 0
  NoWorker = NoWorker
  NoRow = NoRow
INVARIANTS RestartBudget
SYMMETRY Symmetry
\* The run ends and its processes exit: the system really stops.
CHECK_DEADLOCK FALSE
