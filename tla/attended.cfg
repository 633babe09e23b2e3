\* One reconciler, one ticket, one restart and one fault anywhere. No symmetry: liveness.
SPECIFICATION FairUnattended
CONSTANTS
  Workers = {w1, w2}
  Reconcilers = {r1}
  MaxAttempts = 1
  MaxStops = 0
  MaxResumes = 0
  MaxFaults = 1
  MaxReaps = 0
  NoWorker = NoWorker
  NoRow = NoRow
INVARIANTS TypeOK OneWorker
PROPERTIES BarrierBlocksRestart RunningAttended
ACTION_CONSTRAINTS UsualSteps OneTicket
\* The run ends and its processes exit: the system really stops.
CHECK_DEADLOCK FALSE
