\* The user stops the run while it runs and is restarted twice.
SPECIFICATION Spec
CONSTANTS
  Workers = {w1, w2, w3}
  Reconcilers = {r1}
  MaxAttempts = 2
  MaxStops = 1
  MaxResumes = 0
  MaxFaults = 0
  MaxReaps = 0
  NoWorker = NoWorker
  NoRow = NoRow
INVARIANTS OneWorkerUnlessForgot
PROPERTIES StopSticks
CONSTRAINT TicketOpen
SYMMETRY Symmetry
ACTION_CONSTRAINTS UsualSteps NoStepFails
\* The run ends and its processes exit: the system really stops.
CHECK_DEADLOCK FALSE
