\* Two reconcilers, a reap or a fault, on a ticket that stays open.
SPECIFICATION Unattended
CONSTANTS
  Workers = {w1, w2}
  Reconcilers = {r1, r2}
  MaxAttempts = 1
  MaxStops = 0
  MaxResumes = 0
  MaxFaults = 1
  MaxReaps = 1
  NoWorker = NoWorker
  NoRow = NoRow
INVARIANTS LockHeld WorkerKnown ReplacementUndisturbed
CONSTRAINTS TicketOpen OneMishap
SYMMETRY Symmetry
ACTION_CONSTRAINTS UsualSteps NoStepFails
\* The run ends and its processes exit: the system really stops.
CHECK_DEADLOCK FALSE
