\* The worker dies after the agent finished a ticket in the step that chose it.
SPECIFICATION Spec
CONSTANTS
  Tickets = 2
  UserTickets = {}
  Modes = {"pause"}
  MaxTurns = 2
  MaxLint = 1
  MaxCommit = 1
  MaxNetwork = 1
  MaxActs = 0
  MaxResumes = 0
  MaxFaults = 1
INVARIANTS BarrierPreserves
\* A run that has ended or waits for its user stays so.
CHECK_DEADLOCK FALSE
