\* Two tickets, the second one the user's; one thing that goes wrong.
SPECIFICATION FairSpec
CONSTANTS
  Tickets = 2
  UserTickets = {2}
  Modes = {"pause"}
  MaxTurns = 2
  MaxLint = 1
  MaxCommit = 1
  MaxNetwork = 1
  MaxActs = 1
  MaxResumes = 1
  MaxFaults = 1
INVARIANTS RunnerTypeOK RepliesHeard BarrierPins HandoffYields TurnsBounded StepsAsAssumed
PROPERTIES ComesToRest
\* A run that has ended or waits for its user stays so.
CHECK_DEADLOCK FALSE
