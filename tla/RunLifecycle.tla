---------------------------- MODULE RunLifecycle ----------------------------
(***************************************************************************)
(* What the status of a run may do, for those who only see its status:     *)
(* actors read it, and each change is a move of the lifecycle from a       *)
(* status that its writer read and still holds, however old, since nobody  *)
(* makes a write depend on the status it overwrites.  Only the start of    *)
(* another run looks and writes in one step.                               *)
(***************************************************************************)
VARIABLES
  status,
  known       \* the statuses in the records that somebody holds

vars == <<status, known>>

\* What an actor may make of a run, by the status in its record.  A completed
\* or superseded run is nobody's to move.
Moves ==
  [pending    |-> {"pending", "running", "stopped", "failed"},
   running    |-> {"running", "paused", "stopped", "completed", "failed"},
   paused     |-> {"paused", "running", "completed", "failed"},
   stopped    |-> {"running", "failed"},
   failed     |-> {"running", "failed"},
   completed  |-> {},
   superseded |-> {}]

Init == status = "pending" /\ known = {}

\* Records are read and dropped.
Read == status' = status /\ known' \subseteq known \cup {status}

\* A writer may go on with the record it wrote.
Write ==
  /\ \E s \in known : status' \in Moves[s]
  /\ known' \subseteq known \cup {status'}

Supersede == status = "paused" /\ status' = "superseded" /\ known' = known

Next == Read \/ Write \/ Supersede

Spec == Init /\ [][Next]_vars
=============================================================================
