------------------------------ MODULE OneReply ------------------------------
(***************************************************************************)
(* What the delivery ledger promises of the reply of one turn: once it is  *)
(* registered it is open until it ends for good, as lost or as delivered,  *)
(* which it is only when the platform has confirmed a send of it before;   *)
(* and every confirmed send but one has an excuse.                         *)
(***************************************************************************)
EXTENDS Naturals

VARIABLES
  phase,      \* "none", "open", "delivered" or "lost"
  copies,     \* sends the platform has confirmed
  excuses     \* reasons there have been to send once more

vars == <<phase, copies, excuses>>

Init == phase = "none" /\ copies = 0 /\ excuses = 0

Register == phase = "none" /\ phase' = "open" /\ copies' = copies

\* The sender reports after the send was confirmed.
Deliver ==
  phase = "open" /\ copies > 0 /\ phase' = "delivered" /\ copies' = copies

GiveUp == phase = "open" /\ phase' = "lost" /\ copies' = copies

\* The record hears of a confirmed send later, or never: its sender may lose the
\* lease, be cut off before it reports, or have no lease at all.
Send == phase' = phase /\ copies' = copies + 1

Excused == excuses' = excuses + 1 /\ UNCHANGED <<phase, copies>>

\* An excuse and what it excuses may be one step.
Next ==
  \/ Excused
  \/ /\ Register \/ Deliver \/ GiveUp \/ Send
     /\ excuses' \in {excuses, excuses + 1}
     /\ copies' <= 1 + excuses'

Spec == Init /\ [][Next]_vars
=============================================================================
