--------------------------- MODULE ThreadDelivery ---------------------------
(***************************************************************************)
(* The durable final delivery of one finished turn of a managed thread:    *)
(* its record in the delivery ledger, the engine's calls on it, the        *)
(* service's delivery worker and the task of the turn itself, which hands  *)
(* the result over and, for a turn a user waits for, falls back to sending *)
(* it directly.                                                            *)
(*                                                                         *)
(* Both tasks run on the service's event loop and every engine call is     *)
(* synchronous, so a call is one step; what lies between two calls is an   *)
(* await, where the other task, the clock and a crash come in.  A call     *)
(* commits several times, and a crash or an error of SQLite may leave the  *)
(* record between two commits (MidCall).                                   *)
(*                                                                         *)
(* A claim token is a fresh uuid and a claim counts one attempt up, so the *)
(* number of the attempt stands for the token; 0 stands for no token.      *)
(***************************************************************************)
EXTENDS Naturals, FiniteSets

CONSTANTS
  MaxAttempts,  \* max_attempts of the engine: 5 in the code
  MaxRetries,   \* bound: RETRY outcomes (a timeout, a cancellation, an
                \* undelivered direct send)
  MaxCrashes,   \* bound: crashes and shutdowns of the service
  MaxFaults     \* bound: engine calls that raise

ASSUME DeliveryAssumption ==
  /\ MaxAttempts \in Nat \ {0}
  /\ MaxRetries \in Nat /\ MaxCrashes \in Nat /\ MaxFaults \in Nat

VARIABLES
  row,        \* the record: its state, claim token, attempts, and whether
              \* next_attempt_at has come
  lapsed,     \* the attempts whose claim_expires_at has passed
  direct,     \* retain_claim_for_direct_delivery of the turn's hand-off
  pc,         \* where each task is
  held,       \* the claim token each task holds
  seen,       \* the state of the record the hand-off returned
  copies,     \* sends the platform has confirmed
  cut,        \* history: confirmed sends the record heard of as a RETRY, because
              \* their task was timed out or cancelled before it answered
  retries, crashes, faults

taskVars == <<direct, pc, held, seen>>
counters == <<retries, crashes, faults>>
vars == <<row, lapsed, taskVars, copies, cut, counters>>

-----------------------------------------------------------------------------
(* The ledger *)

Waiting == {"pending", "retry_scheduled"}
Leased == {"claimed", "delivering"}
Sent == {"delivered", "direct_surface_delivered"}
Terminal == Sent \cup {"failed", "abandoned", "expired"}
States == {"none"} \cup Waiting \cup Leased \cup Terminal

\* MANAGED_THREAD_DELIVERY_ALLOWED_TRANSITIONS.
Allowed ==
  [none            |-> {},
   pending         |-> {"claimed", "delivering", "retry_scheduled",
                        "direct_surface_delivered", "abandoned", "expired"},
   claimed         |-> {"delivering", "retry_scheduled",
                        "direct_surface_delivered", "abandoned", "expired"},
   delivering      |-> {"delivered", "direct_surface_delivered",
                        "retry_scheduled", "failed", "abandoned"},
   retry_scheduled |-> {"claimed", "delivering", "direct_surface_delivered",
                        "abandoned", "expired"},
   delivered       |-> {}, direct_surface_delivered |-> {},
   failed          |-> {}, abandoned |-> {}, expired |-> {}]

CanMove(s, next) == s = next \/ next \in Allowed[s]

Row == [state : States, token : Nat, attempts : Nat, due : BOOLEAN]

NoRow == [state |-> "none", token |-> 0, attempts |-> 0, due |-> FALSE]

\* A second intent for the same turn and surface finds the first one's record.
RegisterIntent(r) ==
  IF r.state = "none" THEN [r EXCEPT !.state = "pending", !.due = TRUE] ELSE r

LeaseActive(r) == r.state \in Leased /\ r.token \notin lapsed

\* A wrong variant: a failed delivery is tried again.
PlanRetriesFailed(r) ==
  CASE r.state \in Waiting /\ r.due -> "claim"
    [] r.state = "failed" -> "retry"
    [] r.state \in Leased /\ r.token \in lapsed ->
         IF r.attempts >= MaxAttempts THEN "abandon" ELSE "retry"
    [] OTHER -> "noop"

\* A wrong variant: one attempt too many.
PlanOffByOne(r) ==
  CASE r.state \in Waiting /\ r.due -> "claim"
    [] r.state \in Leased /\ r.token \in lapsed ->
         IF r.attempts > MaxAttempts THEN "abandon" ELSE "retry"
    [] OTHER -> "noop"

\* A wrong variant: a record left in the middle of an attempt is not seen.
PlanClaimedOnly(r) ==
  CASE r.state \in Waiting /\ r.due -> "claim"
    [] r.state = "claimed" /\ r.token \in lapsed ->
         IF r.attempts >= MaxAttempts THEN "abandon" ELSE "retry"
    [] OTHER -> "noop"

\* plan_managed_thread_delivery_recovery.
Plan(r) ==
  CASE r.state \in Waiting /\ r.due -> "claim"
    [] r.state \in Leased /\ r.token \in lapsed ->
         IF r.attempts >= MaxAttempts THEN "abandon" ELSE "retry"
    [] OTHER -> "noop"

\* A wrong variant: the claim token stays on the record.
RescheduledKeepsToken(r) ==
  [r EXCEPT !.state = "retry_scheduled", !.due = FALSE]

Rescheduled(r) ==
  [r EXCEPT !.state = "retry_scheduled", !.token = 0, !.due = FALSE]

Ended(r, state) == [r EXCEPT !.state = state, !.token = 0]

\* _recover_expired_claims and recovery_sweep do the same to one record.
Recovered(r) ==
  CASE Plan(r) = "abandon" -> Ended(r, "abandoned")
    [] Plan(r) = "retry" -> Rescheduled(r)
    [] OTHER -> r

Claimed(r) ==
  [r EXCEPT !.state = "claimed", !.token = r.attempts + 1, !.attempts = @ + 1]

\* A record that was just recovered waits for its backoff.
ClaimNext(r) ==
  IF Plan(Recovered(r)) = "claim" THEN Claimed(Recovered(r)) ELSE Recovered(r)

\* A claim that has run out is not taken here: _claim_record expects a record
\* that waits.  An exhausted one is abandoned with its token left on it.
ClaimDelivery(r) ==
  CASE Plan(r) = "claim" -> Claimed(r)
    [] Plan(r) = "abandon" -> [r EXCEPT !.state = "abandoned"]
    [] OTHER -> r

ForceDue(r) == IF r.state \in Waiting THEN [r EXCEPT !.due = TRUE] ELSE r

\* A wrong variant: a lease somebody holds is given up for the direct send.
EnsureDirectSteals(r) ==
  IF r.state \in Terminal THEN r
  ELSE ClaimDelivery(ForceDue(IF LeaseActive(r) THEN Rescheduled(r)
                              ELSE Recovered(r)))

\* An active lease stays, whoever holds it; any other open record is claimed.
EnsureDirect(r) ==
  IF r.state \in Terminal \/ LeaseActive(r) THEN r
  ELSE ClaimDelivery(ForceDue(Recovered(r)))

\* The first commit of record_attempt_result.
Started(r) == IF r.state = "claimed" THEN [r EXCEPT !.state = "delivering"] ELSE r

\* The second one, for the outcome.
Settled(r, outcome) ==
  CASE outcome = "retry" \/ (outcome = "failed" /\ r.attempts < MaxAttempts) ->
         Rescheduled(r)
    [] OTHER -> Ended(r, outcome)

\* Only the holder of the current token is heard, whether or not its lease has
\* run out; a transition the map does not allow raises after the first commit.
Result(r, token, outcome) ==
  IF r.token # token THEN r
  ELSE IF CanMove(Started(r).state, Settled(Started(r), outcome).state)
       THEN Settled(Started(r), outcome)
       ELSE Started(r)

-----------------------------------------------------------------------------
(* The tasks of the service *)

Tasks == {"worker", "turn"}

\* The platform has confirmed the send, and its task has not said so yet: after
\* a confirmed send the adapter still awaits its cleanup.
Confirmed == {"sent", "directed"}

Sending == {"sending", "direct"} \cup Confirmed
TaskPC == {"idle", "down", "finalized", "followup", "bare", "done"} \cup Sending

Init ==
  /\ row = NoRow
  /\ lapsed = {}
  /\ direct \in BOOLEAN
  /\ pc = [worker |-> "idle", turn |-> "finalized"]
  /\ held = [t \in Tasks |-> 0]
  /\ seen = "none"
  /\ copies = 0 /\ cut = 0
  /\ retries = 0 /\ crashes = 0 /\ faults = 0

Fault == faults < MaxFaults /\ faults' = faults + 1 /\ UNCHANGED <<retries, crashes>>

\* Counts an outcome against its bound.
Counts(outcome) ==
  IF outcome = "retry"
  THEN retries < MaxRetries /\ retries' = retries + 1 /\ UNCHANGED <<crashes, faults>>
  ELSE UNCHANGED counters

\* What task t may report of its send when it is left to end.
Answers(t) ==
  CASE pc[t] = "sending" -> {"failed", "abandoned"}
    [] pc[t] = "sent" -> {"delivered"}
    [] pc[t] = "direct" -> {"retry"}
    [] pc[t] = "directed" -> {"direct_surface_delivered"}
    [] OTHER -> {}

\* A holder whose send was confirmed has it recorded as a RETRY.
Cuts(t, outcome) ==
  cut' = IF outcome = "retry" /\ pc[t] \in Confirmed /\ held[t] = row.token
         THEN cut + 1 ELSE cut

\* Where the record may stand inside the engine call task t is about to make.
MidCall(t) ==
  CASE pc[t] = "finalized" -> {row, RegisterIntent(row)}
    [] pc[t] = "idle" -> {row, Recovered(row)}
    [] pc[t] \in Sending -> {row} \cup (IF held[t] = row.token THEN {Started(row)} ELSE {})
    [] pc[t] = "followup" ->
         {row, Recovered(row), ForceDue(Recovered(row)), EnsureDirect(row)}
    [] OTHER -> {row}

Goes(t, to, token) ==
  /\ pc' = [pc EXCEPT ![t] = to]
  /\ held' = [held EXCEPT ![t] = token]

\* The delivery worker's tick, with or without the sweep of every twelfth one.
WorkerTick ==
  /\ pc["worker"] = "idle"
  /\ row' = ClaimNext(row)
  /\ IF row'.attempts > row.attempts THEN Goes("worker", "sending", row'.token)
     ELSE row' # row /\ UNCHANGED <<pc, held>>
  /\ UNCHANGED <<lapsed, direct, seen, copies, cut, counters>>

\* The last part of the reply is confirmed; the task goes on to its cleanup.
PlatformConfirms(t) ==
  /\ pc[t] \in {"sending", "direct"}
  /\ pc' = [pc EXCEPT ![t] = IF pc[t] = "sending" THEN "sent" ELSE "directed"]
  /\ copies' = copies + 1
  /\ UNCHANGED <<row, lapsed, direct, held, seen, cut, counters>>

\* The adapter's answer, or the worker's own timeout, which runs on through the
\* cleanup.
WorkerSendEnds ==
  /\ pc["worker"] \in {"sending", "sent"}
  /\ \E outcome \in Answers("worker") \cup {"retry"} :
       /\ row' = Result(row, held["worker"], outcome)
       /\ Cuts("worker", outcome)
       /\ Counts(outcome)
  /\ Goes("worker", "idle", 0)
  /\ UNCHANGED <<lapsed, direct, seen, copies>>

\* claim_next_delivery or record_attempt_result raises; the loop goes on.  When
\* the outcome was committed before, nothing is different from WorkerSendEnds.
WorkerCallFails ==
  /\ Fault
  /\ \/ /\ pc["worker"] = "idle"
        /\ row' \in MidCall("worker") \cup {ClaimNext(row)}
        /\ UNCHANGED <<pc, held>>
     \/ /\ pc["worker"] \in {"sending", "sent"}
        /\ row' \in MidCall("worker")
        /\ Goes("worker", "idle", 0)
  /\ UNCHANGED <<lapsed, direct, seen, copies, cut>>

\* create_intent and claim_delivery, with no await between them.
Handoff ==
  /\ pc["turn"] = "finalized"
  /\ row' = ClaimDelivery(RegisterIntent(row))
  /\ Goes("turn", "sending", row'.token)
  /\ UNCHANGED <<lapsed, direct, seen, copies, cut, counters>>

\* The turn runner swallows what the hand-off raises and goes on without the
\* record; the queue worker logs it.
LeavesRecord == Goes("turn", IF direct THEN "bare" ELSE "done", 0)

HandoffFails ==
  /\ pc["turn"] = "finalized"
  /\ Fault
  /\ row' \in MidCall("turn") \cup {ClaimDelivery(RegisterIntent(row))}
  /\ LeavesRecord
  /\ UNCHANGED <<lapsed, direct, seen, copies, cut>>

\* A wrong variant: the claim is kept whatever the adapter says.
TurnSendEndsKeeps ==
  /\ pc["turn"] \in {"sending", "sent"}
  /\ \E outcome \in Answers("turn") :
       /\ IF direct
          THEN /\ Goes("turn", "followup", held["turn"])
               /\ seen' = "claimed"
               /\ UNCHANGED row
          ELSE /\ row' = Result(row, held["turn"], outcome)
               /\ Goes("turn", "done", 0)
               /\ UNCHANGED seen
  /\ UNCHANGED <<lapsed, direct, copies, cut, counters>>

\* A turn that may send directly keeps its claim when the adapter did not
\* deliver; otherwise the outcome is recorded, and a result the engine does not
\* take leaves the record as it was registered in the turn's hands.
TurnSendEnds ==
  /\ pc["turn"] \in {"sending", "sent"}
  /\ \E outcome \in Answers("turn") :
       /\ IF direct /\ outcome # "delivered"
          THEN /\ Goes("turn", "followup", held["turn"])
               /\ seen' = "claimed"
               /\ UNCHANGED row
          ELSE /\ row' = Result(row, held["turn"], outcome)
               /\ Goes("turn", IF direct THEN "followup" ELSE "done", 0)
               /\ seen' = IF direct /\ held["turn"] = row.token
                          THEN "delivered" ELSE "pending"
  /\ UNCHANGED <<lapsed, direct, copies, cut, counters>>

TurnRecordFails ==
  /\ pc["turn"] \in {"sending", "sent"}
  /\ direct => pc["turn"] = "sent"
  /\ Fault
  /\ \E outcome \in Answers("turn") :
       row' \in MidCall("turn") \cup {Result(row, held["turn"], outcome)}
  /\ LeavesRecord
  /\ UNCHANGED <<lapsed, direct, seen, copies, cut>>

\* A cancelled send is recorded as a retry, though the platform may have
\* confirmed it, and the cancellation goes on.
TurnCancelled ==
  /\ pc["turn"] \in Sending
  /\ row' = Result(row, held["turn"], "retry")
  /\ Cuts("turn", "retry")
  /\ Counts("retry")
  /\ Goes("turn", "done", 0)
  /\ UNCHANGED <<lapsed, direct, seen, copies>>

-----------------------------------------------------------------------------
(* The direct send of the turn's own surface *)

\* A delivery the record shows as made is not made again; one that somebody
\* else holds, or that has ended, is left to the record.
DirectBegin ==
  /\ pc["turn"] = "followup"
  /\ IF seen = "delivered"
     THEN Goes("turn", "done", 0) /\ UNCHANGED row
     ELSE /\ row' = EnsureDirect(row)
          /\ IF \/ row'.attempts > row.attempts
                \/ LeaseActive(row) /\ row.token = held["turn"]
             THEN Goes("turn", "direct", row'.token)
             ELSE Goes("turn", "done", 0)
  /\ UNCHANGED <<lapsed, direct, seen, copies, cut, counters>>

\* begin_managed_thread_direct_delivery raises: the surface sends without a
\* lease.
DirectBeginFails ==
  /\ pc["turn"] = "followup" /\ seen # "delivered"
  /\ Fault
  /\ row' \in MidCall("turn")
  /\ Goes("turn", "bare", 0)
  /\ UNCHANGED <<lapsed, direct, seen, copies, cut>>

\* A wrong variant: the direct send is recorded as made whatever it answered.
DirectEndsBlind ==
  /\ pc["turn"] \in {"direct", "directed"}
  /\ row' = Result(row, held["turn"], "direct_surface_delivered")
  /\ Goes("turn", "done", 0)
  /\ UNCHANGED <<lapsed, direct, seen, copies, cut, counters>>

DirectEnds ==
  /\ pc["turn"] \in {"direct", "directed"}
  /\ \E outcome \in Answers("turn") :
       /\ row' = Result(row, held["turn"], outcome)
       /\ Cuts("turn", outcome)
       /\ Counts(outcome)
  /\ Goes("turn", "done", 0)
  /\ UNCHANGED <<lapsed, direct, seen, copies>>

DirectRecordFails ==
  /\ pc["turn"] \in {"direct", "directed"}
  /\ Fault
  /\ row' \in MidCall("turn")
  /\ Goes("turn", "done", 0)
  /\ UNCHANGED <<lapsed, direct, seen, copies, cut>>

\* A send without a lease leaves the record alone.
BareEnds ==
  /\ pc["turn"] = "bare"
  /\ copies' \in {copies, copies + 1}
  /\ Goes("turn", "done", 0)
  /\ UNCHANGED <<row, lapsed, direct, seen, cut, counters>>

-----------------------------------------------------------------------------
(* The clock and the service's life *)

LeaseLapses ==
  /\ LeaseActive(row)
  /\ lapsed' = lapsed \cup {row.token}
  /\ UNCHANGED <<row, taskVars, copies, cut, counters>>

BackoffOver ==
  /\ row.state = "retry_scheduled" /\ ~row.due
  /\ row' = [row EXCEPT !.due = TRUE]
  /\ UNCHANGED <<lapsed, taskVars, copies, cut, counters>>

Gone == pc' = [worker |-> "down", turn |-> "done"] /\ held' = [t \in Tasks |-> 0]

Ends == crashes < MaxCrashes /\ pc["worker"] # "down" /\ crashes' = crashes + 1

\* The process dies between two awaits or inside one engine call.
Crash ==
  /\ Ends
  /\ row' \in MidCall("worker") \cup MidCall("turn")
  /\ Gone
  /\ UNCHANGED <<lapsed, direct, seen, copies, cut, retries, faults>>

\* An orderly shutdown cancels both tasks, and both record a retry for a send.
Shutdown ==
  /\ Ends
  /\ \E t \in Tasks : pc[t] \in Sending
  /\ retries < MaxRetries /\ retries' = retries + 1
  /\ \/ \E t \in Tasks :
          /\ pc[t] \in Sending /\ held[t] = row.token
          /\ row' = Result(row, held[t], "retry")
          /\ Cuts(t, "retry")
     \/ /\ \A t \in Tasks : pc[t] \in Sending => held[t] # row.token
        /\ UNCHANGED <<row, cut>>
  /\ Gone
  /\ UNCHANGED <<lapsed, direct, seen, copies, faults>>

\* The turn does not come back: its execution is recorded as finished.
Restart ==
  /\ pc["worker"] = "down"
  /\ Goes("worker", "idle", 0)
  /\ UNCHANGED <<row, lapsed, direct, seen, copies, cut, counters>>

-----------------------------------------------------------------------------
Next ==
  \/ \E t \in Tasks : PlatformConfirms(t)
  \/ WorkerTick \/ WorkerSendEnds \/ WorkerCallFails
  \/ Handoff \/ HandoffFails \/ TurnSendEnds \/ TurnRecordFails \/ TurnCancelled
  \/ DirectBegin \/ DirectBeginFails \/ DirectEnds \/ DirectRecordFails \/ BareEnds
  \/ LeaseLapses \/ BackoffOver
  \/ Crash \/ Shutdown \/ Restart

Spec == Init /\ [][Next]_vars

\* The worker's loop polls every five seconds and bounds its adapter by a
\* timeout, the clock runs, and the service manager starts the service again.
\* Nothing is assumed of the turn: its adapter may hang for ever.
Fairness ==
  /\ WF_vars(WorkerTick) /\ WF_vars(WorkerSendEnds)
  /\ WF_vars(LeaseLapses) /\ WF_vars(BackoffOver) /\ WF_vars(Restart)

FairSpec == Spec /\ Fairness

-----------------------------------------------------------------------------
(* Properties *)

\* A task that sends under a lease holds an attempt the record has counted, and
\* exactly a leased record carries a token.
TypeOK ==
  /\ row \in Row
  /\ lapsed \subseteq 1..row.attempts
  /\ direct \in BOOLEAN
  /\ pc \in [Tasks -> TaskPC]
  /\ held \in [Tasks -> 0..row.attempts]
  /\ \A t \in Tasks : pc[t] \in Sending => held[t] > 0
  /\ row.token > 0 <=> row.state \in Leased
  /\ seen \in {"none", "pending", "claimed", "delivered"}
  /\ copies \in Nat
  /\ cut \in 0..retries
  /\ retries \in 0..MaxRetries /\ crashes \in 0..MaxCrashes
  /\ faults \in 0..MaxFaults

\* The worker and the turn send under a lease at the same time only when the
\* lease of one of them has run out during its send.
OneSender ==
  /\ pc["worker"] \in Sending /\ pc["turn"] \in Sending
  => held["worker"] \in lapsed \/ held["turn"] \in lapsed

\* A record that says the reply was delivered is one whose send the platform
\* has confirmed.
DeliveredWasSent == row.state \in Sent => copies > 0

\* Every copy after the first is paid for by a lease that ran out, by an engine
\* call that raised or by a confirmed send that was timed out or cancelled in its
\* cleanup and recorded as a RETRY: a crash or a failed attempt makes none.
CopiesPaidFor == copies <= 1 + Cardinality(lapsed) + faults + cut

\* Beyond max_attempts the record is claimed again only for a RETRY outcome:
\* failures and leases that ran out stay within the budget.
FailuresBounded == row.attempts <= MaxAttempts + retries

\* An ended delivery is not touched again, whoever reports late.
EndedStays == [][row.state \in Terminal => row' = row]_vars

\* A registered delivery ends, though the turn may hang or be cancelled, the
\* service may crash and leases may run out.
Settles == row.state # "none" ~> row.state \in Terminal

\* Where the reply of the turn is, for whoever does not see leases and attempts.
Phase ==
  CASE row.state = "none" -> "none"
    [] row.state \in Sent -> "delivered"
    [] row.state \in Terminal \ Sent -> "lost"
    [] OTHER -> "open"

Promise == INSTANCE OneReply
  WITH phase <- Phase, excuses <- Cardinality(lapsed) + faults + cut

\* The ledger, its worker and the turn implement the promise made of the reply:
\* a record ends once, as delivered only after a send of the reply was confirmed,
\* and an extra copy has a lapsed lease, a call that raised or a send cut short in
\* its cleanup behind it.
ImplementsOneReply == Promise!Spec
=============================================================================
