--------------------------- MODULE PublishJournal ---------------------------
(***************************************************************************)
(* The publish journal and its drains.  An operation (a comment on a pull  *)
(* request, a managed turn to enqueue, a chat notice) is stored under an   *)
(* operation key and carried out by whichever drain claims it.  Drains run *)
(* in several threads and processes: the hub's poller, the webhook's       *)
(* request, the deferred timer, the automation engine.  Each call of the   *)
(* journal is one SQLite transaction and one step; between two calls other *)
(* drains run, the process may die, or the next call may raise.            *)
(*                                                                         *)
(* The latest row of orch_publish_attempts of an operation is folded into  *)
(* it as last.  An operation is a slot with a fixed key, "absent" until it *)
(* is created; a key whose operation failed takes the next slot.           *)
(***************************************************************************)
EXTENDS Naturals, FiniteSets

CONSTANTS
  Ops,          \* slots of operations: bounds how often a key is requested
  Keys,         \* operation keys
  KeyOf,        \* the key of each slot
  Drains,       \* the threads that drain
  None,         \* no operation
  Limit,        \* operations one drain claims at most: 10 in the code
  MaxRetries,   \* length of retry_delays_seconds: 3, or 5 for SCM
  MaxWaits,     \* bound: attempts that end in retry_after_seconds
  MaxFaults     \* bound: crashes, and calls of the journal that raise

ASSUME JournalAssumption ==
  /\ KeyOf \in [Ops -> Keys]
  /\ None \notin Ops
  /\ Limit \in Nat \ {0}
  /\ MaxRetries \in Nat /\ MaxWaits \in Nat /\ MaxFaults \in Nat

VARIABLES
  state,      \* state of each operation
  last,       \* state of its latest attempt
  tries,      \* attempt_count
  due,        \* whether next_attempt_at has come
  pc,         \* where each drain is
  todo,       \* the effect_applied operations it listed
  batch,      \* the operations it claimed and has not come to
  hand,       \* the operation it works on
  attempt,    \* attempt_count as mark_running returned it
  again,      \* whether the failure in hand is retried
  returned,   \* per operation: dispatches that returned (history)
  waits,      \* per operation: attempts that asked for a later one
  faults

opVars == <<state, last, tries, due>>
drainVars == <<pc, todo, batch, hand, attempt, again>>
vars == <<opVars, drainVars, returned, waits, faults>>

-----------------------------------------------------------------------------
(* The journal *)

States == {"pending", "running", "succeeded", "effect_applied", "failed"}
AttemptStates == {"claimed", "running", "succeeded", "failed"}

\* A wrong variant: an operation whose effect was applied does not hold its key.
ActiveUntilDone == {"pending", "running"}

\* _ACTIVE_DEDUPE_STATES, and the partial unique index on operation_key.
ActiveDedupe == {"pending", "running", "succeeded", "effect_applied"}
ActiveAttempt == {"claimed", "running"}

\* _find_dedupable_operation.
Dedupable(k) == {o \in Ops : KeyOf[o] = k /\ state[o] \in ActiveDedupe}

\* A new row; an active operation with the key is returned instead.
CreateOperation(o) ==
  /\ state[o] = "absent"
  /\ Dedupable(KeyOf[o]) = {}
  /\ state' = [state EXCEPT ![o] = "pending"]
  /\ due' \in {[due EXCEPT ![o] = b] : b \in BOOLEAN}
  /\ UNCHANGED <<last, tries, drainVars, returned, waits, faults>>

\* The clock reaches next_attempt_at.
BecomesDue(o) ==
  /\ state[o] = "pending" /\ ~due[o]
  /\ due' = [due EXCEPT ![o] = TRUE]
  /\ UNCHANGED <<state, last, tries, drainVars, returned, waits, faults>>

\* A wrong variant: what was claimed but not started is claimed again.
ClaimableAgain ==
  {o \in Ops : \/ state[o] = "pending" /\ due[o]
               \/ state[o] = "running" /\ last[o] = "claimed"}

Claimable == {o \in Ops : state[o] = "pending" /\ due[o]}

\* A wrong variant: the claim does not count the attempt.
ClaimPendingUncounted(S) ==
  /\ state' = [o \in Ops |-> IF o \in S THEN "running" ELSE state[o]]
  /\ last' = [o \in Ops |-> IF o \in S THEN "claimed" ELSE last[o]]
  /\ tries' = tries
  /\ due' = [o \in Ops |-> o \notin S /\ due[o]]

\* claim_pending_operations: the rows S, in one BEGIN IMMEDIATE transaction.
ClaimPending(S) ==
  /\ state' = [o \in Ops |-> IF o \in S THEN "running" ELSE state[o]]
  /\ last' = [o \in Ops |-> IF o \in S THEN "claimed" ELSE last[o]]
  /\ tries' = [o \in Ops |-> IF o \in S THEN tries[o] + 1 ELSE tries[o]]
  /\ due' = [o \in Ops |-> o \notin S /\ due[o]]

\* mark_succeeded, mark_failed and mark_effect_applied write only over a
\* running operation whose latest attempt is active.
Finishable(o) == state[o] = "running" /\ last[o] \in ActiveAttempt

MarkSucceeded(o) ==
  IF Finishable(o)
  THEN /\ state' = [state EXCEPT ![o] = "succeeded"]
       /\ last' = [last EXCEPT ![o] = "succeeded"]
  ELSE UNCHANGED <<state, last>>

MarkEffectApplied(o) ==
  IF Finishable(o)
  THEN /\ state' = [state EXCEPT ![o] = "effect_applied"]
       /\ last' = [last EXCEPT ![o] = "succeeded"]
  ELSE UNCHANGED <<state, last>>

\* The next attempt is due at once (a delay of 0) or later.
MarkFailed(o, retry) ==
  IF Finishable(o)
  THEN /\ state' = [state EXCEPT ![o] = IF retry THEN "pending" ELSE "failed"]
       /\ last' = [last EXCEPT ![o] = "failed"]
       /\ due' \in {[due EXCEPT ![o] = b] : b \in IF retry THEN BOOLEAN ELSE {FALSE}}
  ELSE UNCHANGED <<state, last, due>>

-----------------------------------------------------------------------------
(* drain_pending_publish_operations *)

\* The drain has returned, or its process has died.
Leave(d) ==
  /\ pc' = [pc EXCEPT ![d] = "idle"]
  /\ todo' = [todo EXCEPT ![d] = {}]
  /\ batch' = [batch EXCEPT ![d] = {}]
  /\ hand' = [hand EXCEPT ![d] = None]
  /\ attempt' = [attempt EXCEPT ![d] = 0]
  /\ again' = [again EXCEPT ![d] = FALSE]

\* A wrong variant: the loop ends with the first operation that fails.
NextOperationBreaks(d) == Leave(d)

\* On to the next operation of the claim, or out of the loop.
NextOperation(d) ==
  IF batch[d] = {}
  THEN Leave(d)
  ELSE /\ pc' = [pc EXCEPT ![d] = "next"]
       /\ hand' = [hand EXCEPT ![d] = None]
       /\ attempt' = [attempt EXCEPT ![d] = 0]
       /\ again' = [again EXCEPT ![d] = FALSE]
       /\ UNCHANGED <<todo, batch>>

\* Lists what is effect_applied.
StartDrain(d) ==
  /\ pc[d] = "idle"
  /\ pc' = [pc EXCEPT ![d] = "reconcile"]
  /\ todo' = [todo EXCEPT ![d] = {o \in Ops : state[o] = "effect_applied"}]
  /\ UNCHANGED <<opVars, batch, hand, attempt, again, returned, waits, faults>>

\* reconcile_effect_applied.
Reconcile(d, o) ==
  /\ pc[d] = "reconcile"
  /\ o \in todo[d]
  /\ todo' = [todo EXCEPT ![d] = @ \ {o}]
  /\ state' = IF state[o] = "effect_applied"
              THEN [state EXCEPT ![o] = "succeeded"] ELSE state
  /\ UNCHANGED <<last, tries, due, pc, batch, hand, attempt, again,
                 returned, waits, faults>>

\* What the query may return.  The drain read its clock before: what came
\* due since is left out, so any part of what is due may be.
Selections ==
  {S \in SUBSET Claimable :
     Cardinality(S) <= Limit /\ (S = {} => Claimable = {})}

Claim(d) ==
  /\ pc[d] = "reconcile" /\ todo[d] = {}
  /\ \E S \in Selections :
       /\ ClaimPending(S)
       /\ IF S = {}
          THEN Leave(d)
          ELSE /\ pc' = [pc EXCEPT ![d] = "next"]
               /\ batch' = [batch EXCEPT ![d] = S]
               /\ UNCHANGED <<todo, hand, attempt, again>>
  /\ UNCHANGED <<returned, waits, faults>>

\* mark_running: an operation that is not running any more is passed over.
MarkRunning(d, o) ==
  /\ pc[d] = "next"
  /\ o \in batch[d]
  /\ IF Finishable(o)
     THEN /\ last' = [last EXCEPT ![o] = "running"]
          /\ pc' = [pc EXCEPT ![d] = "dispatch"]
          /\ batch' = [batch EXCEPT ![d] = @ \ {o}]
          /\ hand' = [hand EXCEPT ![d] = o]
          /\ attempt' = [attempt EXCEPT ![d] = tries[o]]
          /\ UNCHANGED <<todo, again>>
     ELSE /\ UNCHANGED <<last, todo, hand, attempt, again>>
          /\ batch' = [batch EXCEPT ![d] = @ \ {o}]
          /\ pc' = [pc EXCEPT ![d] = IF batch'[d] = {} THEN "idle" ELSE "next"]
  /\ UNCHANGED <<state, tries, due, returned, waits, faults>>

DispatchReturns(d) ==
  /\ pc[d] = "dispatch"
  /\ pc' = [pc EXCEPT ![d] = "succeed"]
  /\ returned' = [returned EXCEPT ![hand[d]] = @ + 1]
  /\ UNCHANGED <<opVars, todo, batch, hand, attempt, again, waits, faults>>

\* A wrong variant: one retry too many.
ResolveRetryOnceMore(d, error) ==
  \/ error = "wait"
  \/ error = "plain" /\ attempt[d] - 1 <= MaxRetries

\* _resolve_retry_at: never after a TerminalPublishError, always after
\* retry_after_seconds, else while the schedule of delays lasts.
ResolveRetryAt(d, error) ==
  \/ error = "wait"
  \/ error = "plain" /\ attempt[d] - 1 < MaxRetries

Raise(d, error) ==
  /\ pc[d] = "dispatch"
  /\ error = "wait" => waits[hand[d]] < MaxWaits
  /\ waits' = IF error = "wait" THEN [waits EXCEPT ![hand[d]] = @ + 1] ELSE waits
  /\ again' = [again EXCEPT ![d] = ResolveRetryAt(d, error)]
  /\ pc' = [pc EXCEPT ![d] = "fail"]
  /\ UNCHANGED <<opVars, todo, batch, hand, attempt, returned>>

DispatchRaises(d, error) == Raise(d, error) /\ UNCHANGED faults

RecordFailure(d) ==
  /\ pc[d] = "fail"
  /\ MarkFailed(hand[d], again[d])
  /\ NextOperation(d)
  /\ UNCHANGED <<tries, returned, waits, faults>>

RecordSuccess(d) ==
  /\ pc[d] = "succeed"
  /\ MarkSucceeded(hand[d])
  /\ NextOperation(d)
  /\ UNCHANGED <<tries, due, returned, waits, faults>>

RecordEffect(d) ==
  /\ pc[d] = "effect"
  /\ MarkEffectApplied(hand[d])
  /\ NextOperation(d)
  /\ UNCHANGED <<tries, due, returned, waits, faults>>

-----------------------------------------------------------------------------
(* Faults *)

\* The process of the drain dies between two steps.
Crash(d) ==
  /\ pc[d] # "idle" /\ faults < MaxFaults
  /\ faults' = faults + 1
  /\ Leave(d)
  /\ UNCHANGED <<opVars, returned, waits>>

\* A wrong variant: handled like a failed dispatch.
SuccessRaisesAsFailure(d) ==
  /\ pc[d] = "succeed" /\ faults < MaxFaults
  /\ faults' = faults + 1
  /\ pc' = [pc EXCEPT ![d] = "fail"]
  /\ UNCHANGED <<opVars, todo, batch, hand, attempt, again, returned, waits>>

\* mark_succeeded raises, before or after its commit: caught, and answered
\* with mark_effect_applied.
SuccessRaises(d) ==
  /\ pc[d] = "succeed" /\ faults < MaxFaults
  /\ faults' = faults + 1
  /\ MarkSucceeded(hand[d]) \/ UNCHANGED <<state, last>>
  /\ pc' = [pc EXCEPT ![d] = "effect"]
  /\ UNCHANGED <<tries, due, todo, batch, hand, attempt, again, returned, waits>>

\* mark_effect_applied raises: caught, and the operation stays as it is.
EffectRaises(d) ==
  /\ pc[d] = "effect" /\ faults < MaxFaults
  /\ faults' = faults + 1
  /\ MarkEffectApplied(hand[d]) \/ UNCHANGED <<state, last>>
  /\ NextOperation(d)
  /\ UNCHANGED <<tries, due, returned, waits>>

\* Any other call of the journal raises out of the drain, and with it goes
\* the rest of the claim.  A raise before the commit is a Crash; this is
\* one after it.
CallRaises(d) ==
  /\ faults < MaxFaults
  /\ faults' = faults + 1
  /\ \/ /\ pc[d] = "reconcile" /\ todo[d] = {}
        /\ \E S \in Selections : ClaimPending(S)
     \/ /\ pc[d] = "fail"
        /\ MarkFailed(hand[d], again[d])
        /\ UNCHANGED tries
  /\ Leave(d)
  /\ UNCHANGED <<returned, waits>>

-----------------------------------------------------------------------------
Init ==
  /\ state = [o \in Ops |-> "absent"]
  /\ last = [o \in Ops |-> "none"]
  /\ tries = [o \in Ops |-> 0]
  /\ due = [o \in Ops |-> FALSE]
  /\ pc = [d \in Drains |-> "idle"]
  /\ todo = [d \in Drains |-> {}]
  /\ batch = [d \in Drains |-> {}]
  /\ hand = [d \in Drains |-> None]
  /\ attempt = [d \in Drains |-> 0]
  /\ again = [d \in Drains |-> FALSE]
  /\ returned = [o \in Ops |-> 0]
  /\ waits = [o \in Ops |-> 0]
  /\ faults = 0

\* What a drain does once it has started.
Work(d) ==
  \/ \E o \in Ops : Reconcile(d, o) \/ MarkRunning(d, o)
  \/ Claim(d)
  \/ DispatchReturns(d)
  \/ \E error \in {"plain", "terminal", "wait"} : DispatchRaises(d, error)
  \/ RecordFailure(d) \/ RecordSuccess(d) \/ RecordEffect(d)

Faults(d) == Crash(d) \/ SuccessRaises(d) \/ EffectRaises(d) \/ CallRaises(d)

Next ==
  \/ \E o \in Ops : CreateOperation(o) \/ BecomesDue(o)
  \/ \E d \in Drains : StartDrain(d) \/ Work(d) \/ Faults(d)

Spec == Init /\ [][Next]_vars

\* The clock moves on, a drain that has started goes on, and drains are
\* started again and again: the hub polls.
FairSpec ==
  /\ Spec
  /\ \A o \in Ops : WF_vars(BecomesDue(o))
  /\ \A d \in Drains : WF_vars(StartDrain(d)) /\ WF_vars(Work(d))

-----------------------------------------------------------------------------
(* Properties *)

Types ==
  /\ state \in [Ops -> {"absent"} \cup States]
  /\ last \in [Ops -> {"none"} \cup AttemptStates]
  /\ tries \in [Ops -> Nat]
  /\ due \in [Ops -> BOOLEAN]
  /\ pc \in [Drains -> {"idle", "reconcile", "next", "dispatch", "succeed",
                        "effect", "fail"}]
  /\ todo \in [Drains -> SUBSET Ops]
  /\ batch \in [Drains -> SUBSET Ops]
  /\ hand \in [Drains -> Ops \cup {None}]
  /\ attempt \in [Drains -> Nat]
  /\ again \in [Drains -> BOOLEAN]
  /\ returned \in [Ops -> Nat]
  /\ waits \in [Ops -> 0..MaxWaits]
  /\ faults \in 0..MaxFaults

\* The variables have their types, and what a drain works on carries an
\* attempt that the claim has counted.
TypeOK ==
  /\ Types
  /\ \A d \in Drains : hand[d] # None => attempt[d] \in 1..tries[hand[d]]

\* What a drain still has to do: the rest of its claim and what it works on.
Held(d) == batch[d] \cup (IF pc[d] = "idle" THEN {} ELSE {hand[d]} \ {None})

\* A running operation that no drain will ever come back to.
Orphan(o) == state[o] = "running" /\ \A d \in Drains : o \notin Held(d)

\* However drains interleave, die or fail to write, the work of a key is
\* completed at most once: not twice for one operation, nor once for each of
\* two.
NoReplay ==
  /\ \A o \in Ops : returned[o] <= 1
  /\ \A o, p \in Ops :
       o # p /\ KeyOf[o] = KeyOf[p] => returned[o] = 0 \/ returned[p] = 0

\* The journal never writes completed work off, nor claims what was not done:
\* an operation recorded as done was completed, one that failed or waits for
\* another attempt was not.
RecordsTruth ==
  \A o \in Ops :
    /\ state[o] \in {"succeeded", "effect_applied"} => returned[o] = 1
    /\ state[o] \in {"absent", "pending", "failed"} => returned[o] = 0

\* No operation is in the hands of two drains.
OneHolder ==
  \A d, e \in Drains : d # e => Held(d) \cap Held(e) = {}

\* An error that is not a wait is retried MaxRetries times at most, over all
\* the drains that take the operation up.
AttemptBudget == \A o \in Ops : tries[o] <= MaxRetries + 1 + waits[o]

\* With no fault every operation ends.  With one, it ends or is left running
\* by a drain that died on it or could not write what it did.
Settles ==
  \A o \in Ops :
    state[o] = "pending" ~>
      \/ state[o] \in {"succeeded", "failed"}
      \/ Orphan(o) /\ faults > 0

\* The journal and its drains implement the promise made of each key.
Stage(k) ==
  IF \E o \in Ops : KeyOf[o] = k /\ returned[o] > 0 THEN "closed"
  ELSE IF Dedupable(k) # {} THEN "open"
  ELSE "free"

\* The n-th completion of an operation is <<o, n>>.
Completed(k) ==
  UNION {{<<o, n>> : n \in 1..returned[o]} : o \in {p \in Ops : KeyOf[p] = k}}

Promise == INSTANCE OncePerKey
  WITH Works <- Ops \X {1},
       stage <- [k \in Keys |-> Stage(k)],
       completed <- [k \in Keys |-> Completed(k)]

ImplementsPromise == Promise!Spec
=============================================================================
