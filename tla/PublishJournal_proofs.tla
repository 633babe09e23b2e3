------------------------ MODULE PublishJournal_proofs ------------------------
(***************************************************************************)
(* Proofs about the publish journal: what its records say is true, no work *)
(* is repeated, and the journal implements the promise of OncePerKey, for  *)
(* any sets of operations, keys and drains and any bounds.                 *)
(***************************************************************************)
EXTENDS PublishJournal, TLAPS

\* A drain works on an operation.
Busy == {"dispatch", "succeed", "effect", "fail"}

\* What a drain holds is running, was completed exactly when its dispatch
\* returned, and is not claimed by anybody else.
DrainOK(d) ==
  /\ pc[d] \in Busy => hand[d] \in Ops /\ hand[d] \notin batch[d]
  /\ pc[d] \notin Busy => hand[d] = None
  /\ pc[d] \in {"idle", "reconcile"} => batch[d] = {}
  /\ \A o \in batch[d] : state[o] = "running" /\ returned[o] = 0
  /\ pc[d] \in {"dispatch", "fail"} =>
       state[hand[d]] = "running" /\ returned[hand[d]] = 0
  /\ pc[d] = "succeed" => state[hand[d]] = "running" /\ returned[hand[d]] = 1
  /\ pc[d] = "effect" =>
       state[hand[d]] \in {"running", "succeeded"} /\ returned[hand[d]] = 1
  /\ pc[d] \in Busy => attempt[d] = tries[hand[d]]
  /\ pc[d] = "fail" /\ again[d] =>
       tries[hand[d]] <= MaxRetries + waits[hand[d]]

Drainers == \A d \in Drains : DrainOK(d)

OpOK(o) ==
  /\ state[o] = "running" => last[o] \in ActiveAttempt
  /\ state[o] \in {"succeeded", "effect_applied"} => returned[o] = 1
  /\ state[o] \in {"absent", "pending", "failed"} => returned[o] = 0
  /\ returned[o] <= 1
  /\ state[o] = "absent" => tries[o] = 0
  /\ state[o] = "pending" => tries[o] <= MaxRetries + waits[o]
  /\ tries[o] <= MaxRetries + 1 + waits[o]
  /\ state[o] \notin {"absent", "pending"} => tries[o] > 0

Operations == \A o \in Ops : OpOK(o)

\* The partial unique index: one active operation of a key.
Unique ==
  \A o, p \in Ops :
    /\ KeyOf[o] = KeyOf[p]
    /\ state[o] \in ActiveDedupe
    /\ state[p] \in ActiveDedupe
    => o = p

\* No operation is in two claims or hands.
Apart ==
  \A d, e \in Drains :
    d # e => /\ batch[d] \cap batch[e] = {}
             /\ hand[d] \notin batch[e]
             /\ hand[d] = hand[e] => hand[d] = None

IInv == Types /\ Drainers /\ Operations /\ Unique /\ Apart

-----------------------------------------------------------------------------

(* Type correctness *)

LEMMA MarkTyped ==
  ASSUME Types, NEW o \in Ops, NEW b \in BOOLEAN
  PROVE  /\ MarkSucceeded(o) =>
              /\ state' \in [Ops -> {"absent"} \cup States]
              /\ last' \in [Ops -> {"none"} \cup AttemptStates]
         /\ MarkEffectApplied(o) =>
              /\ state' \in [Ops -> {"absent"} \cup States]
              /\ last' \in [Ops -> {"none"} \cup AttemptStates]
         /\ MarkFailed(o, b) =>
              /\ state' \in [Ops -> {"absent"} \cup States]
              /\ last' \in [Ops -> {"none"} \cup AttemptStates]
              /\ due' \in [Ops -> BOOLEAN]
<1>1. ASSUME MarkSucceeded(o)
      PROVE  /\ state' \in [Ops -> {"absent"} \cup States]
             /\ last' \in [Ops -> {"none"} \cup AttemptStates]
  BY <1>1 DEF Types, MarkSucceeded, States, AttemptStates
<1>2. ASSUME MarkEffectApplied(o)
      PROVE  /\ state' \in [Ops -> {"absent"} \cup States]
             /\ last' \in [Ops -> {"none"} \cup AttemptStates]
  BY <1>2 DEF Types, MarkEffectApplied, States, AttemptStates
<1>3. ASSUME MarkFailed(o, b)
      PROVE  /\ state' \in [Ops -> {"absent"} \cup States]
             /\ last' \in [Ops -> {"none"} \cup AttemptStates]
             /\ due' \in [Ops -> BOOLEAN]
  <2>1. state' \in [Ops -> {"absent"} \cup States]
    BY <1>3 DEF Types, MarkFailed, States
  <2>2. last' \in [Ops -> {"none"} \cup AttemptStates]
    BY <1>3 DEF Types, MarkFailed, AttemptStates
  <2>3. due' = due \/ \E c \in BOOLEAN : due' = [due EXCEPT ![o] = c]
    BY <1>3 DEF MarkFailed
  <2>4. due' \in [Ops -> BOOLEAN]
    BY <2>3 DEF Types
  <2> QED BY <2>1, <2>2, <2>4
<1> QED BY <1>1, <1>2, <1>3

LEMMA LeaveTyped ==
  ASSUME Types, NEW d \in Drains, Leave(d) \/ NextOperation(d)
  PROVE  /\ pc' \in [Drains -> {"idle", "reconcile", "next", "dispatch",
                                "succeed", "effect", "fail"}]
         /\ todo' \in [Drains -> SUBSET Ops]
         /\ batch' \in [Drains -> SUBSET Ops]
         /\ hand' \in [Drains -> Ops \cup {None}]
         /\ attempt' \in [Drains -> Nat]
         /\ again' \in [Drains -> BOOLEAN]
<1>1. CASE Leave(d)
  <2> USE <1>1 DEF Types, Leave
  <2>1. pc' \in [Drains -> {"idle", "reconcile", "next", "dispatch",
                            "succeed", "effect", "fail"}]
    OBVIOUS
  <2>2. todo' \in [Drains -> SUBSET Ops] /\ batch' \in [Drains -> SUBSET Ops]
    OBVIOUS
  <2>3. hand' \in [Drains -> Ops \cup {None}] /\ attempt' \in [Drains -> Nat]
    OBVIOUS
  <2>4. again' \in [Drains -> BOOLEAN]
    OBVIOUS
  <2> QED BY <2>1, <2>2, <2>3, <2>4
<1>2. CASE NextOperation(d) /\ ~Leave(d)
  <2> USE <1>2 DEF Types, NextOperation
  <2>1. pc' \in [Drains -> {"idle", "reconcile", "next", "dispatch",
                            "succeed", "effect", "fail"}]
    OBVIOUS
  <2>2. todo' \in [Drains -> SUBSET Ops] /\ batch' \in [Drains -> SUBSET Ops]
    OBVIOUS
  <2>3. hand' \in [Drains -> Ops \cup {None}] /\ attempt' \in [Drains -> Nat]
    OBVIOUS
  <2>4. again' \in [Drains -> BOOLEAN]
    OBVIOUS
  <2> QED BY <2>1, <2>2, <2>3, <2>4
<1> QED BY <1>1, <1>2

LEMMA ClaimTyped ==
  ASSUME Types, NEW S \in SUBSET Ops, ClaimPending(S)
  PROVE  /\ state' \in [Ops -> {"absent"} \cup States]
         /\ last' \in [Ops -> {"none"} \cup AttemptStates]
         /\ tries' \in [Ops -> Nat]
         /\ due' \in [Ops -> BOOLEAN]
<1>1. tries' \in [Ops -> Nat]
  BY DEF Types, ClaimPending
<1>2. due' \in [Ops -> BOOLEAN]
  <2>1. \A o \in Ops : (o \notin S /\ due[o]) \in BOOLEAN
    OBVIOUS
  <2>2. due' = [o \in Ops |-> o \notin S /\ due[o]]
    BY DEF ClaimPending
  <2> QED BY <2>1, <2>2, Zenon
<1>3. state' \in [Ops -> {"absent"} \cup States]
  BY DEF Types, ClaimPending, States
<1>4. last' \in [Ops -> {"none"} \cup AttemptStates]
  BY DEF Types, ClaimPending, AttemptStates
<1> QED BY <1>1, <1>2, <1>3, <1>4

\* What happens to an operation while no drain works on it.
Outside == \E o \in Ops : CreateOperation(o) \/ BecomesDue(o)

LEMMA OutsideTyped == ASSUME Types, Outside PROVE Types'
<1>1. PICK o \in Ops : CreateOperation(o) \/ BecomesDue(o)
  BY DEF Outside
<1>2. state' \in [Ops -> {"absent"} \cup States]
  BY <1>1 DEF Types, CreateOperation, BecomesDue, States
<1>3. \E b \in BOOLEAN : due' = [due EXCEPT ![o] = b]
  BY <1>1 DEF CreateOperation, BecomesDue
<1>4. due' \in [Ops -> BOOLEAN]
  BY <1>3 DEF Types
<1> QED
  BY <1>1, <1>2, <1>4 DEF Types, CreateOperation, BecomesDue, drainVars

\* The operation a drain has in hand while it works.
LEMMA InHand ==
  ASSUME Drainers, NEW d \in Drains, pc[d] \in Busy
  PROVE  hand[d] \in Ops
BY DEF Drainers, DrainOK

\* An executor that raises, with or without a fault of its own.
LEMMA RaiseTyped ==
  ASSUME Types, Drainers, NEW d \in Drains,
         NEW error \in {"plain", "terminal", "wait"}, Raise(d, error),
         faults' \in 0..MaxFaults
  PROVE  Types'
<1> USE JournalAssumption DEF Types, opVars
<1>1. hand[d] \in Ops
  BY InHand DEF Raise, Busy
<1>2. waits' \in [Ops -> 0..MaxWaits]
  BY <1>1 DEF Raise
<1>3. ResolveRetryAt(d, error) \in BOOLEAN
  BY DEF ResolveRetryAt
<1>4. again' \in [Drains -> BOOLEAN]
  BY <1>3 DEF Raise
<1> QED BY <1>2, <1>4 DEF Raise

LEMMA WorkTyped ==
  ASSUME Types, Drainers, NEW d \in Drains, StartDrain(d) \/ Work(d)
  PROVE  Types'
<1> USE JournalAssumption DEF Types, opVars
<1>1. CASE StartDrain(d)
  BY <1>1 DEF StartDrain
<1>2. ASSUME NEW o \in Ops, Reconcile(d, o) PROVE Types'
  BY <1>2 DEF Reconcile, States
<1>3. ASSUME NEW o \in Ops, MarkRunning(d, o) PROVE Types'
  <2>1. last' \in [Ops -> {"none"} \cup AttemptStates]
    BY <1>3 DEF MarkRunning, AttemptStates
  <2>2. PICK s \in {"idle", "next", "dispatch"} : pc' = [pc EXCEPT ![d] = s]
    BY <1>3 DEF MarkRunning
  <2>3. /\ batch' = [batch EXCEPT ![d] = @ \ {o}]
        /\ hand' = hand \/ hand' = [hand EXCEPT ![d] = o]
        /\ attempt' = attempt \/ attempt' = [attempt EXCEPT ![d] = tries[o]]
        /\ UNCHANGED <<state, tries, due, todo, again, returned, waits, faults>>
    BY <1>3 DEF MarkRunning
  <2>4. /\ batch' \in [Drains -> SUBSET Ops]
        /\ hand' \in [Drains -> Ops \cup {None}]
        /\ attempt' \in [Drains -> Nat]
    BY <2>3
  <2> QED BY <2>1, <2>2, <2>3, <2>4
<1>4. CASE Claim(d)
  <2>1. PICK S \in Selections :
          /\ ClaimPending(S)
          /\ IF S = {}
             THEN Leave(d)
             ELSE /\ pc' = [pc EXCEPT ![d] = "next"]
                  /\ batch' = [batch EXCEPT ![d] = S]
                  /\ UNCHANGED <<todo, hand, attempt, again>>
    BY <1>4 DEF Claim
  <2>2. S \in SUBSET Ops
    BY DEF Selections, Claimable
  <2>3. UNCHANGED <<returned, waits, faults>>
    BY <1>4 DEF Claim
  <2>4. CASE S = {}
    BY <2>1, <2>2, <2>3, <2>4, ClaimTyped, LeaveTyped
  <2>5. CASE S # {}
    <3>1. /\ pc' = [pc EXCEPT ![d] = "next"]
          /\ batch' = [batch EXCEPT ![d] = S]
          /\ UNCHANGED <<todo, hand, attempt, again>>
      BY <2>1, <2>5
    <3> QED BY <2>1, <2>2, <2>3, <3>1, ClaimTyped
  <2> QED BY <2>4, <2>5
<1>5. CASE DispatchReturns(d)
  BY <1>5, InHand DEF DispatchReturns, Busy
<1>6. ASSUME NEW error \in {"plain", "terminal", "wait"},
             DispatchRaises(d, error)
      PROVE  Types'
  BY <1>6, RaiseTyped DEF DispatchRaises
<1>7. CASE RecordFailure(d)
  BY <1>7, InHand, MarkTyped, LeaveTyped DEF RecordFailure, Busy
<1>8. CASE RecordSuccess(d)
  BY <1>8, InHand, MarkTyped, LeaveTyped DEF RecordSuccess, Busy
<1>9. CASE RecordEffect(d)
  BY <1>9, InHand, MarkTyped, LeaveTyped DEF RecordEffect, Busy
<1> QED
  BY <1>1, <1>2, <1>3, <1>4, <1>5, <1>6, <1>7, <1>8, <1>9 DEF Work

LEMMA FaultsTyped ==
  ASSUME Types, Drainers, NEW d \in Drains, Faults(d)
  PROVE  Types'
<1> USE JournalAssumption DEF Types, opVars
<1>1. CASE Crash(d)
  BY <1>1, LeaveTyped DEF Crash
<1>2. CASE SuccessRaises(d)
  BY <1>2, InHand, MarkTyped DEF SuccessRaises, Busy
<1>3. CASE EffectRaises(d)
  BY <1>3, InHand, MarkTyped, LeaveTyped DEF EffectRaises, Busy
<1>4. CASE CallRaises(d)
  <2>1. CASE \E S \in Selections : ClaimPending(S)
    BY <1>4, <2>1, ClaimTyped, LeaveTyped
    DEF CallRaises, Selections, Claimable
  <2>2. CASE pc[d] = "fail" /\ MarkFailed(hand[d], again[d]) /\ UNCHANGED tries
    BY <1>4, <2>2, InHand, MarkTyped, LeaveTyped DEF CallRaises, Busy
  <2> QED BY <1>4, <2>1, <2>2 DEF CallRaises
<1> QED BY <1>1, <1>2, <1>3, <1>4 DEF Faults

-----------------------------------------------------------------------------

(* What a step of one drain leaves alone *)

\* The step is d's: the other drains stay where they are, and what they hold
\* stays as it is.  A drain holds what is running or, once it succeeded and
\* could not be written so, succeeded.
OnlyDrain(d) ==
  \A e \in Drains \ {d} :
    /\ pc'[e] = pc[e] /\ batch'[e] = batch[e] /\ hand'[e] = hand[e]
    /\ attempt'[e] = attempt[e] /\ again'[e] = again[e]

Spares(d) ==
  \A o \in Ops :
    o \notin batch[d] /\ o # hand[d] /\ state[o] \in {"running", "succeeded"} =>
      /\ state'[o] = state[o] /\ returned'[o] = returned[o]
      /\ tries'[o] = tries[o] /\ waits'[o] = waits[o]

LEMMA OthersKeep ==
  ASSUME IInv, NEW d \in Drains, OnlyDrain(d), Spares(d), NEW e \in Drains \ {d}
  PROVE  DrainOK(e)'
<1>1. DrainOK(e)
  BY DEF IInv, Drainers
<1>2. batch[e] \subseteq Ops
  BY DEF IInv, Types
<1>3. ASSUME NEW o \in batch[e]
      PROVE  state'[o] = state[o] /\ returned'[o] = returned[o]
  <2>1. o \in Ops /\ state[o] = "running"
    BY <1>1, <1>2 DEF DrainOK
  <2>2. o \notin batch[d] /\ o # hand[d]
    BY DEF IInv, Apart
  <2> QED BY <2>1, <2>2 DEF Spares
<1>4. ASSUME pc[e] \in Busy
      PROVE  /\ state'[hand[e]] = state[hand[e]]
             /\ returned'[hand[e]] = returned[hand[e]]
             /\ tries'[hand[e]] = tries[hand[e]]
             /\ waits'[hand[e]] = waits[hand[e]]
  <2>1. hand[e] \in Ops /\ state[hand[e]] \in {"running", "succeeded"}
    BY <1>1, <1>4 DEF DrainOK, Busy
  <2>2. hand[e] # None
    BY <2>1, JournalAssumption
  <2>3. hand[e] \notin batch[d] /\ hand[e] # hand[d]
    BY <2>2 DEF IInv, Apart
  <2> QED BY <2>1, <2>3 DEF Spares
<1>5. /\ pc'[e] = pc[e] /\ batch'[e] = batch[e] /\ hand'[e] = hand[e]
      /\ attempt'[e] = attempt[e] /\ again'[e] = again[e]
  BY DEF OnlyDrain
<1> QED
  BY <1>1, <1>3, <1>4, <1>5 DEF DrainOK, Busy

\* A drain takes up only what was pending.
LEMMA ApartKept ==
  ASSUME IInv, NEW d \in Drains, OnlyDrain(d),
         batch'[d] \subseteq batch[d] \cup {o \in Ops : state[o] = "pending"},
         hand'[d] \in batch[d] \cup {hand[d], None}
  PROVE  Apart'
<1>1. ASSUME NEW e \in Drains \ {d}
      PROVE  /\ batch'[d] \cap batch'[e] = {}
             /\ hand'[d] \notin batch'[e]
             /\ hand'[e] \notin batch'[d]
             /\ hand'[d] = hand'[e] => hand'[d] = None
  <2>1. batch'[e] = batch[e] /\ hand'[e] = hand[e]
    BY DEF OnlyDrain
  <2>2. /\ batch[d] \cap batch[e] = {}
        /\ hand[d] \notin batch[e] /\ hand[e] \notin batch[d]
        /\ hand[d] = hand[e] => hand[d] = None
    BY DEF IInv, Apart
  <2>3. DrainOK(e) /\ batch[e] \subseteq Ops /\ hand[e] \in Ops \cup {None}
    BY DEF IInv, Types, Drainers
  <2>4. \A o \in batch[e] : state[o] # "pending"
    BY <2>3 DEF DrainOK
  <2>5. hand[e] # None => state[hand[e]] # "pending"
    BY <2>3, JournalAssumption DEF DrainOK, Busy
  <2>6. None \notin batch[e] /\ None \notin batch'[d]
    BY <2>3, JournalAssumption DEF IInv, Types
  <2> QED BY <2>1, <2>2, <2>4, <2>5, <2>6, JournalAssumption
<1>2. ASSUME NEW e \in Drains \ {d}, NEW f \in Drains \ {d}, e # f
      PROVE  /\ batch'[e] \cap batch'[f] = {}
             /\ hand'[e] \notin batch'[f]
             /\ hand'[e] = hand'[f] => hand'[e] = None
  BY <1>2 DEF OnlyDrain, IInv, Apart
<1> QED BY <1>1, <1>2 DEF Apart

\* No operation becomes active that was not.
LEMMA UniqueKept ==
  ASSUME IInv,
         \A o \in Ops : state'[o] \in ActiveDedupe => state[o] \in ActiveDedupe
  PROVE  Unique'
BY DEF IInv, Unique

LEMMA DrainsKept ==
  ASSUME IInv, NEW d \in Drains, OnlyDrain(d), Spares(d), DrainOK(d)'
  PROVE  Drainers'
BY OthersKeep DEF Drainers

-----------------------------------------------------------------------------

(* The invariant, step by step *)

Rest == Drainers /\ Operations /\ Unique /\ Apart

LEMMA OutsideKeeps == ASSUME IInv, Outside PROVE Rest'
<1>1. PICK o \in Ops : CreateOperation(o) \/ BecomesDue(o)
  BY DEF Outside
<1>2. /\ UNCHANGED <<last, tries, drainVars, returned, waits, faults>>
      /\ \A p \in Ops \ {o} : state'[p] = state[p]
      /\ state[o] \in {"absent", "pending"}
      /\ state'[o] = "pending"
  BY <1>1 DEF CreateOperation, BecomesDue, IInv, Types
<1>3. Drainers'
  <2> SUFFICES ASSUME NEW e \in Drains PROVE DrainOK(e)'
    BY DEF Drainers
  <2>1. DrainOK(e) /\ batch[e] \subseteq Ops
    BY DEF IInv, Types, Drainers
  <2>2. \A p \in batch[e] : state'[p] = state[p]
    BY <1>2, <2>1 DEF DrainOK
  <2>3. pc[e] \in Busy => state'[hand[e]] = state[hand[e]]
    BY <1>2, <2>1 DEF DrainOK, Busy
  <2> QED BY <1>2, <2>1, <2>2, <2>3 DEF DrainOK, drainVars, Busy
<1>4. Operations'
  BY <1>2, JournalAssumption DEF IInv, Types, Operations, OpOK
<1>5. Unique'
  <2>1. CASE CreateOperation(o)
    BY <1>2, <2>1 DEF CreateOperation, Dedupable, IInv, Unique
  <2>2. CASE BecomesDue(o)
    BY <2>2, UniqueKept DEF BecomesDue
  <2> QED BY <1>1, <2>1, <2>2
<1>6. Apart'
  BY <1>2 DEF IInv, Apart, drainVars
<1> QED BY <1>3, <1>4, <1>5, <1>6 DEF Rest

LEMMA StartKeeps ==
  ASSUME IInv, NEW d \in Drains, StartDrain(d) PROVE Rest'
<1>1. DrainOK(d)
  BY DEF IInv, Drainers
<1>2. OnlyDrain(d) /\ Spares(d)
  BY DEF StartDrain, OnlyDrain, Spares, opVars, IInv, Types
<1>3. DrainOK(d)'
  BY <1>1 DEF StartDrain, opVars, DrainOK, Busy, IInv, Types
<1>4. Operations' /\ Unique'
  BY DEF StartDrain, opVars, IInv, Operations, OpOK, Unique
<1>5. Apart'
  BY DEF StartDrain, IInv, Apart
<1> QED BY <1>2, <1>3, <1>4, <1>5, DrainsKept DEF Rest

LEMMA ReconcileKeeps ==
  ASSUME IInv, NEW d \in Drains, NEW o \in Ops, Reconcile(d, o) PROVE Rest'
<1>1. DrainOK(d)
  BY DEF IInv, Drainers
<1>2. \A p \in Ops :
        \/ state'[p] = state[p]
        \/ state[p] = "effect_applied" /\ state'[p] = "succeeded"
  BY DEF Reconcile, IInv, Types
<1>3. OnlyDrain(d) /\ Spares(d)
  BY <1>2 DEF Reconcile, OnlyDrain, Spares
<1>4. DrainOK(d)'
  BY <1>1 DEF Reconcile, DrainOK, Busy
<1>5. Operations'
  BY <1>2 DEF Reconcile, IInv, Operations, OpOK
<1>6. Unique'
  BY <1>2, UniqueKept DEF ActiveDedupe
<1>7. Apart'
  BY DEF Reconcile, IInv, Apart
<1> QED BY <1>3, <1>4, <1>5, <1>6, <1>7, DrainsKept DEF Rest

\* claim_pending_operations, whether or not the drain gets what it claimed.
LEMMA ClaimPendingKeeps ==
  ASSUME IInv, NEW d \in Drains, NEW S \in Selections, ClaimPending(S),
         OnlyDrain(d), UNCHANGED <<returned, waits>>, DrainOK(d),
         pc[d] = "reconcile",
         batch'[d] \in {S, {}}, hand'[d] = None,
         pc'[d] \in {"idle", "next"}, pc'[d] = "idle" => batch'[d] = {}
  PROVE  Rest'
<1>1. S \subseteq Ops /\ \A p \in S : state[p] = "pending"
  BY DEF Selections, Claimable
<1>2. \A p \in Ops :
        IF p \in S
        THEN /\ state'[p] = "running" /\ last'[p] = "claimed"
             /\ tries'[p] = tries[p] + 1
        ELSE /\ state'[p] = state[p] /\ last'[p] = last[p]
             /\ tries'[p] = tries[p]
  BY DEF ClaimPending
<1>3. Spares(d)
  BY <1>1, <1>2 DEF Spares
<1>4. DrainOK(d)'
  <2>1. \A p \in S : state'[p] = "running" /\ returned'[p] = 0
    BY <1>1, <1>2 DEF IInv, Operations, OpOK
  <2> QED BY <2>1 DEF DrainOK, Busy
<1>5. Operations'
  <2> SUFFICES ASSUME NEW p \in Ops PROVE OpOK(p)'
    BY DEF Operations
  <2>1. OpOK(p)
    BY DEF IInv, Operations
  <2>2. /\ tries[p] \in Nat /\ waits[p] \in Nat /\ MaxRetries \in Nat
        /\ waits'[p] = waits[p] /\ returned'[p] = returned[p]
    BY JournalAssumption DEF IInv, Types
  <2>3. CASE p \in S
    BY <1>1, <1>2, <2>1, <2>2, <2>3 DEF OpOK, ActiveAttempt
  <2>4. CASE p \notin S
    BY <1>2, <2>1, <2>2, <2>4 DEF OpOK
  <2> QED BY <2>3, <2>4
<1>6. Unique'
  BY <1>1, <1>2, UniqueKept DEF ActiveDedupe
<1>7. Apart'
  BY <1>1, ApartKept
<1> QED BY <1>3, <1>4, <1>5, <1>6, <1>7, DrainsKept DEF Rest

LEMMA ClaimKeeps ==
  ASSUME IInv, NEW d \in Drains, Claim(d) PROVE Rest'
<1>1. PICK S \in Selections :
        /\ ClaimPending(S)
        /\ IF S = {}
           THEN Leave(d)
           ELSE /\ pc' = [pc EXCEPT ![d] = "next"]
                /\ batch' = [batch EXCEPT ![d] = S]
                /\ UNCHANGED <<todo, hand, attempt, again>>
  BY DEF Claim
<1>2. DrainOK(d) /\ pc[d] = "reconcile"
  BY DEF IInv, Drainers, Claim
<1>3. OnlyDrain(d)
  BY <1>1 DEF OnlyDrain, Leave, IInv, Types
<1>4. /\ batch'[d] \in {S, {}} /\ hand'[d] = None
      /\ pc'[d] \in {"idle", "next"}
      /\ pc'[d] = "idle" => batch'[d] = {}
  BY <1>1, <1>2 DEF Leave, IInv, Types, DrainOK, Busy
<1>5. UNCHANGED <<returned, waits>>
  BY DEF Claim
<1>6. ClaimPending(S)
  BY <1>1
<1> QED BY <1>2, <1>3, <1>4, <1>5, <1>6, ClaimPendingKeeps

-----------------------------------------------------------------------------

LEMMA MarkRunningKeeps ==
  ASSUME IInv, NEW d \in Drains, NEW o \in Ops, MarkRunning(d, o) PROVE Rest'
<1>1. DrainOK(d) /\ pc[d] = "next" /\ o \in batch[d] /\ hand[d] = None
  BY DEF IInv, Drainers, MarkRunning, DrainOK, Busy
<1>2. Finishable(o) /\ state[o] = "running" /\ returned[o] = 0
  BY <1>1 DEF IInv, Operations, OpOK, Finishable, DrainOK
<1>3. /\ UNCHANGED <<state, tries, due, returned, waits, faults, todo, again>>
      /\ last' = [last EXCEPT ![o] = "running"]
      /\ pc' = [pc EXCEPT ![d] = "dispatch"]
      /\ batch' = [batch EXCEPT ![d] = @ \ {o}]
      /\ hand' = [hand EXCEPT ![d] = o]
      /\ attempt' = [attempt EXCEPT ![d] = tries[o]]
  BY <1>2 DEF MarkRunning
<1>4. OnlyDrain(d) /\ Spares(d)
  BY <1>3 DEF OnlyDrain, Spares
<1>5. /\ pc'[d] = "dispatch" /\ batch'[d] = batch[d] \ {o} /\ hand'[d] = o
      /\ attempt'[d] = tries[o]
  BY <1>3 DEF IInv, Types
<1>6. DrainOK(d)'
  BY <1>1, <1>2, <1>3, <1>5 DEF DrainOK, Busy
<1>7. Operations'
  BY <1>2, <1>3 DEF IInv, Types, Operations, OpOK, ActiveAttempt
<1>8. Unique'
  BY <1>3 DEF IInv, Unique
<1>9. Apart'
  BY <1>1, <1>4, <1>5, ApartKept
<1> QED BY <1>4, <1>6, <1>7, <1>8, <1>9, DrainsKept DEF Rest

LEMMA DispatchReturnsKeeps ==
  ASSUME IInv, NEW d \in Drains, DispatchReturns(d) PROVE Rest'
<1>1. /\ DrainOK(d) /\ pc[d] = "dispatch" /\ hand[d] \in Ops
      /\ state[hand[d]] = "running" /\ returned[hand[d]] = 0
      /\ hand[d] \notin batch[d]
  BY DEF IInv, Drainers, DispatchReturns, DrainOK, Busy
<1>2. /\ UNCHANGED <<opVars, todo, batch, hand, attempt, again, waits>>
      /\ pc' = [pc EXCEPT ![d] = "succeed"]
      /\ \A p \in Ops : returned'[p] = IF p = hand[d] THEN 1 ELSE returned[p]
  BY <1>1 DEF DispatchReturns, IInv, Types
<1>3. OnlyDrain(d) /\ Spares(d)
  BY <1>2 DEF OnlyDrain, Spares, opVars
<1>4. DrainOK(d)'
  <2>1. batch[d] \subseteq Ops /\ pc'[d] = "succeed"
    BY <1>2 DEF IInv, Types
  <2> QED BY <1>1, <1>2, <2>1 DEF DrainOK, Busy, opVars
<1>5. Operations'
  BY <1>1, <1>2 DEF IInv, Operations, OpOK, opVars
<1>6. Unique' /\ Apart'
  BY <1>2 DEF IInv, Unique, Apart, opVars
<1> QED BY <1>3, <1>4, <1>5, <1>6, DrainsKept DEF Rest

LEMMA RaiseKeeps ==
  ASSUME IInv, NEW d \in Drains, NEW error \in {"plain", "terminal", "wait"},
         Raise(d, error)
  PROVE  Rest'
<1>1. /\ DrainOK(d) /\ pc[d] = "dispatch" /\ hand[d] \in Ops
      /\ state[hand[d]] = "running" /\ returned[hand[d]] = 0
      /\ hand[d] \notin batch[d] /\ attempt[d] = tries[hand[d]]
  BY DEF IInv, Drainers, Raise, DrainOK, Busy
<1>2. /\ UNCHANGED <<opVars, todo, batch, hand, attempt, returned>>
      /\ pc' = [pc EXCEPT ![d] = "fail"]
      /\ again' = [again EXCEPT ![d] = ResolveRetryAt(d, error)]
      /\ waits' = IF error = "wait"
                  THEN [waits EXCEPT ![hand[d]] = @ + 1] ELSE waits
  BY DEF Raise
<1>3. /\ \A p \in Ops : waits[p] \in Nat /\ waits'[p] \in Nat
      /\ \A p \in Ops : waits[p] <= waits'[p]
      /\ \A p \in Ops : p # hand[d] => waits'[p] = waits[p]
      /\ error = "wait" => waits'[hand[d]] = waits[hand[d]] + 1
  BY <1>1, <1>2, JournalAssumption DEF IInv, Types
<1>4. OnlyDrain(d) /\ Spares(d)
  BY <1>2, <1>3 DEF OnlyDrain, Spares, opVars
<1>5. DrainOK(d)'
  <2>1. again'[d] => tries[hand[d]] <= MaxRetries + waits'[hand[d]]
    <3>1. /\ tries[hand[d]] \in Nat /\ MaxRetries \in Nat
          /\ waits[hand[d]] \in Nat /\ waits'[hand[d]] \in Nat
          /\ waits[hand[d]] <= waits'[hand[d]]
      BY <1>1, <1>3, JournalAssumption DEF IInv, Types
    <3>2. tries[hand[d]] <= MaxRetries + 1 + waits[hand[d]]
      BY <1>1 DEF IInv, Operations, OpOK
    <3>3. again'[d] => \/ error = "wait"
                       \/ error = "plain" /\ attempt[d] - 1 < MaxRetries
      BY <1>2 DEF IInv, Types, ResolveRetryAt
    <3> QED BY <1>1, <1>3, <3>1, <3>2, <3>3
  <2>2. pc'[d] = "fail"
    BY <1>2 DEF IInv, Types
  <2> QED BY <1>1, <1>2, <2>1, <2>2 DEF DrainOK, Busy, opVars
<1>6. Operations'
  <2> SUFFICES ASSUME NEW p \in Ops PROVE OpOK(p)'
    BY DEF Operations
  <2>1. OpOK(p) /\ tries[p] \in Nat /\ MaxRetries \in Nat
    BY JournalAssumption DEF IInv, Types, Operations
  <2> QED BY <1>2, <1>3, <2>1 DEF OpOK, opVars
<1>7. Unique' /\ Apart'
  BY <1>2 DEF IInv, Unique, Apart, opVars
<1> QED BY <1>4, <1>5, <1>6, <1>7, DrainsKept DEF Rest

\* What a drain holds once it goes on to the next operation, returns or dies.
LEMMA LeftWith ==
  ASSUME IInv, NEW d \in Drains, Leave(d) \/ NextOperation(d)
  PROVE  /\ OnlyDrain(d)
         /\ hand'[d] = None /\ batch'[d] \in {batch[d], {}}
         /\ pc'[d] \in {"idle", "next"}
         /\ pc'[d] = "idle" => batch'[d] = {}
<1>1. CASE Leave(d)
  BY <1>1 DEF Leave, OnlyDrain, IInv, Types
<1>2. CASE NextOperation(d) /\ ~Leave(d)
  BY <1>2 DEF NextOperation, OnlyDrain, IInv, Types
<1> QED BY <1>1, <1>2

\* A drain lets go of what it has in hand, of which it may have changed the
\* record, and perhaps of the rest of its claim.
LEMMA LetGo ==
  ASSUME IInv, NEW d \in Drains, Leave(d) \/ NextOperation(d),
         UNCHANGED <<tries, returned, waits>>,
         \A o \in Ops : o # hand[d] => state'[o] = state[o] /\ last'[o] = last[o],
         Operations', Unique'
  PROVE  Rest'
<1>1. /\ OnlyDrain(d)
      /\ hand'[d] = None /\ batch'[d] \in {batch[d], {}}
      /\ pc'[d] \in {"idle", "next"}
      /\ pc'[d] = "idle" => batch'[d] = {}
  BY LeftWith
<1>2. Spares(d)
  BY DEF Spares
<1>3. DrainOK(d) /\ batch[d] \subseteq Ops
  BY DEF IInv, Types, Drainers
<1>4. hand[d] \notin batch[d]
  BY <1>3, JournalAssumption DEF DrainOK
<1>5. DrainOK(d)'
  BY <1>1, <1>3, <1>4 DEF DrainOK, Busy
<1>6. Apart'
  BY <1>1, ApartKept
<1> QED BY <1>1, <1>2, <1>5, <1>6, DrainsKept DEF Rest

-----------------------------------------------------------------------------

LEMMA RecordKeeps ==
  ASSUME IInv, NEW d \in Drains,
         RecordFailure(d) \/ RecordSuccess(d) \/ RecordEffect(d)
  PROVE  Rest'
<1>1. DrainOK(d) /\ hand[d] \in Ops /\ OpOK(hand[d])
  BY DEF IInv, Drainers, DrainOK, Operations, RecordFailure, RecordSuccess,
         RecordEffect, Busy
<1>2. CASE RecordSuccess(d)
  <2>1. /\ \A o \in Ops \ {hand[d]} : state'[o] = state[o] /\ last'[o] = last[o]
        /\ UNCHANGED <<tries, returned, waits>>
        /\ NextOperation(d)
    BY <1>1, <1>2 DEF RecordSuccess, MarkSucceeded, IInv, Types
  <2>2. /\ state'[hand[d]] = "succeeded" /\ returned[hand[d]] = 1
        /\ state[hand[d]] = "running"
    BY <1>1, <1>2
    DEF RecordSuccess, MarkSucceeded, Finishable, OpOK, DrainOK, IInv, Types
  <2>3. Operations'
    BY <2>1, <2>2 DEF IInv, Operations, OpOK
  <2>4. Unique'
    BY <2>1, <2>2, UniqueKept DEF ActiveDedupe
  <2> QED BY <2>1, <2>3, <2>4, LetGo
<1>3. CASE RecordEffect(d)
  <2>1. /\ \A o \in Ops \ {hand[d]} : state'[o] = state[o] /\ last'[o] = last[o]
        /\ UNCHANGED <<tries, returned, waits>>
        /\ NextOperation(d)
    BY <1>1, <1>3 DEF RecordEffect, MarkEffectApplied, IInv, Types
  <2>2. /\ state'[hand[d]] \in {"succeeded", "effect_applied"}
        /\ returned[hand[d]] = 1
        /\ state[hand[d]] \in {"running", "succeeded"}
    BY <1>1, <1>3
    DEF RecordEffect, MarkEffectApplied, Finishable, OpOK, DrainOK, IInv, Types
  <2>3. Operations'
    BY <2>1, <2>2 DEF IInv, Operations, OpOK
  <2>4. Unique'
    BY <2>1, <2>2, UniqueKept DEF ActiveDedupe
  <2> QED BY <2>1, <2>3, <2>4, LetGo
<1>4. CASE RecordFailure(d)
  <2>1. /\ \A o \in Ops \ {hand[d]} : state'[o] = state[o] /\ last'[o] = last[o]
        /\ UNCHANGED <<tries, returned, waits>>
        /\ NextOperation(d)
    BY <1>1, <1>4 DEF RecordFailure, MarkFailed, IInv, Types
  <2>2. /\ state'[hand[d]] = IF again[d] THEN "pending" ELSE "failed"
        /\ returned[hand[d]] = 0 /\ state[hand[d]] = "running"
        /\ again[d] => tries[hand[d]] <= MaxRetries + waits[hand[d]]
    BY <1>1, <1>4
    DEF RecordFailure, MarkFailed, Finishable, OpOK, DrainOK, IInv, Types
  <2>3. Operations'
    BY <2>1, <2>2 DEF IInv, Operations, OpOK
  <2>4. Unique'
    BY <2>1, <2>2, UniqueKept DEF ActiveDedupe
  <2> QED BY <2>1, <2>3, <2>4, LetGo
<1> QED BY <1>2, <1>3, <1>4

LEMMA CrashKeeps ==
  ASSUME IInv, NEW d \in Drains, Crash(d) PROVE Rest'
<1>1. Operations' /\ Unique'
  BY DEF Crash, opVars, IInv, Operations, OpOK, Unique
<1> QED BY <1>1, LetGo DEF Crash, opVars

LEMMA SuccessRaisesKeeps ==
  ASSUME IInv, NEW d \in Drains, SuccessRaises(d) PROVE Rest'
<1>1. /\ DrainOK(d) /\ pc[d] = "succeed" /\ hand[d] \in Ops
      /\ state[hand[d]] = "running" /\ returned[hand[d]] = 1
      /\ hand[d] \notin batch[d]
  BY DEF IInv, Drainers, SuccessRaises, DrainOK, Busy
<1>2. /\ UNCHANGED <<tries, due, todo, batch, hand, attempt, again, returned,
                     waits>>
      /\ pc' = [pc EXCEPT ![d] = "effect"]
      /\ \A p \in Ops \ {hand[d]} : state'[p] = state[p] /\ last'[p] = last[p]
      /\ \/ state'[hand[d]] = "running" /\ last'[hand[d]] = last[hand[d]]
         \/ state'[hand[d]] = "succeeded"
  BY <1>1 DEF SuccessRaises, MarkSucceeded, IInv, Types
<1>3. OnlyDrain(d) /\ Spares(d)
  BY <1>2 DEF OnlyDrain, Spares
<1>4. DrainOK(d)'
  <2>1. batch[d] \subseteq Ops /\ pc'[d] = "effect"
    BY <1>2 DEF IInv, Types
  <2> QED BY <1>1, <1>2, <2>1 DEF DrainOK, Busy
<1>5. Operations'
  BY <1>1, <1>2 DEF IInv, Operations, OpOK
<1>6. Unique'
  BY <1>1, <1>2, UniqueKept DEF ActiveDedupe
<1>7. Apart'
  BY <1>2 DEF IInv, Apart
<1> QED BY <1>3, <1>4, <1>5, <1>6, <1>7, DrainsKept DEF Rest

LEMMA EffectRaisesKeeps ==
  ASSUME IInv, NEW d \in Drains, EffectRaises(d) PROVE Rest'
<1>1. DrainOK(d) /\ hand[d] \in Ops /\ OpOK(hand[d])
  BY DEF IInv, Drainers, DrainOK, Operations, EffectRaises, Busy
<1>2. /\ \A o \in Ops \ {hand[d]} : state'[o] = state[o] /\ last'[o] = last[o]
      /\ UNCHANGED <<tries, returned, waits>>
      /\ NextOperation(d)
  BY <1>1 DEF EffectRaises, MarkEffectApplied, IInv, Types
<1>3. /\ \/ state'[hand[d]] \in {"succeeded", "effect_applied"}
         \/ state'[hand[d]] = state[hand[d]] /\ last'[hand[d]] = last[hand[d]]
      /\ returned[hand[d]] = 1
      /\ state[hand[d]] \in {"running", "succeeded"}
  BY <1>1
  DEF EffectRaises, MarkEffectApplied, DrainOK, IInv, Types
<1>4. Operations'
  BY <1>2, <1>3 DEF IInv, Operations, OpOK
<1>5. Unique'
  BY <1>2, <1>3, UniqueKept DEF ActiveDedupe
<1> QED BY <1>2, <1>4, <1>5, LetGo

LEMMA CallRaisesKeeps ==
  ASSUME IInv, NEW d \in Drains, CallRaises(d) PROVE Rest'
<1>1. DrainOK(d) /\ Leave(d) /\ UNCHANGED <<returned, waits>>
  BY DEF IInv, Drainers, CallRaises
<1>2. ASSUME pc[d] = "reconcile", NEW S \in Selections, ClaimPending(S)
      PROVE  Rest'
  <2>1. OnlyDrain(d) /\ hand'[d] = None /\ batch'[d] = {} /\ pc'[d] = "idle"
    BY <1>1, LeftWith DEF Leave, IInv, Types
  <2> QED BY <1>1, <1>2, <2>1, ClaimPendingKeeps
<1>3. CASE pc[d] = "fail" /\ MarkFailed(hand[d], again[d]) /\ UNCHANGED tries
  <2>1. hand[d] \in Ops /\ OpOK(hand[d])
    BY <1>1, <1>3 DEF DrainOK, Busy, IInv, Operations
  <2>2. \A o \in Ops \ {hand[d]} : state'[o] = state[o] /\ last'[o] = last[o]
    BY <1>3, <2>1 DEF MarkFailed, IInv, Types
  <2>3. /\ state'[hand[d]] = IF again[d] THEN "pending" ELSE "failed"
        /\ returned[hand[d]] = 0 /\ state[hand[d]] = "running"
        /\ again[d] => tries[hand[d]] <= MaxRetries + waits[hand[d]]
    BY <1>1, <1>3, <2>1 DEF MarkFailed, Finishable, OpOK, DrainOK, IInv, Types
  <2>4. Operations'
    BY <1>1, <1>3, <2>2, <2>3 DEF IInv, Operations, OpOK
  <2>5. Unique'
    BY <2>2, <2>3, UniqueKept DEF ActiveDedupe
  <2> QED BY <1>1, <1>3, <2>2, <2>4, <2>5, LetGo
<1> QED BY <1>2, <1>3 DEF CallRaises

LEMMA IInvInit == Init => IInv
<1> SUFFICES ASSUME Init PROVE IInv
  OBVIOUS
<1>1. Types
  BY JournalAssumption DEF Init, Types
<1>2. Drainers /\ Apart
  BY DEF Init, Drainers, DrainOK, Busy, Apart
<1>3. Operations /\ Unique
  BY JournalAssumption DEF Init, Operations, OpOK, Unique, ActiveDedupe
<1> QED BY <1>1, <1>2, <1>3 DEF IInv

LEMMA IInvStep == IInv /\ [Next]_vars => IInv'
<1> SUFFICES ASSUME IInv, [Next]_vars PROVE IInv'
  OBVIOUS
<1>1. CASE Outside
  BY <1>1, OutsideTyped, OutsideKeeps DEF IInv, Rest
<1>2. ASSUME NEW d \in Drains, StartDrain(d) \/ Work(d) PROVE IInv'
  <2>1. Types'
    BY <1>2, WorkTyped DEF IInv
  <2>2. Rest'
    BY <1>2, StartKeeps, ReconcileKeeps, MarkRunningKeeps, ClaimKeeps,
       DispatchReturnsKeeps, RaiseKeeps, RecordKeeps DEF Work, DispatchRaises
  <2> QED BY <2>1, <2>2 DEF IInv, Rest
<1>3. ASSUME NEW d \in Drains, Faults(d) PROVE IInv'
  <2>1. Types'
    BY <1>3, FaultsTyped DEF IInv
  <2>2. Rest'
    BY <1>3, CrashKeeps, SuccessRaisesKeeps, EffectRaisesKeeps, CallRaisesKeeps
    DEF Faults
  <2> QED BY <2>1, <2>2 DEF IInv, Rest
<1>4. CASE UNCHANGED vars
  <2>1. Types'
    BY <1>4 DEF vars, opVars, drainVars, IInv, Types
  <2>2. Drainers'
    BY <1>4 DEF vars, opVars, drainVars, IInv, Drainers, DrainOK
  <2>3. Operations' /\ Unique' /\ Apart'
    BY <1>4 DEF vars, opVars, drainVars, IInv, Operations, OpOK, Unique, Apart
  <2> QED BY <2>1, <2>2, <2>3 DEF IInv
<1> QED BY <1>1, <1>2, <1>3, <1>4 DEF Next, Outside

-----------------------------------------------------------------------------

(* What follows from the invariant *)

LEMMA IInvAlways == Spec => []IInv
BY IInvInit, IInvStep, PTL DEF Spec

LEMMA IInvTyped == IInv => TypeOK
<1> SUFFICES ASSUME IInv, NEW d \in Drains, hand[d] # None
             PROVE  attempt[d] \in 1..tries[hand[d]]
  BY DEF IInv, TypeOK
<1>1. pc[d] \in Busy /\ DrainOK(d)
  BY DEF IInv, Drainers, DrainOK
<1>2. /\ hand[d] \in Ops /\ state[hand[d]] \in {"running", "succeeded"}
      /\ attempt[d] = tries[hand[d]]
  BY <1>1 DEF DrainOK, Busy
<1>3. tries[hand[d]] \in Nat /\ tries[hand[d]] > 0
  BY <1>2 DEF IInv, Types, Operations, OpOK
<1> QED BY <1>2, <1>3

\* Every drain has an operation in hand whenever it records a result, with an
\* attempt that the journal has counted, and the bounds hold.
THEOREM JournalTyped == Spec => []TypeOK
BY IInvAlways, IInvTyped, PTL

LEMMA IInvSafe ==
  IInv => NoReplay /\ RecordsTruth /\ OneHolder /\ AttemptBudget
<1> SUFFICES ASSUME IInv
             PROVE  NoReplay /\ RecordsTruth /\ OneHolder /\ AttemptBudget
  OBVIOUS
<1>1. NoReplay
  <2>1. \A o \in Ops : returned[o] \in Nat /\ returned[o] <= 1
    BY DEF IInv, Types, Operations, OpOK
  <2>2. \A o \in Ops : returned[o] # 0 => state[o] \in ActiveDedupe
    BY DEF IInv, Types, Operations, OpOK, States, ActiveDedupe
  <2> QED BY <2>1, <2>2 DEF NoReplay, IInv, Unique
<1>2. RecordsTruth /\ AttemptBudget
  BY DEF IInv, Operations, OpOK, RecordsTruth, AttemptBudget
<1>3. OneHolder
  BY DEF IInv, Apart, OneHolder, Held
<1> QED BY <1>1, <1>2, <1>3

\* The work of a key is completed once at most, whoever drains, dies or fails
\* to write: create_operation finds every operation that may have had its
\* effect.
THEOREM NoReplayAlways == Spec => []NoReplay
BY IInvSafe, IInvAlways, PTL

\* The journal never writes completed work off, nor claims what was not done.
THEOREM RecordsTruthAlways == Spec => []RecordsTruth
BY IInvSafe, IInvAlways, PTL

\* No operation is in the hands of two drains, of one process or of several.
THEOREM OneHolderAlways == Spec => []OneHolder
BY IInvSafe, IInvAlways, PTL

\* _resolve_retry_at keeps an operation within its schedule of delays and the
\* waits that were asked for.
THEOREM AttemptBudgetAlways == Spec => []AttemptBudget
BY IInvSafe, IInvAlways, PTL

-----------------------------------------------------------------------------
(* The journal implements OncePerKey *)

\* A key's stage and completions depend on what is active and what returned.
LEMMA SameStage ==
  ASSUME NEW k \in Keys,
         \A o \in Ops : state'[o] \in ActiveDedupe <=> state[o] \in ActiveDedupe,
         UNCHANGED returned
  PROVE  Stage(k)' = Stage(k) /\ Completed(k)' = Completed(k)
<1>1. Dedupable(k)' = Dedupable(k)
  BY DEF Dedupable
<1> QED BY <1>1 DEF Stage, Completed

LEMMA InitPromise == Init => Promise!Init
<1> SUFFICES ASSUME Init PROVE Promise!Init
  OBVIOUS
<1>1. ASSUME NEW k \in Keys PROVE Stage(k) = "free" /\ Completed(k) = {}
  <2>1. Dedupable(k) = {}
    BY DEF Init, Dedupable, ActiveDedupe
  <2>2. \A o \in Ops : returned[o] = 0
    BY DEF Init
  <2> QED BY <2>1, <2>2 DEF Stage, Completed
<1> QED BY <1>1 DEF Promise!Init

\* One key moves as a step of the promise, the others stay.
LEMMA KeyMoves ==
  ASSUME NEW k \in Keys,
         \A l \in Keys \ {k} : Stage(l)' = Stage(l) /\ Completed(l)' = Completed(l),
         \/ Stage(k) = "free" /\ Stage(k)' = "open" /\ Completed(k)' = Completed(k)
         \/ Stage(k) = "open" /\ Stage(k)' = "free" /\ Completed(k)' = Completed(k)
         \/ /\ Stage(k) = "open" /\ Stage(k)' = "closed"
            /\ \E w \in Ops \X {1} : Completed(k)' = {w}
  PROVE  Promise!Next
<1>1. CASE Stage(k) = "free" /\ Stage(k)' = "open" /\ Completed(k)' = Completed(k)
  <2>1. Promise!Request(k)
    BY <1>1 DEF Promise!Request
  <2> QED BY <2>1 DEF Promise!Next
<1>2. CASE Stage(k) = "open" /\ Stage(k)' = "free" /\ Completed(k)' = Completed(k)
  <2>1. Promise!GiveUp(k)
    BY <1>2 DEF Promise!GiveUp
  <2> QED BY <2>1 DEF Promise!Next
<1>3. CASE /\ Stage(k) = "open" /\ Stage(k)' = "closed"
           /\ \E w \in Ops \X {1} : Completed(k)' = {w}
  <2>1. PICK w \in Ops \X {1} : Completed(k)' = {w}
    BY <1>3
  <2>2. Promise!Complete(k, w)
    BY <1>3, <2>1 DEF Promise!Complete
  <2> QED BY <2>2 DEF Promise!Next
<1> QED BY <1>1, <1>2, <1>3

-----------------------------------------------------------------------------

\* What happens to one operation concerns its key alone.
LEMMA OtherKeys ==
  ASSUME NEW o \in Ops, NEW l \in Keys \ {KeyOf[o]},
         \A p \in Ops \ {o} : state'[p] = state[p] /\ returned'[p] = returned[p]
  PROVE  Stage(l)' = Stage(l) /\ Completed(l)' = Completed(l)
<1>1. \A p \in Ops : KeyOf[p] = l => state'[p] = state[p] /\ returned'[p] = returned[p]
  OBVIOUS
<1>2. Dedupable(l)' = Dedupable(l)
  BY <1>1 DEF Dedupable
<1>3. (\E p \in Ops : KeyOf[p] = l /\ returned'[p] > 0)
        <=> (\E p \in Ops : KeyOf[p] = l /\ returned[p] > 0)
  BY <1>1
<1>4. Completed(l)' = Completed(l)
  <2>1. {{<<p, n>> : n \in 1..returned'[p]} : p \in {q \in Ops : KeyOf[q] = l}}
          = {{<<p, n>> : n \in 1..returned[p]} : p \in {q \in Ops : KeyOf[q] = l}}
    BY <1>1
  <2> QED BY <2>1 DEF Completed
<1> QED BY <1>2, <1>3, <1>4 DEF Stage

\* While nothing of a key has returned, nothing of it is completed.
LEMMA NothingCompleted ==
  ASSUME NEW k \in Keys, \A p \in Ops : KeyOf[p] = k => returned[p] = 0
  PROVE  Completed(k) = {}
BY DEF Completed

\* An active operation that has not returned: its key is open, and it is the
\* key's only active one.
LEMMA ActiveAlone ==
  ASSUME IInv, NEW o \in Ops, state[o] \in ActiveDedupe, returned[o] = 0
  PROVE  /\ KeyOf[o] \in Keys
         /\ \A p \in Ops \ {o} : KeyOf[p] = KeyOf[o] =>
              state[p] \notin ActiveDedupe /\ returned[p] = 0
         /\ Stage(KeyOf[o]) = "open" /\ Completed(KeyOf[o]) = {}
<1>1. KeyOf[o] \in Keys
  BY JournalAssumption
<1>2. ASSUME NEW p \in Ops \ {o}, KeyOf[p] = KeyOf[o]
      PROVE  state[p] \notin ActiveDedupe /\ returned[p] = 0
  <2>1. state[p] \notin ActiveDedupe
    BY <1>2 DEF IInv, Unique
  <2> QED BY <2>1 DEF IInv, Types, Operations, OpOK, States, ActiveDedupe
<1>3. \A p \in Ops : KeyOf[p] = KeyOf[o] => returned[p] = 0
  BY <1>2
<1>4. Completed(KeyOf[o]) = {}
  BY <1>1, <1>3, NothingCompleted
<1>5. o \in Dedupable(KeyOf[o])
  BY DEF Dedupable
<1> QED BY <1>1, <1>2, <1>3, <1>4, <1>5 DEF Stage

LEMMA CreatePromise ==
  ASSUME IInv, NEW o \in Ops, CreateOperation(o) PROVE Promise!Next
<1> DEFINE k == KeyOf[o]
<1>1. k \in Keys
  BY JournalAssumption
<1>2. /\ \A p \in Ops \ {o} : state'[p] = state[p] /\ returned'[p] = returned[p]
      /\ UNCHANGED returned /\ state'[o] = "pending" /\ Dedupable(k) = {}
  BY DEF CreateOperation, IInv, Types
<1>3. \A p \in Ops : KeyOf[p] = k => returned[p] = 0
  BY <1>2 DEF Dedupable, IInv, Types, Operations, OpOK, States, ActiveDedupe
<1>4. Stage(k) = "free" /\ Completed(k) = {}
  BY <1>1, <1>2, <1>3, NothingCompleted DEF Stage
<1>5. o \in Dedupable(k)'
  BY <1>2 DEF Dedupable, ActiveDedupe
<1>6. Stage(k)' = "open"
  BY <1>2, <1>3, <1>5 DEF Stage
<1>7. Completed(k)' = Completed(k)
  BY <1>2 DEF Completed
<1>8. \A l \in Keys \ {k} : Stage(l)' = Stage(l) /\ Completed(l)' = Completed(l)
  BY <1>2, OtherKeys
<1> QED BY <1>1, <1>4, <1>6, <1>7, <1>8, KeyMoves

LEMMA ReturnPromise ==
  ASSUME IInv, NEW d \in Drains, DispatchReturns(d) PROVE Promise!Next
<1>1. PICK o \in Ops : o = hand[d] /\ state[o] = "running" /\ returned[o] = 0
  BY DEF IInv, Drainers, DrainOK, DispatchReturns, Busy
<1> DEFINE k == KeyOf[o]
<1>2. /\ k \in Keys
      /\ \A p \in Ops \ {o} : KeyOf[p] = k => returned[p] = 0
      /\ Stage(k) = "open"
  BY <1>1, ActiveAlone DEF ActiveDedupe
<1>3. /\ \A p \in Ops \ {o} : state'[p] = state[p] /\ returned'[p] = returned[p]
      /\ returned'[o] = 1
  BY <1>1 DEF DispatchReturns, IInv, Types, opVars
<1>4. Stage(k)' = "closed"
  BY <1>1, <1>3 DEF Stage
<1>5. Completed(k)' = {<<o, 1>>}
  <2>1. \A p \in Ops : KeyOf[p] = k => returned'[p] = IF p = o THEN 1 ELSE 0
    BY <1>2, <1>3
  <2> QED BY <1>1, <2>1 DEF Completed
<1>6. \A l \in Keys \ {k} : Stage(l)' = Stage(l) /\ Completed(l)' = Completed(l)
  BY <1>1, <1>3, OtherKeys
<1>7. \E w \in Ops \X {1} : Completed(k)' = {w}
  BY <1>1, <1>5
<1> QED BY <1>2, <1>4, <1>6, <1>7, KeyMoves

\* mark_failed gives the key up, unless the operation is retried.
LEMMA FailPromise ==
  ASSUME IInv, NEW d \in Drains, pc[d] = "fail", MarkFailed(hand[d], again[d]),
         UNCHANGED returned
  PROVE  Promise!Next \/ UNCHANGED Promise!vars
<1>1. PICK o \in Ops : o = hand[d] /\ state[o] = "running" /\ returned[o] = 0
  BY DEF IInv, Drainers, DrainOK, Busy
<1> DEFINE k == KeyOf[o]
<1>2. /\ k \in Keys
      /\ \A p \in Ops \ {o} : KeyOf[p] = k =>
           state[p] \notin ActiveDedupe /\ returned[p] = 0
      /\ Stage(k) = "open" /\ Completed(k) = {}
  BY <1>1, ActiveAlone DEF ActiveDedupe
<1>3. /\ \A p \in Ops \ {o} : state'[p] = state[p] /\ returned'[p] = returned[p]
      /\ state'[o] = IF again[d] THEN "pending" ELSE "failed"
  BY <1>1 DEF MarkFailed, Finishable, IInv, Types, Operations, OpOK
<1>4. CASE again[d]
  <2>1. \A p \in Ops : state'[p] \in ActiveDedupe <=> state[p] \in ActiveDedupe
    BY <1>1, <1>3, <1>4 DEF ActiveDedupe
  <2>2. \A l \in Keys : Stage(l)' = Stage(l) /\ Completed(l)' = Completed(l)
    BY <2>1, SameStage
  <2> QED BY <2>2 DEF Promise!vars
<1>5. CASE ~again[d]
  <2>1. Dedupable(k)' = {}
    BY <1>2, <1>3, <1>5 DEF Dedupable, ActiveDedupe
  <2>2. \A p \in Ops : KeyOf[p] = k => returned'[p] = 0
    BY <1>1, <1>2, <1>3
  <2>3. Stage(k)' = "free"
    BY <2>1, <2>2 DEF Stage
  <2>4. Completed(k)' = Completed(k)
    BY DEF Completed
  <2>5. \A l \in Keys \ {k} : Stage(l)' = Stage(l) /\ Completed(l)' = Completed(l)
    BY <1>1, <1>3, OtherKeys
  <2> QED BY <1>2, <2>3, <2>4, <2>5, KeyMoves
<1> QED BY <1>4, <1>5

\* Everything else leaves the promise alone: it does not return from an
\* executor, and what was active stays so.
Silent ==
  /\ UNCHANGED returned
  /\ \A o \in Ops : state'[o] \in ActiveDedupe <=> state[o] \in ActiveDedupe

LEMMA SilentStutters == ASSUME Silent PROVE UNCHANGED Promise!vars
<1>1. \A l \in Keys : Stage(l)' = Stage(l) /\ Completed(l)' = Completed(l)
  BY SameStage DEF Silent
<1> QED BY <1>1 DEF Promise!vars

LEMMA ClaimSilent ==
  ASSUME NEW S \in Selections, ClaimPending(S), UNCHANGED returned
  PROVE  Silent
BY DEF ClaimPending, Selections, Claimable, Silent, ActiveDedupe

LEMMA PromiseStep ==
  ASSUME IInv, [Next]_vars PROVE Promise!Next \/ UNCHANGED Promise!vars
<1> USE DEF Silent, opVars, ActiveDedupe
<1>1. ASSUME NEW o \in Ops, CreateOperation(o) \/ BecomesDue(o)
      PROVE  Promise!Next \/ UNCHANGED Promise!vars
  <2>1. BecomesDue(o) => Silent
    BY DEF BecomesDue
  <2> QED BY <1>1, <2>1, CreatePromise, SilentStutters
<1>2. ASSUME NEW d \in Drains, StartDrain(d) \/ Crash(d) PROVE Silent
  BY <1>2 DEF StartDrain, Crash
<1>3. ASSUME NEW d \in Drains, NEW o \in Ops, Reconcile(d, o) PROVE Silent
  BY <1>3 DEF Reconcile, IInv, Types
<1>4. ASSUME NEW d \in Drains, NEW o \in Ops, MarkRunning(d, o) PROVE Silent
  BY <1>4 DEF MarkRunning
<1>5. ASSUME NEW d \in Drains, Claim(d) PROVE Silent
  <2>1. PICK S \in Selections : ClaimPending(S)
    BY <1>5 DEF Claim
  <2>2. UNCHANGED returned
    BY <1>5 DEF Claim
  <2> QED BY <2>1, <2>2, ClaimSilent
<1>6. ASSUME NEW d \in Drains, NEW error \in {"plain", "terminal", "wait"},
             DispatchRaises(d, error)
      PROVE  Silent
  BY <1>6 DEF DispatchRaises, Raise
<1>7. ASSUME NEW d \in Drains, RecordSuccess(d) \/ SuccessRaises(d) PROVE Silent
  BY <1>7 DEF RecordSuccess, SuccessRaises, MarkSucceeded, Finishable, IInv,
              Types
<1>8. ASSUME NEW d \in Drains, RecordEffect(d) \/ EffectRaises(d) PROVE Silent
  BY <1>8 DEF RecordEffect, EffectRaises, MarkEffectApplied, Finishable, IInv,
              Types
<1>9. ASSUME NEW d \in Drains, RecordFailure(d) \/ CallRaises(d)
      PROVE  Promise!Next \/ UNCHANGED Promise!vars
  <2>1. UNCHANGED returned
    BY <1>9 DEF RecordFailure, CallRaises
  <2>2. CASE pc[d] = "fail" /\ MarkFailed(hand[d], again[d])
    BY <2>1, <2>2, FailPromise
  <2>3. ASSUME NEW S \in Selections, ClaimPending(S) PROVE Silent
    BY <2>1, <2>3, ClaimSilent
  <2> QED
    BY <1>9, <2>2, <2>3, SilentStutters DEF RecordFailure, CallRaises
<1>10. CASE UNCHANGED vars
  <2>1. Silent
    BY <1>10 DEF vars
  <2> QED BY <2>1, SilentStutters
<1>11. ASSUME NEW d \in Drains, StartDrain(d) \/ Work(d) \/ Faults(d)
       PROVE  Promise!Next \/ UNCHANGED Promise!vars
  BY <1>2, <1>3, <1>4, <1>5, <1>6, <1>7, <1>8, <1>9, <1>11, ReturnPromise,
     SilentStutters
  DEF Work, Faults
<1> QED BY <1>1, <1>10, <1>11 DEF Next

\* The journal with its drains implements the promise made of each key: while
\* a request is open no other is, and its work is completed once.
THEOREM ImplementsPromiseAlways == Spec => ImplementsPromise
<1>1. IInv /\ [Next]_vars => [Promise!Next]_(Promise!vars)
  BY PromiseStep
<1> QED
  BY <1>1, InitPromise, IInvAlways, PTL
  DEF Spec, ImplementsPromise, Promise!Spec
=============================================================================
