------------------------- MODULE ScmFeedback_proofs -------------------------
(***************************************************************************)
(* Proofs about the review comments of a batch window: whatever the        *)
(* ingestions and the executors do is a step that the journal's invariant  *)
(* allows, no comment is lost that nobody raced for, and notices are true, *)
(* for any sets of comments, operations and drains and any bounds.         *)
(***************************************************************************)
EXTENDS ScmFeedback, PublishJournal_proofs

Created(t) == t \in Turns /\ state[t] # "absent"

\* A comment past "create" was given a turn operation, and a notice waits for
\* one.
Targets ==
  /\ \A i \in Items : step[i] # "create" => Created(target[i])
  /\ \A n \in Notices : state[n] # "absent" => Created(depends[n])

Typed == FeedbackTypeOK /\ Targets

LEMMA BatchSlots ==
  ASSUME NEW o \in Ops, KeyOf[o] = BatchKey PROVE o \in Turns
<1>1. PICK u \in Turns : TRUE
  BY FeedbackAssumption
<1>2. KeyOf[u] \in Keys /\ \A t \in Turns : KeyOf[t] = KeyOf[u]
  BY FeedbackAssumption, JournalAssumption
<1>3. \A t \in Turns : KeyOf[t] = BatchKey
  BY <1>2 DEF BatchKey
<1> QED BY <1>3, FeedbackAssumption DEF Notices

-----------------------------------------------------------------------------
(* What feedback does to the journal *)

\* update_pending_operation: a pending operation gets a new payload and a new
\* next_attempt_at.
Postpones(o) ==
  /\ state[o] = "pending"
  /\ \E b \in BOOLEAN : due' = [due EXCEPT ![o] = b]
  /\ UNCHANGED <<state, last, tries, drainVars, returned, waits, faults>>

\* The executor raises after it created the turn.
RaisesLate(d) ==
  /\ faults < MaxFaults /\ faults' = faults + 1
  /\ Raise(d, "plain")

JournalMoves ==
  \/ [Next]_vars
  \/ \E o \in Ops : Postpones(o)
  \/ \E d \in Drains : RaisesLate(d)

LEMMA MovesKeep == ASSUME IInv, JournalMoves PROVE IInv'
<1>1. CASE [Next]_vars
  BY <1>1, IInvStep
<1>2. ASSUME NEW o \in Ops, Postpones(o) PROVE IInv'
  <2> USE <1>2 DEF Postpones, drainVars, IInv
  <2>1. Types'
    <3>1. due' \in [Ops -> BOOLEAN]
      BY DEF Types
    <3> QED BY <3>1 DEF Types
  <2>2. Drainers'
    BY DEF Drainers, DrainOK
  <2>3. Operations' /\ Unique' /\ Apart'
    BY DEF Operations, OpOK, Unique, Apart
  <2> QED BY <2>1, <2>2, <2>3
<1>3. ASSUME NEW d \in Drains, RaisesLate(d) PROVE IInv'
  <2>1. faults' \in 0..MaxFaults
    BY <1>3, JournalAssumption DEF RaisesLate, IInv, Types
  <2> QED BY <1>3, <2>1, RaiseTyped, RaiseKeeps DEF RaisesLate, IInv, Rest
<1> QED BY <1>1, <1>2, <1>3 DEF JournalMoves

LEMMA IngestionMoves ==
  ASSUME Typed, NEW i \in Items, Ingestion(i) PROVE JournalMoves
<1> USE FeedbackAssumption DEF vars, opVars
<1>1. ASSUME NEW S, CreateTurn(i, S) PROVE JournalMoves
  BY <1>1 DEF CreateTurn, JournalMoves, Next
<1>2. CASE Ingest(i) \/ CreateAgain(i)
  BY <1>1, <1>2 DEF Ingest, CreateAgain
<1>3. CASE Merge(i)
  <2>1. target[i] \in Ops
    BY <1>3 DEF Merge, Typed, Targets, Created
  <2> QED BY <1>3, <2>1 DEF Merge, JournalMoves, Postpones
<1>4. CASE Emit(i)
  BY <1>4 DEF Emit, JournalMoves
<1>5. CASE CreateNotice(i)
  BY <1>5 DEF CreateNotice, JournalMoves, Next, Notices
<1>6. CASE UpdateNotice(i)
  BY <1>6 DEF UpdateNotice, JournalMoves, Postpones, Notices
<1> QED BY <1>2, <1>3, <1>4, <1>5, <1>6 DEF Ingestion

LEMMA FeedbackMoves ==
  ASSUME Typed, [FeedbackNext]_allVars PROVE JournalMoves
<1>1. ASSUME NEW i \in Items, Ingestion(i) PROVE JournalMoves
  BY <1>1, IngestionMoves
<1>2. ASSUME NEW d \in Drains, DispatchTurn(d) PROVE JournalMoves
  BY <1>2 DEF DispatchTurn, JournalMoves, RaisesLate, Next, Work
<1>3. ASSUME NEW d \in Drains, ResolveNotice(d) \/ SendNotice(d)
      PROVE  JournalMoves
  BY <1>3 DEF ResolveNotice, SendNotice, JournalMoves, Next, Work
<1>4. ASSUME NEW t \in Turns, RunTurn(t) PROVE JournalMoves
  BY <1>4 DEF RunTurn, JournalMoves
<1>5. CASE JournalStep
  BY <1>5 DEF JournalStep, JournalMoves, Next, Work
<1>6. CASE UNCHANGED allVars
  BY <1>6 DEF allVars, JournalMoves
<1> QED BY <1>1, <1>2, <1>3, <1>4, <1>5, <1>6 DEF FeedbackNext

-----------------------------------------------------------------------------
(* Types *)

\* No step of the journal itself makes an operation, takes one away, or
\* returns to one that failed.
SameSlot(o) ==
  /\ state'[o] = "absent" <=> state[o] = "absent"
  /\ state[o] = "failed" => state'[o] = "failed"

LEMMA SlotsStay ==
  ASSUME Types, JournalStep
  PROVE  /\ \A o \in Ops : SameSlot(o)
         /\ UNCHANGED <<returned, feedbackVars>>
<1> USE DEF JournalStep, opVars, SameSlot
<1>1. UNCHANGED feedbackVars
  OBVIOUS
<1>2. ASSUME NEW o \in Ops, BecomesDue(o)
      PROVE  UNCHANGED <<state, returned>>
  BY <1>2 DEF BecomesDue
<1>3. ASSUME NEW d \in Drains, StartDrain(d) \/ Crash(d)
      PROVE  UNCHANGED <<state, returned>>
  BY <1>3 DEF StartDrain, Crash
<1>4. ASSUME NEW d \in Drains, NEW o \in Ops, MarkRunning(d, o)
      PROVE  UNCHANGED <<state, returned>>
  BY <1>4 DEF MarkRunning
<1>5. ASSUME NEW d \in Drains, NEW o \in Ops, Reconcile(d, o)
      PROVE  /\ \A p \in Ops : SameSlot(p)
             /\ UNCHANGED returned
  BY <1>5 DEF Reconcile, Types
<1>6. ASSUME NEW S \in Selections, ClaimPending(S)
      PROVE  \A p \in Ops : SameSlot(p)
  BY <1>6 DEF ClaimPending, Selections, Claimable
<1>7. ASSUME NEW o, NEW b, \/ MarkSucceeded(o) \/ MarkEffectApplied(o)
                           \/ MarkFailed(o, b)
      PROVE  \A p \in Ops : SameSlot(p)
  <2>1. \/ state' = state
        \/ /\ state[o] = "running"
           /\ \E s \in {"succeeded", "effect_applied", "pending", "failed"} :
                state' = [state EXCEPT ![o] = s]
    BY <1>7 DEF MarkSucceeded, MarkEffectApplied, MarkFailed, Finishable
  <2> QED BY <2>1 DEF Types
<1>8. ASSUME NEW d \in Drains,
             \/ RecordFailure(d) \/ RecordSuccess(d) \/ RecordEffect(d)
             \/ SuccessRaises(d) \/ EffectRaises(d) \/ CallRaises(d) \/ Claim(d)
      PROVE  /\ \A p \in Ops : SameSlot(p)
             /\ UNCHANGED returned
  BY <1>6, <1>7, <1>8
  DEF RecordFailure, RecordSuccess, RecordEffect, SuccessRaises, EffectRaises,
      CallRaises, Claim
<1> QED BY <1>1, <1>2, <1>3, <1>4, <1>5, <1>8 DEF Faults

LEMMA CreateTurnTyped ==
  ASSUME Typed, TypeOK', NEW i \in Items, NEW S \in SUBSET Items,
         step[i] \in {"create", "again"}, CreateTurn(i, S),
         UNCHANGED <<depends, emitted, turn, given, told, answer>>
  PROVE  Typed'
<1> USE FeedbackAssumption DEF Notices
<1>0. FeedbackTypeOK /\ Targets
  BY DEF Typed
<1>1. ASSUME NEW t \in Turns, CreateOperation(t),
             bundle' = [bundle EXCEPT ![t] = S],
             target' = [target EXCEPT ![i] = t], Goto(i, "emit"),
             UNCHANGED <<copy, raced>>
      PROVE  Typed'
  <2>1. /\ \A n \in Notices : state'[n] = state[n]
        /\ state'[t] = "pending"
        /\ \A u \in Turns : state[u] # "absent" => state'[u] # "absent"
    BY <1>0, <1>1 DEF CreateOperation, FeedbackTypeOK, TypeOK, Types
  <2>2. FeedbackTypeOK'
    BY <1>0, <1>1 DEF FeedbackTypeOK, Goto
  <2>3. Targets'
    BY <1>0, <1>1, <2>1 DEF FeedbackTypeOK, Targets, Created, Goto
  <2> QED BY <2>2, <2>3 DEF Typed
<1>2. ASSUME NEW t \in Dedupable(BatchKey),
             target' = [target EXCEPT ![i] = t],
             UNCHANGED <<vars, bundle>>,
             \/ /\ copy' = [copy EXCEPT ![i] = bundle[t]]
                /\ Goto(i, "merge")
                /\ UNCHANGED raced
             \/ /\ Goto(i, "emit")
                /\ raced' = raced \cup {i}
                /\ UNCHANGED copy
      PROVE  Typed'
  <2>1. t \in Turns /\ state[t] # "absent"
    BY BatchSlots DEF Dedupable, ActiveDedupe
  <2>2. UNCHANGED state
    BY <1>2 DEF vars, opVars
  <2>3. FeedbackTypeOK'
    <3>1. target' \in [Items -> Turns \cup {None}]
      BY <1>0, <1>2, <2>1 DEF FeedbackTypeOK
    <3>2. step' \in [Items -> {"create", "merge", "again", "emit", "notice",
                              "renotice", "done"}]
      BY <1>0, <1>2 DEF FeedbackTypeOK, Goto
    <3>3. copy' \in [Items -> SUBSET Items] /\ raced' \subseteq Items
      BY <1>0, <1>2, <2>1 DEF FeedbackTypeOK
    <3> QED BY <1>0, <1>2, <3>1, <3>2, <3>3 DEF FeedbackTypeOK
  <2>4. Targets'
    BY <1>0, <1>2, <2>1, <2>2 DEF FeedbackTypeOK, Targets, Created, Goto
  <2> QED BY <2>3, <2>4 DEF Typed
<1> QED BY <1>1, <1>2 DEF CreateTurn

LEMMA IngestionTyped ==
  ASSUME Typed, TypeOK', NEW i \in Items, Ingestion(i) PROVE Typed'
<1> USE FeedbackAssumption
    DEF Typed, FeedbackTypeOK, Targets, Created, Goto, Notices, vars, opVars
<1> UNCHANGED answer
  BY DEF Ingestion
<1>1. CASE Ingest(i) \/ CreateAgain(i)
  <2>1. /\ step[i] \in {"create", "again"}
        /\ UNCHANGED <<depends, emitted, turn, given, told>>
        /\ \E S \in SUBSET Items : CreateTurn(i, S)
    BY <1>1 DEF Ingest, CreateAgain
  <2> QED BY <2>1, CreateTurnTyped
<1>2. CASE Merge(i)
  <2>0. target[i] \in Turns
    BY <1>2 DEF Merge
  <2>1. FeedbackTypeOK'
    <3> HIDE DEF Targets, Created, Typed
    <3>0. FeedbackTypeOK
      BY DEF Typed
    <3>1. bundle' \in [Turns -> SUBSET Items] /\ raced' \subseteq Items
      BY <1>2, <2>0, <3>0 DEF Merge
    <3>2. step' \in [Items -> {"create", "merge", "again", "emit", "notice",
                              "renotice", "done"}]
      BY <1>2, <3>0 DEF Merge
    <3>3. UNCHANGED <<depends, target, copy, emitted, turn, given, told, answer>>
      BY <1>2 DEF Merge
    <3> QED BY <3>0, <3>1, <3>2, <3>3
  <2>2. Targets'
    BY <1>2 DEF Merge
  <2> QED BY <2>1, <2>2
<1>3. CASE Emit(i)
  BY <1>3 DEF Emit
<1>4. CASE CreateNotice(i)
  <2>1. ASSUME NEW n \in Notices, CreateOperation(n),
               depends' = [depends EXCEPT ![n] = target[i]],
               Goto(i, "done")
        PROVE  Typed'
    <3>1. /\ \A m \in Notices \ {n} : state'[m] = state[m]
          /\ \A u \in Turns : state'[u] = state[u]
      BY <2>1 DEF CreateOperation, TypeOK, Types
    <3>2. FeedbackTypeOK'
      <4>1. target[i] \in Turns
        BY <1>4 DEF CreateNotice
      <4>2. UNCHANGED <<bundle, target, copy, emitted, turn, given, told, raced,
                        answer>>
        BY <1>4 DEF CreateNotice
      <4> HIDE DEF Targets, Created
      <4> QED BY <2>1, <4>1, <4>2
    <3>3. Targets'
      <4>1. Created(target[i])
        BY <1>4 DEF CreateNotice
      <4>2. target' = target
        BY <1>4 DEF CreateNotice
      <4>3. \A j \in Items : step'[j] # "create" => Created(target[j])'
        BY <2>1, <3>1, <4>1, <4>2
      <4>4. \A m \in Notices : state'[m] # "absent" => Created(depends[m])'
        BY <2>1, <3>1, <4>1
      <4> QED BY <4>3, <4>4
    <3> QED BY <3>2, <3>3
  <2>2. ASSUME NEW n \in Notices, UNCHANGED <<vars, depends>>,
               Goto(i, IF state[n] = "pending" THEN "renotice" ELSE "done")
        PROVE  Typed'
    <3>1. FeedbackTypeOK'
      <4> HIDE DEF Targets, Created
      <4> QED BY <1>4, <2>2 DEF CreateNotice
    <3>2. Targets'
      BY <1>4, <2>2 DEF CreateNotice
    <3> QED BY <3>1, <3>2
  <2> QED BY <1>4, <2>1, <2>2 DEF CreateNotice
<1>5. CASE UpdateNotice(i)
  <2>1. target[i] \in Turns
    BY <1>5 DEF UpdateNotice
  <2>2. FeedbackTypeOK'
    <3> HIDE DEF Targets, Created
    <3> QED BY <1>5, <2>1 DEF UpdateNotice
  <2>3. Targets'
    <3>1. Created(target[i]) /\ UNCHANGED <<state, target>>
      BY <1>5 DEF UpdateNotice
    <3>2. \A j \in Items : step'[j] # "create" => Created(target[j])'
      BY <1>5, <3>1 DEF UpdateNotice
    <3>3. \A n \in Notices : state'[n] # "absent" => Created(depends[n])'
      BY <1>5, <3>1 DEF UpdateNotice
    <3> QED BY <3>2, <3>3
  <2> QED BY <2>2, <2>3
<1> QED BY <1>1, <1>2, <1>3, <1>4, <1>5 DEF Ingestion

\* An executor leaves the operations alone.
LEMMA DispatchSlots ==
  ASSUME NEW d \in Drains,
         DispatchTurn(d) \/ ResolveNotice(d) \/ SendNotice(d)
  PROVE  UNCHANGED <<state, bundle, depends, step, target, copy, emitted>>
BY DEF DispatchTurn, ResolveNotice, SendNotice, DispatchReturns, DispatchRaises,
       Raise, feedbackVars, vars, opVars

\* Nor has a notice to do with the turns.
LEMMA NoticeMoves ==
  ASSUME Types, NEW d \in Drains, ResolveNotice(d) \/ SendNotice(d),
         SendNotice(d) => hand[d] \in Notices
  PROVE  /\ UNCHANGED <<turn, given, raced>>
         /\ \A e \in Drains : pc'[e] \in {pc[e], "succeed", "fail"}
         /\ \A t \in Turns : returned'[t] = returned[t]
<1> USE DEF Types, feedbackVars, vars, drainVars
<1>1. hand[d] \in Notices
  BY DEF ResolveNotice
<1>2. /\ UNCHANGED <<turn, given, raced>>
      /\ \/ UNCHANGED <<pc, returned>>
         \/ DispatchReturns(d)
         \/ \E error \in {"plain", "terminal", "wait"} : DispatchRaises(d, error)
  BY DEF ResolveNotice, SendNotice
<1>3. CASE DispatchReturns(d)
  BY <1>1, <1>2, <1>3 DEF DispatchReturns, Notices
<1>4. CASE \E error \in {"plain", "terminal", "wait"} : DispatchRaises(d, error)
  BY <1>2, <1>4 DEF DispatchRaises, Raise
<1> QED BY <1>2, <1>3, <1>4

\* The notice a drain works on waits for a turn operation.
LEMMA NoticeHeld ==
  ASSUME IInv, Targets, NEW d \in Drains, pc[d] = "dispatch", hand[d] \in Notices
  PROVE  state[hand[d]] = "running" /\ Created(depends[hand[d]])
BY DEF IInv, Drainers, DrainOK, Targets

LEMMA AnswersTyped == \A t : Answers(t) \subseteq {"wait", "failed", "started"}
BY DEF Answers

LEMMA TypedStep ==
  ASSUME IInv, Typed, TypeOK', [FeedbackNext]_allVars PROVE Typed'
<1> USE FeedbackAssumption DEF Typed, FeedbackTypeOK, Targets, Created
<1>1. ASSUME NEW i \in Items, Ingestion(i) PROVE Typed'
  BY <1>1, IngestionTyped
<1>2. ASSUME NEW d \in Drains, DispatchTurn(d) PROVE Typed'
  <2>1. /\ hand[d] \in Turns /\ UNCHANGED <<told, answer>>
        /\ EnqueueTurn(hand[d]) \/ UNCHANGED <<turn, given, raced>>
    BY <1>2 DEF DispatchTurn
  <2> QED BY <1>2, <2>1, DispatchSlots DEF EnqueueTurn
<1>3. ASSUME NEW d \in Drains, ResolveNotice(d) PROVE Typed'
  <2>1. UNCHANGED feedbackVars
    BY <1>3 DEF ResolveNotice
  <2>2. answer' \in [Drains -> [says : {"none", "started", "failed"},
                               state : {"none", "absent"} \cup States,
                               turn : {"none", "queued", "started", "ended"}]]
    <3> DEFINE t == depends[hand[d]]
    <3>1. PICK says \in {"wait", "failed", "started"} :
            \/ UNCHANGED answer
            \/ /\ says # "wait" /\ says \in Answers(t)
               /\ answer' = [answer EXCEPT ![d] =
                    [says |-> says, state |-> state[t], turn |-> turn[t]]]
      BY <1>3, AnswersTyped DEF ResolveNotice
    <3>2. t \in Turns
      BY <1>3, NoticeHeld DEF ResolveNotice
    <3>3. turn[t] \in {"none", "queued", "started", "ended"}
      BY <3>2
    <3>4. state[t] \in {"absent"} \cup States
      BY <3>2 DEF TypeOK, Types
    <3> QED BY <3>1, <3>3, <3>4
  <2> QED BY <1>3, <2>1, <2>2, DispatchSlots DEF feedbackVars
<1>7. ASSUME NEW d \in Drains, SendNotice(d) PROVE Typed'
  <2>1. told' \in [Notices -> {"none", "started", "failed"}]
    BY <1>7 DEF SendNotice
  <2>2. answer' \in [Drains -> [says : {"none", "started", "failed"},
                               state : {"none", "absent"} \cup States,
                               turn : {"none", "queued", "started", "ended"}]]
    BY <1>7 DEF SendNotice, NoAnswer
  <2>3. UNCHANGED <<turn, given, raced>>
    BY <1>7 DEF SendNotice
  <2> QED BY <1>7, <2>1, <2>2, <2>3, DispatchSlots
<1>4. ASSUME NEW t \in Turns, RunTurn(t) PROVE Typed'
  BY <1>4 DEF RunTurn, vars, opVars
<1>5. CASE JournalStep
  <2>1. \A n \in Notices : n \in Ops
    BY DEF Notices
  <2>2. answer' \in [Drains -> [says : {"none", "started", "failed"},
                               state : {"none", "absent"} \cup States,
                               turn : {"none", "queued", "started", "ended"}]]
    BY <1>5 DEF JournalStep, NoAnswer
  <2>3. Types
    BY DEF TypeOK
  <2>4. \A o \in Ops : state[o] # "absent" => state'[o] # "absent"
    BY <1>5, <2>3, SlotsStay DEF SameSlot
  <2>5. UNCHANGED feedbackVars
    BY <1>5, <2>3, SlotsStay
  <2>6. FeedbackTypeOK'
    BY <2>2, <2>5 DEF feedbackVars
  <2>7. Targets'
    <3>1. ASSUME NEW i \in Items, step'[i] # "create" PROVE Created(target[i])'
      BY <2>4, <2>5, <3>1 DEF feedbackVars
    <3>2. ASSUME NEW n \in Notices, state'[n] # "absent"
          PROVE  Created(depends[n])'
      <4>1. state[n] # "absent"
        BY <1>5, <2>1, <2>3, <3>2, SlotsStay DEF SameSlot
      <4> QED BY <2>4, <2>5, <4>1 DEF feedbackVars
    <3> QED BY <3>1, <3>2
  <2> QED BY <2>6, <2>7
<1>6. CASE UNCHANGED allVars
  BY <1>6 DEF allVars, feedbackVars, vars, opVars
<1> QED BY <1>1, <1>2, <1>3, <1>4, <1>5, <1>6, <1>7 DEF FeedbackNext

FInv == IInv /\ Typed

LEMMA FInvInit == FeedbackInit => FInv
<1> SUFFICES ASSUME FeedbackInit PROVE FInv
  OBVIOUS
<1>1. IInv
  BY IInvInit DEF FeedbackInit
<1>2. Targets
  BY DEF FeedbackInit, Init, Targets, Notices
<1>3. FeedbackTypeOK
  BY <1>1, IInvTyped DEF FeedbackInit, FeedbackTypeOK, NoAnswer
<1> QED BY <1>1, <1>2, <1>3 DEF FInv, Typed

LEMMA FInvStep == FInv /\ [FeedbackNext]_allVars => FInv'
<1> SUFFICES ASSUME FInv, [FeedbackNext]_allVars PROVE FInv'
  OBVIOUS
<1>1. IInv'
  BY FeedbackMoves, MovesKeep DEF FInv
<1>2. TypeOK'
  BY <1>1, IInvTyped, PTL
<1> QED BY <1>1, <1>2, TypedStep DEF FInv

LEMMA FInvAlways == FeedbackSpec => []FInv
BY FInvInit, FInvStep, PTL DEF FeedbackSpec

\* Every ingestion past its first call has been given a turn operation, and
\* every notice waits for one; the journal keeps its types.
THEOREM FeedbackTyped == FeedbackSpec => []FeedbackTypeOK
BY FInvAlways, PTL DEF FInv, Typed

\* Ingestions that merge into a pending operation, and executors that raise
\* after they created the turn, cost the journal none of its guarantees.
THEOREM FeedbackKeepsJournal ==
  FeedbackSpec => [](NoReplay /\ RecordsTruth /\ OneHolder /\ AttemptBudget)
BY FInvAlways, IInvSafe, PTL DEF FInv

\* Nor the promise made of each key: the journal with its ingestions and
\* executors still implements OncePerKey.
THEOREM FeedbackKeepsPromise == FeedbackSpec => ImplementsPromise
<1>1. FInv /\ [FeedbackNext]_allVars => [Promise!Next]_(Promise!vars)
  <2> SUFFICES ASSUME FInv, [FeedbackNext]_allVars
               PROVE  Promise!Next \/ UNCHANGED Promise!vars
    OBVIOUS
  <2>1. JournalMoves
    BY FeedbackMoves DEF FInv
  <2>2. CASE [Next]_vars
    BY <2>2, PromiseStep DEF FInv
  <2>3. ASSUME \/ \E o \in Ops : Postpones(o)
               \/ \E d \in Drains : RaisesLate(d)
        PROVE  Silent
    BY <2>3 DEF Postpones, RaisesLate, Raise, Silent, opVars
  <2> QED BY <2>1, <2>2, <2>3, SilentStutters DEF JournalMoves
<1>2. FeedbackInit => Promise!Init
  BY InitPromise DEF FeedbackInit
<1> QED
  BY <1>1, <1>2, FInvAlways, PTL
  DEF FeedbackSpec, ImplementsPromise, Promise!Spec

-----------------------------------------------------------------------------
(* Notices *)

\* While the journal can be written, a turn was created by a dispatch that
\* returned, and no operation is left at effect_applied.
Quiet ==
  faults = 0 =>
    /\ \A t \in Turns : turn[t] # "none" => returned[t] = 1
    /\ \A o \in Ops : state[o] # "effect_applied"
    /\ \A d \in Drains : pc[d] # "effect"

LEMMA FaultsGrow ==
  ASSUME Types, JournalMoves PROVE faults' = 0 => faults = 0
<1> USE JournalAssumption DEF Types
<1>1. ASSUME NEW o \in Ops, \/ CreateOperation(o) \/ BecomesDue(o)
                            \/ Postpones(o)
      PROVE  faults' = faults
  BY <1>1 DEF CreateOperation, BecomesDue, Postpones
<1>2. ASSUME NEW d \in Drains, StartDrain(d) \/ Work(d) PROVE faults' = faults
  BY <1>2
  DEF StartDrain, Work, Reconcile, MarkRunning, Claim, DispatchReturns,
      DispatchRaises, RecordFailure, RecordSuccess, RecordEffect
<1>3. ASSUME NEW d \in Drains, Faults(d) \/ RaisesLate(d)
      PROVE  faults' = faults + 1
  BY <1>3
  DEF Faults, Crash, SuccessRaises, EffectRaises, CallRaises, RaisesLate
<1>4. CASE UNCHANGED vars
  BY <1>4 DEF vars
<1> QED BY <1>1, <1>2, <1>3, <1>4 DEF JournalMoves, Next

\* No journal step but a fault, or one taken after a fault, brings
\* effect_applied about.
LEMMA QuietJournal ==
  ASSUME Types, Quiet, faults = 0, faults' = 0, JournalStep
  PROVE  /\ \A o \in Ops : state'[o] # "effect_applied"
         /\ \A d \in Drains : pc'[d] # "effect"
<1> USE DEF Types, opVars, Quiet, Leave, NextOperation
<1>1. ASSUME NEW o \in Ops, BecomesDue(o) PROVE UNCHANGED <<state, pc>>
  BY <1>1 DEF BecomesDue, drainVars
<1>2. ASSUME NEW d \in Drains, StartDrain(d)
      PROVE  /\ \A o \in Ops : state'[o] # "effect_applied"
             /\ \A e \in Drains : pc'[e] # "effect"
  BY <1>2 DEF StartDrain
<1>3. ASSUME NEW d \in Drains, NEW o \in Ops,
             Reconcile(d, o) \/ MarkRunning(d, o)
      PROVE  /\ \A p \in Ops : state'[p] # "effect_applied"
             /\ \A e \in Drains : pc'[e] # "effect"
  BY <1>3 DEF Reconcile, MarkRunning
<1>4. ASSUME NEW d \in Drains, Claim(d)
      PROVE  /\ \A p \in Ops : state'[p] # "effect_applied"
             /\ \A e \in Drains : pc'[e] # "effect"
  BY <1>4 DEF Claim, ClaimPending
<1>5. ASSUME NEW d \in Drains, RecordFailure(d) \/ RecordSuccess(d)
      PROVE  /\ \A p \in Ops : state'[p] # "effect_applied"
             /\ \A e \in Drains : pc'[e] # "effect"
  <2>1. PICK s \in {"pending", "failed", "succeeded"} :
          state' = state \/ \E o : state' = [state EXCEPT ![o] = s]
    BY <1>5 DEF RecordFailure, RecordSuccess, MarkFailed, MarkSucceeded
  <2>2. PICK q \in {"idle", "next"} : pc' = [pc EXCEPT ![d] = q]
    BY <1>5 DEF RecordFailure, RecordSuccess
  <2> QED BY <2>1, <2>2
<1>6. ASSUME NEW d \in Drains, RecordEffect(d) PROVE FALSE
  BY <1>6 DEF RecordEffect
<1>7. ASSUME NEW d \in Drains, Faults(d) PROVE FALSE
  BY <1>7 DEF Faults, Crash, SuccessRaises, EffectRaises, CallRaises
<1> QED BY <1>1, <1>2, <1>3, <1>4, <1>5, <1>6, <1>7 DEF JournalStep

LEMMA IngestionLeavesDrains ==
  ASSUME NEW i \in Items, Ingestion(i)
  PROVE  /\ UNCHANGED <<pc, hand, returned, turn, given, told>>
         /\ \A o \in Ops : state'[o] = state[o] \/ state'[o] = "pending"
<1> USE DEF vars, opVars, drainVars
<1>1. ASSUME NEW o, CreateOperation(o)
      PROVE  /\ UNCHANGED <<pc, hand, returned>>
             /\ \A p \in Ops : state'[p] = state[p] \/ state'[p] = "pending"
  BY <1>1 DEF CreateOperation
<1>2. CASE Ingest(i) \/ CreateAgain(i)
  BY <1>1, <1>2 DEF Ingest, CreateAgain, CreateTurn
<1>3. CASE CreateNotice(i)
  BY <1>1, <1>3 DEF CreateNotice
<1>4. CASE Merge(i) \/ Emit(i) \/ UpdateNotice(i)
  BY <1>4 DEF Merge, Emit, UpdateNotice
<1> QED BY <1>2, <1>3, <1>4 DEF Ingestion

\* What a drain is about to tell is of the notice it works on.
Answering ==
  \A d \in Drains :
    answer[d] # NoAnswer =>
      /\ pc[d] = "dispatch" /\ hand[d] \in Notices
      /\ answer[d].says \in {"started", "failed"}

\* A step of the journal that leaves a drain at its dispatch leaves it the
\* operation.
LEMMA DispatchStays ==
  ASSUME Types, JournalStep, NEW d \in Drains,
         pc[d] = "dispatch", pc'[d] = "dispatch"
  PROVE  hand'[d] = hand[d]
<1> USE DEF Types, drainVars
<1>1. ASSUME NEW e \in Drains, e # d,
             \/ StartDrain(e) \/ Claim(e) \/ Faults(e)
             \/ \E o \in Ops : Reconcile(e, o) \/ MarkRunning(e, o)
             \/ RecordFailure(e) \/ RecordSuccess(e) \/ RecordEffect(e)
      PROVE  hand'[d] = hand[d]
  <2>1. CASE Leave(e) \/ NextOperation(e) \/ UNCHANGED hand
    BY <1>1, <2>1 DEF Leave, NextOperation
  <2>2. CASE \E o \in Ops : MarkRunning(e, o)
    BY <1>1, <2>2 DEF MarkRunning
  <2> QED BY <1>1, <2>1, <2>2
          DEF StartDrain, Claim, Faults, Reconcile, RecordFailure,
              RecordSuccess, RecordEffect, Crash, SuccessRaises, EffectRaises,
              CallRaises
<1>2. CASE \/ StartDrain(d) \/ Claim(d) \/ Faults(d)
           \/ \E o \in Ops : Reconcile(d, o) \/ MarkRunning(d, o)
           \/ RecordFailure(d) \/ RecordSuccess(d) \/ RecordEffect(d)
  BY <1>2 DEF StartDrain, Claim, Faults, Reconcile, MarkRunning, RecordFailure,
              RecordSuccess, RecordEffect, Crash, SuccessRaises, EffectRaises,
              CallRaises, Leave
<1>3. CASE \E o \in Ops : BecomesDue(o)
  BY <1>3 DEF BecomesDue
<1> QED BY <1>1, <1>2, <1>3 DEF JournalStep

\* A drain keeps what it is about to tell until it has told it or died, and
\* nobody changes what its notice waits for.
LEMMA AnswerStays ==
  ASSUME FInv, Answering, [FeedbackNext]_allVars, NEW d \in Drains,
         answer[d] # NoAnswer, answer'[d] # NoAnswer
  PROVE  /\ answer'[d] = answer[d] /\ pc'[d] = "dispatch"
         /\ hand'[d] = hand[d] /\ depends'[hand[d]] = depends[hand[d]]
<1> USE FeedbackAssumption DEF FInv, Typed, FeedbackTypeOK, TypeOK, Types
<1>1. pc[d] = "dispatch" /\ hand[d] \in Notices /\ state[hand[d]] = "running"
  BY NoticeHeld DEF Answering
<1>2. ASSUME NEW i \in Items, Ingestion(i)
      PROVE  /\ answer' = answer /\ UNCHANGED <<pc, hand>>
             /\ depends'[hand[d]] = depends[hand[d]]
  <2>1. answer' = answer /\ UNCHANGED <<pc, hand>>
    BY <1>2, IngestionLeavesDrains DEF Ingestion
  <2>2. CASE CreateNotice(i)
    BY <1>1, <2>1, <2>2 DEF CreateNotice, CreateOperation
  <2>3. CASE UpdateNotice(i)
    BY <1>1, <2>1, <2>3 DEF UpdateNotice
  <2>4. CASE UNCHANGED depends
    BY <2>1, <2>4
  <2> QED BY <1>2, <2>1, <2>2, <2>3, <2>4
          DEF Ingestion, Ingest, Merge, CreateAgain, Emit
<1>3. ASSUME NEW e \in Drains,
             DispatchTurn(e) \/ ResolveNotice(e) \/ SendNotice(e)
      PROVE  /\ answer'[d] = answer[d] /\ pc'[d] = "dispatch"
             /\ UNCHANGED <<hand, depends>>
  <2>1. UNCHANGED <<hand, depends>>
    BY <1>3, DispatchSlots
    DEF DispatchTurn, ResolveNotice, SendNotice, DispatchReturns,
        DispatchRaises, Raise, vars, drainVars
  <2>2. e # d
    BY <1>1, <1>3 DEF DispatchTurn, ResolveNotice, SendNotice, Notices
  <2>3. answer'[d] = answer[d]
    BY <1>3, <2>2 DEF DispatchTurn, ResolveNotice, SendNotice
  <2>4. pc'[d] = pc[d]
    BY <1>3, <2>2
    DEF DispatchTurn, ResolveNotice, SendNotice, DispatchReturns,
        DispatchRaises, Raise, vars, drainVars
  <2> QED BY <1>1, <2>1, <2>3, <2>4
<1>4. CASE JournalStep
  <2>1. /\ pc'[d] = "dispatch" /\ answer'[d] = answer[d]
        /\ UNCHANGED depends
    BY <1>4 DEF JournalStep, feedbackVars
  <2> QED BY <1>1, <1>4, <2>1, DispatchStays
<1>5. CASE (\E t \in Turns : RunTurn(t)) \/ UNCHANGED allVars
  BY <1>1, <1>5 DEF RunTurn, allVars, feedbackVars, vars, drainVars
<1> QED BY <1>1, <1>2, <1>3, <1>4, <1>5 DEF FeedbackNext

LEMMA NewAnswer ==
  ASSUME FInv, [FeedbackNext]_allVars, NEW d \in Drains,
         answer[d] = NoAnswer, answer'[d] # NoAnswer
  PROVE  ResolveNotice(d)
<1> USE DEF FInv, Typed, FeedbackTypeOK
<1>1. CASE \E i \in Items : Ingestion(i)
  BY <1>1 DEF Ingestion
<1>2. ASSUME NEW e \in Drains, DispatchTurn(e) \/ SendNotice(e) PROVE FALSE
  BY <1>2 DEF DispatchTurn, SendNotice
<1>3. ASSUME NEW e \in Drains, ResolveNotice(e) PROVE e = d
  BY <1>3 DEF ResolveNotice
<1>4. CASE \E t \in Turns : RunTurn(t)
  BY <1>4 DEF RunTurn
<1>5. CASE JournalStep
  BY <1>5 DEF JournalStep
<1>6. CASE UNCHANGED allVars
  BY <1>6 DEF allVars
<1> QED BY <1>1, <1>2, <1>3, <1>4, <1>5, <1>6 DEF FeedbackNext

LEMMA AnsweringStep ==
  ASSUME FInv, FInv', Answering, [FeedbackNext]_allVars PROVE Answering'
<1> SUFFICES ASSUME NEW d \in Drains, answer'[d] # NoAnswer
             PROVE  /\ pc'[d] = "dispatch" /\ hand'[d] \in Notices
                    /\ answer'[d].says \in {"started", "failed"}
  BY DEF Answering
<1>1. CASE answer[d] # NoAnswer
  BY <1>1, AnswerStays DEF Answering
<1>2. CASE answer[d] = NoAnswer
  <2>1. ResolveNotice(d)
    BY <1>2, NewAnswer
  <2>2. /\ pc[d] = "dispatch" /\ hand[d] \in Notices
        /\ \E says \in Answers(depends[hand[d]]) :
             /\ says # "wait" /\ answer'[d].says = says
             /\ UNCHANGED vars
    BY <1>2, <2>1 DEF ResolveNotice, FInv, Typed, FeedbackTypeOK
  <2> QED BY <2>2, AnswersTyped DEF vars, drainVars
<1> QED BY <1>1, <1>2

LEMMA AnsweringAlways == FeedbackSpec => []Answering
<1>1. FeedbackInit => Answering
  BY DEF FeedbackInit, Answering
<1>2. FInv /\ FInv' /\ Answering /\ [FeedbackNext]_allVars => Answering'
  BY AnsweringStep
<1> QED BY <1>1, <1>2, FInvAlways, PTL DEF FeedbackSpec

LEMMA QuietStep ==
  ASSUME FInv, Answering, Quiet, [FeedbackNext]_allVars PROVE Quiet'
<1> USE FeedbackAssumption DEF FInv, Typed, FeedbackTypeOK, TypeOK, Types
<1>1. SUFFICES ASSUME faults' = 0
               PROVE  /\ \A t \in Turns : turn'[t] # "none" => returned'[t] = 1
                      /\ \A o \in Ops : state'[o] # "effect_applied"
                      /\ \A d \in Drains : pc'[d] # "effect"
  BY DEF Quiet
<1>2. faults = 0
  BY <1>1, FeedbackMoves, FaultsGrow
<1>3. ASSUME NEW i \in Items, Ingestion(i) PROVE Quiet'
  BY <1>2, <1>3, IngestionLeavesDrains DEF Quiet
<1>4. ASSUME NEW d \in Drains, DispatchTurn(d) PROVE Quiet'
  <2>1. state' = state /\ hand[d] \in Turns
    BY <1>4, DispatchSlots DEF DispatchTurn
  <2>2. CASE DispatchReturns(d) /\ EnqueueTurn(hand[d])
    <3>1. returned[hand[d]] = 0
      BY <2>2 DEF DispatchReturns, IInv, Drainers, DrainOK
    <3> QED BY <1>2, <2>1, <2>2, <3>1
            DEF DispatchReturns, EnqueueTurn, Quiet
  <2>3. CASE /\ \E error \in {"plain", "terminal"} : DispatchRaises(d, error)
             /\ UNCHANGED <<turn, given, raced>>
    BY <1>2, <2>1, <2>3 DEF DispatchRaises, Raise, Quiet
  <2>4. CASE faults' = faults + 1
    BY <1>1, <1>2, <2>4
  <2> QED BY <1>4, <2>2, <2>3, <2>4 DEF DispatchTurn
<1>5. ASSUME NEW d \in Drains, ResolveNotice(d) \/ SendNotice(d)
      PROVE  Quiet'
  <2>1. UNCHANGED state
    BY <1>5, DispatchSlots
  <2>2. /\ UNCHANGED turn
        /\ \A e \in Drains : pc'[e] \in {pc[e], "succeed", "fail"}
        /\ \A t \in Turns : returned'[t] = returned[t]
    BY <1>5, NoticeMoves DEF Answering, SendNotice
  <2> QED BY <1>2, <2>1, <2>2 DEF Quiet
<1>6. ASSUME NEW t \in Turns, RunTurn(t) PROVE Quiet'
  BY <1>2, <1>6 DEF RunTurn, Quiet, vars, opVars, drainVars
<1>7. CASE JournalStep
  BY <1>1, <1>2, <1>7, QuietJournal, SlotsStay DEF Quiet, feedbackVars
<1>8. CASE UNCHANGED allVars
  BY <1>2, <1>8 DEF allVars, feedbackVars, vars, opVars, drainVars, Quiet
<1> QED
  BY <1>1, <1>3, <1>4, <1>5, <1>6, <1>7, <1>8 DEF FeedbackNext, Quiet

LEMMA QuietAlways == FeedbackSpec => []Quiet
<1>1. FeedbackInit => Quiet
  BY DEF FeedbackInit, Init, Quiet
<1> QED BY <1>1, FInvAlways, AnsweringAlways, QuietStep, PTL DEF FeedbackSpec

\* What a drain is about to tell is so, or was when it looked.
Heard ==
  /\ \A t \in Turns : returned[t] # 0 => turn[t] # "none"
  /\ \A d \in Drains :
       answer[d] # NoAnswer =>
         LET t == depends[hand[d]] IN
         /\ answer[d].says = "started" => turn[t] = "started"
         /\ answer[d].says = "failed" =>
              \/ answer[d].turn = "queued"
              \/ turn[t] = "ended"
              \/ answer[d].state = "failed" /\ state[t] = "failed"
              \/ answer[d].state = "effect_applied" /\ faults > 0

\* A turn that was created goes on, and an operation that failed stays failed.
LEMMA TurnsGoOn ==
  ASSUME FInv, Answering, [FeedbackNext]_allVars, NEW t \in Turns
  PROVE  /\ turn[t] \in {"started", "ended"} => turn'[t] = turn[t]
         /\ turn'[t] = "none" => turn[t] = "none"
         /\ state[t] = "failed" => state'[t] = "failed"
         /\ \/ returned'[t] = returned[t]
            \/ turn'[t] # "none"
<1> USE FeedbackAssumption DEF FInv, Typed, FeedbackTypeOK, TypeOK, Types
<1>1. ASSUME NEW i \in Items, Ingestion(i)
      PROVE  /\ UNCHANGED <<turn, returned>>
             /\ state[t] = "failed" => state'[t] = "failed"
  <2>1. UNCHANGED <<turn, returned>>
    BY <1>1, IngestionLeavesDrains
  <2>2. ASSUME NEW o, CreateOperation(o)
        PROVE  state[t] = "failed" => state'[t] = "failed"
    BY <2>2 DEF CreateOperation
  <2>3. \/ \E o \in Ops : CreateOperation(o)
        \/ UNCHANGED state
    BY <1>1 DEF Ingestion, Ingest, CreateAgain, CreateTurn, CreateNotice, Merge,
                Emit, UpdateNotice, Notices, vars, opVars
  <2> QED BY <2>1, <2>2, <2>3
<1>2. ASSUME NEW d \in Drains, DispatchTurn(d)
      PROVE  /\ turn[t] \in {"started", "ended"} => turn'[t] = turn[t]
             /\ turn'[t] = "none" => turn[t] = "none"
             /\ UNCHANGED state
             /\ returned'[t] = returned[t] \/ turn'[t] # "none"
  <2>1. UNCHANGED state /\ hand[d] \in Turns
    BY <1>2, DispatchSlots DEF DispatchTurn
  <2>2. CASE EnqueueTurn(hand[d])
    <3>1. /\ turn'[hand[d]] # "none"
          /\ turn[t] # "none" => turn'[t] = turn[t]
          /\ turn'[t] = "none" => turn[t] = "none"
      BY <2>1, <2>2 DEF EnqueueTurn
    <3>2. t # hand[d] => returned'[t] = returned[t]
      BY <1>2 DEF DispatchTurn, DispatchReturns, DispatchRaises, Raise
    <3> QED BY <2>1, <3>1, <3>2
  <2>3. CASE /\ \E error \in {"plain", "terminal"} : DispatchRaises(d, error)
             /\ UNCHANGED <<turn, given, raced>>
    BY <2>1, <2>3 DEF DispatchRaises, Raise
  <2> QED BY <1>2, <2>2, <2>3 DEF DispatchTurn
<1>3. ASSUME NEW d \in Drains, ResolveNotice(d) \/ SendNotice(d)
      PROVE  UNCHANGED <<turn, state>> /\ returned'[t] = returned[t]
  BY <1>3, NoticeMoves, DispatchSlots DEF Answering, SendNotice
<1>4. ASSUME NEW u \in Turns, RunTurn(u)
      PROVE  /\ turn[t] \in {"started", "ended"} => turn'[t] = turn[t]
             /\ turn'[t] = "none" => turn[t] = "none"
             /\ UNCHANGED <<state, returned>>
  BY <1>4 DEF RunTurn, vars, opVars
<1>5. CASE JournalStep
  BY <1>5, SlotsStay DEF SameSlot, feedbackVars
<1>6. CASE UNCHANGED allVars
  BY <1>6 DEF allVars, feedbackVars, vars, opVars
<1> QED BY <1>1, <1>2, <1>3, <1>4, <1>5, <1>6 DEF FeedbackNext

LEMMA HeardStep ==
  ASSUME FInv, FInv', Answering, Quiet, Heard, [FeedbackNext]_allVars
  PROVE  Heard'
<1> USE FeedbackAssumption DEF FInv, Typed, FeedbackTypeOK, TypeOK, Types
<1>1. \A t \in Turns : returned'[t] # 0 => turn'[t] # "none"
  BY TurnsGoOn DEF Heard
<1>2. faults > 0 => faults' > 0
  BY FeedbackMoves, FaultsGrow, JournalAssumption
<1>3. ASSUME NEW d \in Drains, answer'[d] # NoAnswer
      PROVE  LET t == depends'[hand'[d]] IN
             /\ answer'[d].says = "started" => turn'[t] = "started"
             /\ answer'[d].says = "failed" =>
                  \/ answer'[d].turn = "queued"
                  \/ turn'[t] = "ended"
                  \/ answer'[d].state = "failed" /\ state'[t] = "failed"
                  \/ answer'[d].state = "effect_applied" /\ faults' > 0
  <2> DEFINE t == depends[hand[d]]
  <2>1. CASE answer[d] # NoAnswer
    <3>1. /\ answer'[d] = answer[d]
          /\ depends'[hand'[d]] = t
      BY <1>3, <2>1, AnswerStays
    <3>2. t \in Turns
      BY <2>1, NoticeHeld DEF Answering, Created
    <3>3. /\ turn[t] \in {"started", "ended"} => turn'[t] = turn[t]
          /\ state[t] = "failed" => state'[t] = "failed"
      BY <3>2, TurnsGoOn
    <3> HIDE DEF t
    <3> QED BY <1>2, <2>1, <3>1, <3>3 DEF Heard, t
  <2>2. CASE answer[d] = NoAnswer
    <3>1. ResolveNotice(d)
      BY <1>3, <2>2, NewAnswer
    <3>2. PICK says \in Answers(t) :
            /\ answer' = [answer EXCEPT ![d] =
                 [says |-> says, state |-> state[t], turn |-> turn[t]]]
            /\ UNCHANGED <<vars, feedbackVars>>
      BY <1>3, <2>2, <3>1 DEF ResolveNotice
    <3>3. t \in Turns /\ state[t] # "absent"
      BY <3>1, NoticeHeld DEF ResolveNotice, Created
    <3>4. /\ depends'[hand'[d]] = t
          /\ turn' = turn /\ state' = state /\ faults' = faults
      BY <3>2 DEF vars, opVars, drainVars, feedbackVars
    <3>5. answer'[d] = [says |-> says, state |-> state[t], turn |-> turn[t]]
      BY <3>2
    <3>6. says = "started" => turn[t] = "started"
      BY <3>2 DEF Answers
    <3>7. state[t] = "effect_applied" => faults > 0
      BY <3>3, JournalAssumption DEF Quiet
    <3>8. state[t] = "succeeded" => turn[t] # "none"
      BY <3>3 DEF Heard, IInv, Operations, OpOK
    <3>9. says = "failed" =>
            \/ turn[t] = "queued" \/ turn[t] = "ended"
            \/ state[t] = "failed" \/ state[t] = "effect_applied"
      BY <3>2, <3>3, <3>8 DEF Answers, States
    <3> HIDE DEF t
    <3> QED BY <3>4, <3>5, <3>6, <3>7, <3>9
  <2> QED BY <2>1, <2>2
<1> QED BY <1>1, <1>3 DEF Heard

LEMMA HeardAlways == FeedbackSpec => []Heard
<1>1. FeedbackInit => Heard
  BY FeedbackAssumption DEF FeedbackInit, Init, Heard
<1>2. FInv /\ FInv' /\ Answering /\ Quiet /\ Heard /\ [FeedbackNext]_allVars
        => Heard'
  BY HeardStep
<1> QED
  BY <1>1, <1>2, FInvAlways, AnsweringAlways, QuietAlways, PTL DEF FeedbackSpec

\* One notice, one step: what it tells the chat is so, or was when the drain
\* looked.
LEMMA TellsTruth ==
  ASSUME FInv, Answering, Quiet, Heard, [FeedbackNext]_allVars,
         NEW n \in Notices, told'[n] # told[n]
  PROVE  IF told'[n] = "started"
         THEN turn[depends[n]] = "started"
         ELSE turn[depends[n]] = "started" =>
                \E d \in Drains :
                  /\ hand[d] = n
                  /\ \/ answer[d].turn = "queued"
                     \/ /\ answer[d].state \in {"failed", "effect_applied"}
                        /\ faults > 0
<1> USE DEF FInv, Typed, FeedbackTypeOK, TypeOK, Types
<1>1. PICK d \in Drains : SendNotice(d)
  <2>1. CASE UNCHANGED told
    BY <2>1
  <2>2. \A i \in Items : Ingestion(i) => UNCHANGED told
    BY IngestionLeavesDrains
  <2>3. \A d \in Drains : DispatchTurn(d) \/ ResolveNotice(d) => UNCHANGED told
    BY DEF DispatchTurn, ResolveNotice, feedbackVars
  <2>4. \A t \in Turns : RunTurn(t) => UNCHANGED told
    BY DEF RunTurn
  <2>5. JournalStep \/ UNCHANGED allVars => UNCHANGED told
    BY DEF JournalStep, feedbackVars, allVars
  <2> QED BY <2>1, <2>2, <2>3, <2>4, <2>5 DEF FeedbackNext
<1>2. /\ answer[d] # NoAnswer
      /\ told' = [told EXCEPT ![hand[d]] = answer[d].says]
  BY <1>1 DEF SendNotice
<1>3. hand[d] = n /\ told'[n] = answer[d].says
  BY <1>2
<1> DEFINE t == depends[n]
<1>4. t \in Turns /\ t \in Ops
  BY <1>2, <1>3, NoticeHeld, FeedbackAssumption DEF Answering, Created
<1>5. answer[d].says \in {"started", "failed"}
  BY <1>2 DEF Answering
<1>6. CASE answer[d].says = "started"
  BY <1>2, <1>3, <1>6 DEF Heard
<1>7. CASE answer[d].says = "failed"
  <2> SUFFICES ASSUME turn[t] = "started"
               PROVE  \/ answer[d].turn = "queued"
                      \/ /\ answer[d].state \in {"failed", "effect_applied"}
                         /\ faults > 0
    BY <1>3, <1>7
  <2>1. turn[t] # "none"
    OBVIOUS
  <2>2. ASSUME state[t] = "failed" PROVE faults > 0
    <3>1. returned[t] = 0
      BY <1>4, <2>2 DEF IInv, Operations, OpOK
    <3>2. faults # 0
      <4> HIDE DEF FInv, Typed, FeedbackTypeOK, TypeOK, Types
      <4> QED BY <1>4, <2>1, <3>1 DEF Quiet
    <3> QED BY <3>2, JournalAssumption
  <2> QED BY <1>2, <1>3, <1>7, <2>2 DEF Heard
<1> QED BY <1>5, <1>6, <1>7

\* notify_chat says that a turn has started only when it has.  It says that it
\* has not, of one that has by then, only when the turn started after the
\* executor looked at it, or when a call of the journal failed and the turn's
\* operation does not stand as succeeded.
THEOREM NoticesTrueAlways == FeedbackSpec => NoticesTrue
<1>1. FInv /\ Answering /\ Quiet /\ Heard /\ [FeedbackNext]_allVars =>
        [\A n \in Notices :
           told'[n] # told[n] =>
             IF told'[n] = "started"
             THEN turn[depends[n]] = "started"
             ELSE turn[depends[n]] = "started" =>
                    \E d \in Drains :
                      /\ hand[d] = n
                      /\ \/ answer[d].turn = "queued"
                         \/ /\ answer[d].state \in {"failed", "effect_applied"}
                            /\ faults > 0]_allVars
  BY TellsTruth
<1> QED
  BY <1>1, FInvAlways, AnsweringAlways, QuietAlways, HeardAlways, PTL
  DEF FeedbackSpec, NoticesTrue

\* While no write fails, one turn at most answers the comments of a batch.
OneTurn ==
  faults = 0 =>
    \A t, u \in Turns : turn[t] # "none" /\ turn[u] # "none" => t = u

\* The key of enqueue_managed_turn stands for one managed turn, however often
\* its operation is retried or created again.
THEOREM OneTurnAlways == FeedbackSpec => []OneTurn
<1>1. FInv /\ Quiet => OneTurn
  <2> SUFFICES ASSUME FInv, Quiet, faults = 0, NEW t \in Turns, NEW u \in Turns,
                      turn[t] # "none", turn[u] # "none", t # u
               PROVE  FALSE
    BY DEF OneTurn
  <2>1. returned[t] = 1 /\ returned[u] = 1
    BY DEF Quiet
  <2>2. t \in Ops /\ u \in Ops /\ KeyOf[t] = KeyOf[u]
    BY FeedbackAssumption
  <2>3. NoReplay
    BY IInvSafe DEF FInv
  <2> QED BY <2>1, <2>2, <2>3 DEF NoReplay
<1> QED BY <1>1, FInvAlways, QuietAlways, PTL

-----------------------------------------------------------------------------
(* Comments *)

Settled == {"emit", "notice", "renotice", "done"}
Carrying == {"pending", "running", "failed"}

\* A comment nobody raced for is carried from the call that placed it on; it
\* is emitted after that; and a dispatch that returned has put the whole bundle
\* into the turn.
Kept ==
  /\ \A i \in Items \ raced : step[i] \in Settled => Carried(i)
  /\ \A i \in emitted : step[i] \in {"notice", "renotice", "done"}
  /\ \A t \in Turns : turn[t] = "none" => given[t] = {}
  /\ \A t \in Turns : returned[t] = 1 => bundle[t] \ raced \subseteq given[t]

\* What no step may do to the comments that stay out of races.
Spared ==
  /\ raced \subseteq raced'
  /\ \A t \in Turns : given[t] \subseteq given'[t]
  /\ \A t \in Turns : state[t] # "absent" => bundle[t] \ raced' \subseteq bundle'[t]
  /\ \A t \in Turns : state[t] \in Carrying =>
       state'[t] \in Carrying \/ bundle[t] \ raced' \subseteq given'[t]

LEMMA CarriedKept ==
  ASSUME Spared, NEW i \in Items \ raced', Carried(i) PROVE Carried(i)'
<1>1. PICK t \in Turns : \/ i \in given[t]
                         \/ i \in bundle[t] /\ state[t] \in Carrying
  BY DEF Carried, Carrying
<1> QED BY <1>1 DEF Carried, Spared, Carrying

\* No comment is newly settled by the step.
LEMMA SettledKept ==
  ASSUME Kept, Spared,
         \A i \in Items : step'[i] \in Settled => step[i] \in Settled
  PROVE  \A i \in Items \ raced' : step'[i] \in Settled => Carried(i)'
BY CarriedKept DEF Kept, Spared

\* A dispatch takes up an operation that has not returned.
LEMMA DispatchFresh ==
  ASSUME IInv, NEW d \in Drains, pc[d] = "dispatch"
  PROVE  hand[d] \in Ops /\ returned[hand[d]] = 0
BY DEF IInv, Drainers, DrainOK, Busy

LEMMA DispatchTurnKeeps ==
  ASSUME FInv, Kept, NEW d \in Drains, DispatchTurn(d) PROVE Kept'
<1> USE FeedbackAssumption DEF FInv, Typed, FeedbackTypeOK, TypeOK, Types
<1> DEFINE h == hand[d]
<1>1. /\ h \in Turns /\ pc[d] = "dispatch"
      /\ UNCHANGED <<state, bundle, step, emitted>>
  BY DispatchSlots DEF DispatchTurn, DispatchReturns, DispatchRaises, Raise
<1>2. returned[h] = 0
  BY <1>1, DispatchFresh
<1>3. EnqueueTurn(h) \/ UNCHANGED <<turn, given, raced>>
  BY DEF DispatchTurn
<1>4. ASSUME EnqueueTurn(h)
      PROVE  /\ raced \subseteq raced'
             /\ \A t \in Turns : given[t] \subseteq given'[t]
             /\ \A t \in Turns : turn'[t] = "none" => given'[t] = {}
             /\ bundle[h] \ raced' \subseteq given'[h]
  <2>1. CASE turn[h] = "none"
    <3>1. /\ turn' = [turn EXCEPT ![h] = "queued"]
          /\ given' = [given EXCEPT ![h] = bundle[h]] /\ raced' = raced
      BY <1>4, <2>1 DEF EnqueueTurn
    <3>2. given[h] = {}
      BY <1>1, <2>1 DEF Kept
    <3> QED BY <1>1, <3>1, <3>2 DEF Kept
  <2>2. CASE turn[h] # "none"
    <3>1. /\ raced' = raced \cup (bundle[h] \ given[h])
          /\ UNCHANGED <<turn, given>>
      BY <1>4, <2>2 DEF EnqueueTurn
    <3> QED BY <1>1, <3>1 DEF Kept
  <2> QED BY <2>1, <2>2
<1>5. /\ raced \subseteq raced'
      /\ \A t \in Turns : given[t] \subseteq given'[t]
      /\ \A t \in Turns : turn'[t] = "none" => given'[t] = {}
  BY <1>3, <1>4 DEF Kept
<1>6. Spared
  BY <1>1, <1>5 DEF Spared
<1>7. \A t \in Turns : returned'[t] = 1 => bundle'[t] \ raced' \subseteq given'[t]
  <2>1. ASSUME NEW t \in Turns, t # h, returned'[t] = 1
        PROVE  bundle'[t] \ raced' \subseteq given'[t]
    <3>1. returned'[t] = returned[t]
      BY <2>1 DEF DispatchTurn, DispatchReturns, DispatchRaises, Raise
    <3> QED BY <1>1, <1>5, <2>1, <3>1 DEF Kept
  <2>2. ASSUME returned'[h] = 1 PROVE EnqueueTurn(h)
    BY <1>2, <2>2 DEF DispatchTurn, DispatchRaises, Raise
  <2> QED BY <1>1, <1>4, <2>1, <2>2
<1> QED BY <1>1, <1>5, <1>6, <1>7, SettledKept DEF Kept

LEMMA CreateTurnKeeps ==
  ASSUME FInv, Kept, NEW i \in Items, NEW S \in SUBSET Items, i \in S,
         step[i] \in {"create", "again"}, CreateTurn(i, S),
         UNCHANGED <<emitted, turn, given>>
  PROVE  Kept'
<1> USE FeedbackAssumption DEF FInv, Typed, FeedbackTypeOK, TypeOK, Types, Goto
<1>1. i \notin emitted
  BY DEF Kept
<1>2. ASSUME NEW t \in Turns, CreateOperation(t),
             bundle' = [bundle EXCEPT ![t] = S], Goto(i, "emit"),
             UNCHANGED raced
      PROVE  Kept'
  <2>1. /\ state[t] = "absent" /\ state'[t] = "pending" /\ bundle'[t] = S
        /\ \A u \in Turns \ {t} : state'[u] = state[u] /\ bundle'[u] = bundle[u]
        /\ UNCHANGED returned
    BY <1>2 DEF CreateOperation
  <2>2. returned[t] = 0
    BY <2>1 DEF IInv, Operations, OpOK
  <2>3. Spared
    BY <1>2, <2>1 DEF Spared, Carrying
  <2>4. Carried(i)'
    BY <2>1 DEF Carried
  <2>5. \A j \in Items \ {i} : step'[j] = step[j]
    BY <1>2
  <2>6. \A j \in Items \ raced' : step'[j] \in Settled => Carried(j)'
    BY <1>2, <2>3, <2>4, <2>5, CarriedKept DEF Kept
  <2> QED BY <1>1, <1>2, <2>1, <2>2, <2>5, <2>6 DEF Kept
<1>3. ASSUME UNCHANGED <<vars, bundle>>,
             \/ Goto(i, "merge") /\ UNCHANGED raced
             \/ Goto(i, "emit") /\ raced' = raced \cup {i}
      PROVE  Kept'
  <2>1. Spared /\ UNCHANGED <<state, returned, bundle>>
    BY <1>3 DEF Spared, vars, opVars
  <2>2. \A j \in Items \ {i} : step'[j] = step[j]
    BY <1>3
  <2>3. i \notin raced' => step'[i] \notin Settled
    BY <1>3 DEF Settled
  <2>4. ASSUME NEW j \in Items \ raced', step'[j] \in Settled
        PROVE  Carried(j)'
    <3>1. j # i /\ step[j] \in Settled
      BY <2>2, <2>3, <2>4
    <3>2. j \notin raced
      BY <2>1 DEF Spared
    <3>3. Carried(j)
      BY <3>1, <3>2 DEF Kept
    <3> QED BY <2>1, <3>3, CarriedKept
  <2> QED BY <1>1, <2>1, <2>2, <2>4 DEF Kept, Spared
<1> QED BY <1>2, <1>3 DEF CreateTurn

LEMMA MergeKeeps ==
  ASSUME FInv, Kept, NEW i \in Items, Merge(i) PROVE Kept'
<1> USE FeedbackAssumption DEF FInv, Typed, FeedbackTypeOK, TypeOK, Types, Goto
<1> DEFINE t == target[i]
<1>1. /\ t \in Turns /\ i \notin emitted
      /\ UNCHANGED <<state, returned, turn, given, emitted>>
  BY DEF Merge, Targets, Created, Kept
<1>2. CASE state[t] = "pending"
  <2>1. /\ bundle' = [bundle EXCEPT ![t] = copy[i] \cup {i}]
        /\ raced' = raced \cup (bundle[t] \ copy[i])
        /\ step' = [step EXCEPT ![i] = "emit"]
    BY <1>2 DEF Merge
  <2>2. Spared
    BY <1>1, <2>1 DEF Spared
  <2>3. Carried(i)'
    BY <1>1, <1>2, <2>1 DEF Carried
  <2>4. \A j \in Items \ raced' : step'[j] \in Settled => Carried(j)'
    BY <2>1, <2>2, <2>3, CarriedKept DEF Kept
  <2>5. returned[t] = 0
    BY <1>1, <1>2 DEF IInv, Operations, OpOK
  <2>6. \A u \in Turns : returned'[u] = 1 => bundle'[u] \ raced' \subseteq given'[u]
    BY <1>1, <2>1, <2>5 DEF Kept
  <2> QED BY <1>1, <2>1, <2>4, <2>6 DEF Kept
<1>3. CASE state[t] # "pending"
  <2>1. step' = [step EXCEPT ![i] = "again"] /\ UNCHANGED <<bundle, raced>>
    BY <1>3 DEF Merge
  <2>2. Spared
    BY <1>1, <2>1 DEF Spared
  <2>3. \A j \in Items : step'[j] \in Settled => step[j] \in Settled
    BY <2>1 DEF Settled
  <2> QED BY <1>1, <2>1, <2>2, <2>3, SettledKept DEF Kept
<1> QED BY <1>2, <1>3

\* The rest of an ingestion moves only the comment on.
LEMMA NoticeKeeps ==
  ASSUME FInv, Kept, NEW i \in Items,
         Emit(i) \/ CreateNotice(i) \/ UpdateNotice(i)
  PROVE  Kept'
<1> USE FeedbackAssumption DEF FInv, Typed, FeedbackTypeOK, TypeOK, Types, Goto
<1>1. UNCHANGED <<bundle, turn, given, raced, returned>>
  <2>1. \A n : CreateOperation(n) => UNCHANGED returned
    BY DEF CreateOperation
  <2> QED BY <2>1 DEF Emit, CreateNotice, UpdateNotice, vars
<1>2. \A t \in Turns : state'[t] = state[t]
  BY DEF Emit, CreateNotice, UpdateNotice, CreateOperation, Notices, vars, opVars
<1>3. Spared
  BY <1>1, <1>2 DEF Spared
<1>4. PICK s \in {"notice", "renotice", "done"} :
        /\ step' = [step EXCEPT ![i] = s]
        /\ step[i] \in Settled
  BY DEF Emit, CreateNotice, UpdateNotice, Settled
<1>5. emitted' \subseteq emitted \cup {i}
  BY DEF Emit, CreateNotice, UpdateNotice
<1>6. \A j \in Items \ raced' : step'[j] \in Settled => Carried(j)'
  BY <1>3, <1>4, SettledKept
<1> QED BY <1>1, <1>4, <1>5, <1>6 DEF Kept

LEMMA IngestionKeeps ==
  ASSUME FInv, Kept, NEW i \in Items, Ingestion(i) PROVE Kept'
<1>1. CASE Ingest(i)
  <2>1. /\ step[i] = "create" /\ CreateTurn(i, {i})
        /\ UNCHANGED <<emitted, turn, given>>
    BY <1>1 DEF Ingest
  <2>2. {i} \in SUBSET Items
    OBVIOUS
  <2> QED BY <2>1, <2>2, CreateTurnKeeps
<1>2. CASE CreateAgain(i)
  <2>1. /\ step[i] = "again" /\ CreateTurn(i, copy[i] \cup {i})
        /\ UNCHANGED <<emitted, turn, given>>
    BY <1>2 DEF CreateAgain
  <2>2. copy[i] \cup {i} \in SUBSET Items
    BY DEF FInv, Typed, FeedbackTypeOK
  <2> QED BY <2>1, <2>2, CreateTurnKeeps
<1> QED BY <1>1, <1>2, MergeKeeps, NoticeKeeps DEF Ingestion

LEMMA KeptStep ==
  ASSUME FInv, FInv', Answering, Kept, [FeedbackNext]_allVars PROVE Kept'
<1>1. ASSUME NEW i \in Items, Ingestion(i) PROVE Kept'
  BY <1>1, IngestionKeeps
<1> USE FeedbackAssumption DEF FInv, Typed, FeedbackTypeOK, TypeOK, Types
<1>2. ASSUME NEW d \in Drains, DispatchTurn(d) PROVE Kept'
  BY <1>2, DispatchTurnKeeps
<1>3. ASSUME UNCHANGED <<bundle, step, emitted, given, raced>>,
             \A t \in Turns : turn'[t] = "none" => turn[t] = "none",
             \A t \in Turns : returned'[t] = returned[t],
             \A t \in Turns : state'[t] = "absent" => state[t] = "absent"
      PROVE  Kept'
  <2>1. ASSUME NEW t \in Turns, state[t] \in Carrying
        PROVE  state'[t] \in Carrying \/ bundle[t] \ raced' \subseteq given'[t]
    <3>1. CASE state'[t] \in {"succeeded", "effect_applied"}
      <4>1. returned'[t] = 1
        BY <3>1 DEF IInv, Operations, OpOK
      <4> QED BY <1>3, <4>1 DEF Kept
    <3>2. CASE state'[t] \notin {"succeeded", "effect_applied"}
      BY <1>3, <2>1, <3>2 DEF Carrying, States
    <3> QED BY <3>1, <3>2
  <2>2. Spared
    BY <1>3, <2>1 DEF Spared
  <2>3. \A j \in Items \ raced' : step'[j] \in Settled => Carried(j)'
    BY <1>3, <2>2, SettledKept
  <2> QED BY <1>3, <2>3 DEF Kept
<1>4. ASSUME NEW d \in Drains, ResolveNotice(d) \/ SendNotice(d)
      PROVE  Kept'
  <2>1. UNCHANGED <<state, bundle, step, emitted>>
    BY <1>4, DispatchSlots
  <2>2. /\ UNCHANGED <<turn, given, raced>>
        /\ \A t \in Turns : returned'[t] = returned[t]
    BY <1>4, NoticeMoves DEF Answering, SendNotice
  <2> QED BY <1>3, <2>1, <2>2
<1>5. ASSUME NEW t \in Turns, RunTurn(t) PROVE Kept'
  <2>1. /\ UNCHANGED <<state, returned, bundle, step, emitted, given, raced>>
        /\ \A u \in Turns : turn'[u] = "none" => turn[u] = "none"
    BY <1>5 DEF RunTurn, vars, opVars
  <2> QED BY <1>3, <2>1
<1>6. CASE JournalStep
  BY <1>3, <1>6, SlotsStay DEF feedbackVars, SameSlot
<1>7. CASE UNCHANGED allVars
  BY <1>3, <1>7 DEF allVars, feedbackVars, vars, opVars
<1> QED BY <1>1, <1>2, <1>4, <1>5, <1>6, <1>7 DEF FeedbackNext

LEMMA KeptAlways == FeedbackSpec => []Kept
<1>1. FeedbackInit => Kept
  BY DEF FeedbackInit, Init, Kept, Settled
<1>2. FInv /\ FInv' /\ Answering /\ Kept /\ [FeedbackNext]_allVars => Kept'
  BY KeptStep
<1> QED BY <1>1, <1>2, FInvAlways, AnsweringAlways, PTL DEF FeedbackSpec

\* A comment that was marked as emitted is lost only where another actor came
\* in its way: whatever raises, dies or is retried, it is in the turn, in an
\* operation that still may create one, or in one recorded as failed.
THEOREM KeptUnlessRacedAlways == FeedbackSpec => []KeptUnlessRaced
<1>1. FInv /\ Kept => KeptUnlessRaced
  BY DEF FInv, Typed, FeedbackTypeOK, Kept, KeptUnlessRaced, Settled
<1> QED BY <1>1, FInvAlways, KeptAlways, PTL
=============================================================================
