------------------------ MODULE FlowWorkers_proofs -------------------------
(***************************************************************************)
(* The reconcile lock excludes; a run has one worker process, which its    *)
(* user may stop; and nobody disturbs the replacement of a dead one: for   *)
(* any number of workers and reconcilers.                                  *)
(***************************************************************************)
EXTENDS FlowRecovery_proofs

\* Only the reconcilers touch the lock and what they remember.
LEMMA OthersLeaveRecons ==
  /\ \A w \in Workers : WorkerStep(w) \/ WorkerEvent(w) => UNCHANGED reconVars
  /\ ReaperNext \/ UserStep \/ StopAsk \/ ResumeRead \/ Supersede =>
       UNCHANGED reconVars
<1> USE DEF reconVars, notWorkers, notFaulty
<1>1. ASSUME NEW w \in Workers, WorkerStep(w) PROVE UNCHANGED reconVars
  BY <1>1
  DEF WorkerStep, Boot, Enter, ClearStop, Begin, Loop, StepBegins, Halt,
      WriteOutcome, SelfStop, SelfStopSet, SelfStopWrite, SelfKill,
      SelfStopDone, Cleanup
<1>2. ASSUME NEW w \in Workers, WorkerEvent(w) PROVE UNCHANGED reconVars
  BY <1>2
  DEF WorkerEvent, PreflightFails, RunFlowException, AgentActs, TurnEnds,
      TurnRaises, DieInBoot, WatchdogExit, CrashWorker
<1>3. ASSUME ReaperNext PROVE UNCHANGED reconVars
  BY <1>3 DEF ReaperNext, ReaperScan, ReaperSignal, ReaperKill
<1>4. ASSUME UserStep \/ StopAsk \/ ResumeRead \/ Supersede
      PROVE  UNCHANGED reconVars
  BY <1>4
  DEF UserStep, Ensure, StopRead, StopSet, StopWrite, StopKill, StopGrace,
      ResumeClear, ResumeWrite, ResumeRefused, StopAsk, ResumeRead, Supersede
<1> QED BY <1>1, <1>2, <1>3, <1>4

-----------------------------------------------------------------------------
LEMMA ReleaseKeepsLock ==
  ASSUME ReconsOK, LockHeld, NEW r \in Reconcilers, rpc[r] \in Inside,
         Release(r)
  PROVE  LockHeld'
<1>1. lock = r
  BY DEF LockHeld
<1>2. lock' = NoWorker /\ NoWorker \notin Reconcilers
  BY NoWorkerAssumption DEF Release
<1>3. ASSUME NEW q \in Reconcilers PROVE rpc'[q] \notin Inside
  BY <1>1 DEF Release, LockHeld, ReconsOK, Inside
<1> QED BY <1>2, <1>3 DEF LockHeld

LEMMA LockStep ==
  ASSUME TypeOK, LockHeld, [Next]_vars PROVE LockHeld'
<1> USE DEF TypeOK, ReconsOK
<1>1. CASE UNCHANGED reconVars
  BY <1>1 DEF LockHeld, reconVars
<1>2. ASSUME NEW r \in Reconcilers, ReconcilerNext(r) PROVE LockHeld'
  <2>1. CASE \/ StoreObservation(r) \/ BackoffWait(r) \/ ApplyTrigger(r)
             \/ Publish(r) \/ FailRun(r) \/ CrashReconciler(r)
    <3>1. Release(r) /\ rpc[r] \in Inside
      BY <2>1
      DEF StoreObservation, BackoffWait, ApplyTrigger, Publish, FailRun,
          CrashReconciler, Inside, ReconPC
    <3> QED BY <3>1, ReleaseKeepsLock
  <2>2. CASE Decide(r)
    BY <2>2, NoWorkerAssumption DEF Decide, LockFree, LockHeld, Inside, ReconPC
  <2>3. CASE List(r) \/ LockBusy(r)
    BY <2>3 DEF List, LockBusy, LockHeld, Inside
  <2>4. CASE \/ CountRestart(r) \/ SignalStale(r) \/ GraceOver(r)
             \/ Respawn(r) \/ RespawnFails(r) \/ Unstop(r)
    <3>1. lock' = lock /\ rpc[r] \in Inside
      BY <2>4
      DEF CountRestart, SignalStale, GraceOver, Respawn, RespawnFails, Unstop,
          Inside, ReconPC
    <3>2. PICK next \in Inside : rpc' = [rpc EXCEPT ![r] = next]
      BY <2>4
      DEF CountRestart, SignalStale, GraceOver, Respawn, RespawnFails, Unstop,
          Inside, ReconPC
    <3> QED BY <3>1, <3>2 DEF LockHeld
  <2> QED BY <1>2, <2>1, <2>2, <2>3, <2>4 DEF ReconcilerNext, ReconcileStep
<1>3. CASE UNCHANGED vars
  BY <1>1, <1>3 DEF vars, notWorkers, reconVars
<1> QED
  BY <1>1, <1>2, <1>3, OthersLeaveRecons DEF Next, UnattendedNext, UserStep

\* The lock of reconcile_flow_run admits one reconciler at a time, whichever
\* way each pass ends.
THEOREM LockSafe == Spec => []LockHeld
<1>1. Init => LockHeld
  BY NoWorkerAssumption DEF Init, LockHeld, Inside
<1> QED BY <1>1, TypeCorrect, LockStep, PTL DEF Spec

-----------------------------------------------------------------------------
\* What every step of a worker, and of the reaper, has in common: worker.json
\* stays, nobody comes alive, and a worker that waits for its own end waits for
\* its own.
Calm ==
  /\ UNCHANGED <<reconVars, upc, meta>>
  /\ \A v \in Workers : Alive(v)' => Alive(v)
  /\ \A v \in Workers : pc'[v] = "selfkill" => target'[v] = v
  /\ upc = "ensure" => row' = row

LEMMA CalmKeeps ==
  ASSUME TypeOK, WorkerKnown, Calm PROVE WorkerKnown'
<1> USE DEF Calm, reconVars, WorkerKnown
<1>1. LiveWorkers' \subseteq LiveWorkers
  BY DEF LiveWorkers
<1>2. KnownWorker'
  BY DEF KnownWorker
<1>3. StillDead'
  BY <1>1 DEF StillDead, Acting
<1>4. RestartPlanned'
  BY DEF RestartPlanned
<1>5. EnsureFirst'
  BY <1>1 DEF EnsureFirst
<1> QED BY <1>2, <1>3, <1>4, <1>5

\* A step that moves worker w, from a live state to any but "free".
LEMMA MoveIsCalm ==
  ASSUME TypeOK, WorkerKnown, NEW w \in Workers, Alive(w), NEW p \in WorkerPC,
         p # "free", pc' = [pc EXCEPT ![w] = p],
         UNCHANGED <<reconVars, upc, meta>>,
         target' = [target EXCEPT ![w] = NoWorker] \/ target' = target,
         p # "selfkill"
  PROVE  Calm
<1>1. \A v \in Workers : Alive(v)' => Alive(v)
  BY DEF Alive, TypeOK, WorkersOK
<1>2. \A v \in Workers : pc'[v] = "selfkill" => target'[v] = v
  BY DEF TypeOK, WorkersOK, WorkerKnown, KnownWorker
<1>3. upc # "ensure"
  BY DEF WorkerKnown, EnsureFirst, LiveWorkers
<1> QED BY <1>1, <1>2, <1>3 DEF Calm

LEMMA GoneIsCalm ==
  ASSUME TypeOK, WorkerKnown, NEW w \in Workers, Alive(w), Gone(w),
         UNCHANGED <<reconVars, upc, meta>>
  PROVE  Calm
BY MoveIsCalm DEF Gone, WorkerPC

LEMMA WorkerStepCalm ==
  ASSUME TypeOK, WorkerKnown, NEW w \in Workers, WorkerStep(w) PROVE Calm
<1> USE DEF notWorkers, notRecons, userVars, files, WorkerPC, Alive
<1>1. Alive(w)
  BY DEF WorkerStep, Boot, Enter, ClearStop, Begin, Loop, StepBegins, Halt,
         WriteOutcome, SelfStop, SelfStopSet, SelfStopWrite, SelfKill,
         SelfStopDone, Cleanup
<1>2. meta = w
  BY <1>1 DEF WorkerKnown, KnownWorker
<1>3. CASE Boot(w)
  BY <1>1, <1>2, <1>3, MoveIsCalm DEF Boot
<1>4. CASE \/ Enter(w) \/ ClearStop(w) \/ Begin(w) \/ Loop(w) \/ Halt(w)
           \/ StepBegins(w) \/ WriteOutcome(w) \/ SelfStop(w) \/ SelfStopSet(w)
  <2>1. PICK p \in WorkerPC \ {"free", "selfkill"} : pc' = [pc EXCEPT ![w] = p]
    BY <1>4
    DEF Enter, ClearStop, Begin, Loop, StepBegins, Halt, WriteOutcome, SelfStop,
        SelfStopSet
  <2>2. UNCHANGED <<reconVars, upc, meta, target>>
    BY <1>4
    DEF Enter, ClearStop, Begin, Loop, StepBegins, Halt, WriteOutcome, SelfStop,
        SelfStopSet
  <2> QED BY <1>1, <2>1, <2>2, MoveIsCalm
<1>5. CASE SelfStopWrite(w)
  <2>1. Health = "alive"
    BY <1>1, <1>2, NoWorkerAssumption DEF Health
  <2>2. CASE view[w].status = "running"
    <3>1. /\ target' = [target EXCEPT ![w] = w]
          /\ pc' = [pc EXCEPT ![w] = "selfkill"]
          /\ UNCHANGED <<reconVars, upc, meta>>
      BY <1>2, <1>5, <2>1, <2>2 DEF SelfStopWrite
    <3>2. \A v \in Workers : Alive(v)' => Alive(v)
      BY <1>1, <3>1 DEF TypeOK, WorkersOK
    <3>3. \A v \in Workers : pc'[v] = "selfkill" => target'[v] = v
      BY <3>1 DEF TypeOK, WorkersOK, WorkerKnown, KnownWorker
    <3>4. upc # "ensure"
      BY <1>1 DEF WorkerKnown, EnsureFirst, LiveWorkers
    <3> QED BY <3>1, <3>2, <3>3, <3>4 DEF Calm
  <2>3. CASE view[w].status # "running"
    <3>1. /\ pc' = [pc EXCEPT ![w] = "cleanup"]
          /\ UNCHANGED <<reconVars, upc, meta, target>>
      BY <1>5, <2>3 DEF SelfStopWrite
    <3> QED BY <1>1, <3>1, MoveIsCalm
  <2> QED BY <2>2, <2>3
<1>6. CASE SelfKill(w)
  <2>1. target[w] = w
    BY <1>6 DEF SelfKill, WorkerKnown, KnownWorker
  <2> QED BY <1>1, <1>6, <2>1, GoneIsCalm DEF SelfKill
<1>7. CASE SelfStopDone(w)
  <2>1. target[w] = w
    BY <1>7 DEF SelfStopDone, WorkerKnown, KnownWorker
  <2> QED BY <1>1, <1>7, <2>1 DEF SelfStopDone
<1>8. CASE Cleanup(w)
  BY <1>1, <1>8, GoneIsCalm DEF Cleanup
<1> QED BY <1>3, <1>4, <1>5, <1>6, <1>7, <1>8 DEF WorkerStep

LEMMA WorkerEventCalm ==
  ASSUME TypeOK, WorkerKnown, NEW w \in Workers, WorkerEvent(w) PROVE Calm
<1> USE DEF notWorkers, notRecons, notFaulty, userVars, files, workerVars
<1>1. Alive(w)
  BY DEF WorkerEvent, PreflightFails, RunFlowException, AgentActs, TurnEnds,
         TurnRaises, DieInBoot, WatchdogExit, CrashWorker, Alive
<1>2. CASE DieInBoot(w) \/ WatchdogExit(w) \/ CrashWorker(w)
  BY <1>1, <1>2, GoneIsCalm DEF DieInBoot, WatchdogExit, CrashWorker
<1>3. CASE PreflightFails(w) \/ RunFlowException(w) \/ TurnEnds(w)
           \/ TurnRaises(w)
  <2>1. PICK p \in WorkerPC \ {"free", "selfkill"} : pc' = [pc EXCEPT ![w] = p]
    BY <1>3
    DEF PreflightFails, RunFlowException, TurnEnds, TurnRaises, ReadBack,
        WorkerPC
  <2>2. UNCHANGED <<reconVars, upc, meta, target>>
    BY <1>3 DEF PreflightFails, RunFlowException, TurnEnds, TurnRaises
  <2> QED BY <1>1, <2>1, <2>2, MoveIsCalm
<1>4. CASE AgentActs(w)
  BY <1>4 DEF AgentActs, Calm, Alive, WorkerKnown, KnownWorker
<1> QED BY <1>2, <1>3, <1>4 DEF WorkerEvent

LEMMA ReaperCalm ==
  ASSUME TypeOK, WorkerKnown, ReaperNext PROVE Calm
<1> USE DEF reconVars, userVars, files, workerVars
<1>1. CASE ReaperScan \/ ReaperSignal
  BY <1>1 DEF ReaperScan, ReaperSignal, Calm, Alive, WorkerKnown, KnownWorker
<1>2. CASE ReaperKill
  <2>1. CASE Alive(jpid)
    <3>1. jpid \in Workers
      BY <1>2 DEF ReaperKill, TypeOK, ReaperOK
    <3> QED BY <1>2, <2>1, <3>1, GoneIsCalm DEF ReaperKill
  <2>2. CASE ~Alive(jpid)
    BY <1>2, <2>2 DEF ReaperKill, Calm, Alive, WorkerKnown, KnownWorker
  <2> QED BY <2>1, <2>2
<1> QED BY <1>1, <1>2 DEF ReaperNext

-----------------------------------------------------------------------------
(* The reconcilers. *)

\* Nobody else is inside while r is.
LEMMA Alone ==
  ASSUME LockHeld, NEW r \in Reconcilers, rpc[r] \in Inside
  PROVE  \A q \in Reconcilers : q # r => rpc[q] \notin Inside
BY DEF LockHeld

\* A pass that ends, however it ends.
LEMMA ReleaseKeeps ==
  ASSUME TypeOK, WorkerKnown, NEW r \in Reconcilers, Release(r),
         UNCHANGED <<pc, target, upc>>,
         meta' = meta \/ LiveWorkers = {},
         upc = "ensure" => row'.status = "pending" /\ ~row'.stop
  PROVE  WorkerKnown'
<1> USE DEF WorkerKnown, TypeOK, ReconsOK, Release
<1>1. LiveWorkers' = LiveWorkers
  BY DEF LiveWorkers, Alive
<1>2. KnownWorker'
  <2>1. CASE meta' = meta
    BY <2>1 DEF KnownWorker, Alive
  <2>2. CASE LiveWorkers = {}
    BY <2>2 DEF KnownWorker, Alive, LiveWorkers
  <2> QED BY <2>1, <2>2
<1>3. \A q \in Reconcilers :
        \/ q = r /\ rpc'[q] = "idle" /\ plan'[q] = NoPlan
        \/ q # r /\ rpc'[q] = rpc[q] /\ plan'[q] = plan[q]
                 /\ rview'[q] = rview[q]
  OBVIOUS
<1>4. StillDead'
  BY <1>1, <1>3 DEF StillDead, Acting, Inside
<1>5. RestartPlanned'
  BY <1>3 DEF RestartPlanned, NoPlan
<1>6. EnsureFirst'
  BY <1>1, <1>3 DEF EnsureFirst
<1> QED BY <1>2, <1>4, <1>5, <1>6

\* A step inside the lock that leaves the plan alone and starts no worker.
LEMMA InsideKeeps ==
  ASSUME TypeOK, LockHeld, WorkerKnown, NEW r \in Reconcilers,
         Acting(r), plan[r].kind = "restart",
         NEW p \in Inside, rpc' = [rpc EXCEPT ![r] = p],
         UNCHANGED <<plan, rview, lock, upc>>,
         LiveWorkers' \subseteq LiveWorkers,
         \A v \in Workers : pc'[v] = "selfkill" => target'[v] = v,
         meta' = meta \/ LiveWorkers' = {},
         p = "spawn" => LiveWorkers' = {}
  PROVE  WorkerKnown'
<1> USE DEF WorkerKnown, TypeOK, ReconsOK
<1>1. KnownWorker'
  BY DEF KnownWorker, LiveWorkers
<1>2. \A q \in Reconcilers : q # r => ~Acting(q)' /\ rpc'[q] \notin Inside
  BY Alone DEF Acting
<1>3. StillDead'
  <2>1. ASSUME NEW q \in Reconcilers, q # r
        PROVE  ~Acting(q)' /\ rpc'[q] # "spawn"
    BY <1>2, <2>1 DEF Inside, ReconPC
  <2>2. rpc'[r] = "spawn" => LiveWorkers' = {}
    OBVIOUS
  <2>3. /\ plan'[r].health \in {"dead", "absent"} => LiveWorkers' = {}
        /\ plan'[r].health = "stale" =>
             LiveWorkers' \subseteq {plan'[r].victim}
    BY DEF StillDead
  <2> QED BY <2>1, <2>2, <2>3 DEF StillDead
<1>4. RestartPlanned'
  BY DEF RestartPlanned
<1>5. EnsureFirst'
  BY DEF EnsureFirst, Acting, Inside
<1> QED BY <1>1, <1>3, <1>4, <1>5

\* What a decision says about the worker it was made for.
LEMMA DecideSound ==
  ASSUME TypeOK, WorkerKnown, NEW v \in Row, NEW h \in HealthSeen(v),
         NEW ready \in BOOLEAN
  PROVE  /\ h \in {"dead", "absent"} => LiveWorkers = {}
         /\ h = "stale" => LiveWorkers \subseteq {meta}
         /\ Decision(v, h, ready) = "restart" => h # "alive"
         /\ v.status = "pending" /\ ~v.stop => Decision(v, h, ready) = "none"
<1>1. \A w \in LiveWorkers : meta = w
  BY DEF LiveWorkers, WorkerKnown, KnownWorker
<1>2. h \in {"dead", "absent"} => LiveWorkers = {}
  BY <1>1, NoWorkerAssumption DEF HealthSeen, Health, LiveWorkers
<1>3. Decision(v, h, ready) = "restart" => h # "alive"
  BY DEF Decision
<1>4. v.status = "pending" /\ ~v.stop => Decision(v, h, ready) = "none"
  BY DEF Decision
<1> QED BY <1>1, <1>2, <1>3, <1>4

LEMMA DecideKeeps ==
  ASSUME TypeOK, LockHeld, WorkerKnown, NEW r \in Reconcilers, Decide(r)
  PROVE  WorkerKnown'
<1> USE DEF WorkerKnown, TypeOK, ReconsOK, workerVars, files, notRecons,
            userVars
<1>1. PICK h \in HealthSeen(rview[r]), ready \in BOOLEAN :
        /\ plan'[r].health = h
        /\ plan'[r].victim = IF h = "stale" THEN meta ELSE NoWorker
        /\ plan'[r].kind \in {Decision(rview[r], h, ready), "wait"}
        /\ Decision(rview[r], h, ready) = "none" => plan'[r].kind = "none"
  BY DEF Decide
<1>2. rview[r] \in Row
  BY Listed DEF Decide
<1>3. /\ h \in {"dead", "absent"} => LiveWorkers = {}
      /\ h = "stale" => LiveWorkers \subseteq {meta}
      /\ Decision(rview[r], h, ready) = "restart" => h # "alive"
      /\ rview[r].status = "pending" /\ ~rview[r].stop =>
           Decision(rview[r], h, ready) = "none"
  BY <1>1, <1>2, DecideSound
<1>4. LiveWorkers' = LiveWorkers
  BY DEF Decide, LiveWorkers, Alive
<1>5. KnownWorker'
  BY DEF Decide, KnownWorker, Alive
<1>6. \A q \in Reconcilers : q # r =>
        /\ rpc'[q] = rpc[q] /\ plan'[q] = plan[q] /\ rview'[q] = rview[q]
        /\ rpc[q] \notin Inside
  BY NoWorkerAssumption DEF Decide, LockFree, LockHeld
<1>7. rpc'[r] = "decided" /\ rview' = rview
  BY DEF Decide
<1>8. StillDead'
  <2>1. \A q \in Reconcilers : q # r => ~Acting(q)' /\ rpc'[q] # "spawn"
    BY <1>6 DEF Acting, Inside, ReconPC
  <2>2. /\ plan'[r].health \in {"dead", "absent"} => LiveWorkers' = {}
        /\ plan'[r].health = "stale" =>
             LiveWorkers' \subseteq {plan'[r].victim}
    BY <1>1, <1>3, <1>4
  <2> QED BY <1>7, <2>1, <2>2 DEF StillDead
<1>9. RestartPlanned'
  BY <1>1, <1>3, <1>6, <1>7 DEF RestartPlanned
<1>10. EnsureFirst'
  <2>1. rpc[r] # "idle" /\ UNCHANGED <<upc, row>>
    BY DEF Decide
  <2>2. upc = "ensure" => plan'[r].kind = "none"
    BY <1>1, <1>3, <2>1 DEF EnsureFirst
  <2> QED BY <1>4, <1>6, <1>7, <2>1, <2>2 DEF EnsureFirst
<1> QED BY <1>5, <1>8, <1>9, <1>10

LEMMA ReconcilerKeeps ==
  ASSUME TypeOK, LockHeld, WorkerKnown, NEW r \in Reconcilers,
         ReconcilerNext(r)
  PROVE  WorkerKnown'
<1> USE DEF TypeOK, ReconsOK, WorkerKnown, notRecons, userVars, workerVars,
            files
<1>1. CASE List(r) \/ LockBusy(r)
  <2>1. /\ rpc' = [rpc EXCEPT ![r] = rpc'[r]] /\ rpc'[r] \in {"listed", "idle"}
        /\ UNCHANGED <<pc, target, meta, upc, plan, row>>
        /\ rpc[r] \in {"listed", "idle"}
    BY <1>1 DEF List, LockBusy
  <2>2. LiveWorkers' = LiveWorkers /\ KnownWorker'
    BY <2>1 DEF KnownWorker, LiveWorkers, Alive
  <2>3. StillDead' /\ RestartPlanned'
    BY <2>1, <2>2 DEF StillDead, RestartPlanned, Acting, Inside
  <2>4. EnsureFirst'
    <3>1. rpc'[r] = "listed" => rview' = [rview EXCEPT ![r] = row]
      BY <1>1 DEF List, LockBusy
    <3>2. \A q \in Reconcilers : q # r => rview'[q] = rview[q]
      BY <1>1 DEF List, LockBusy
    <3> QED BY <2>1, <2>2, <3>1, <3>2 DEF EnsureFirst
  <2> QED BY <2>2, <2>3, <2>4
<1>2. CASE Decide(r)
  BY <1>2, DecideKeeps
<1>3. CASE StoreObservation(r)
  <2>1. upc = "ensure" => row'.status = "pending" /\ ~row'.stop
    <3>1. row \in Row
      BY DEF SharedOK
    <3>2. upc = "ensure" => rview[r].status = "pending"
      BY <1>3 DEF StoreObservation, EnsureFirst
    <3>3. row'.status \in {row.status, rview[r].status} /\ row'.stop = row.stop
      BY <1>3, <3>1 DEF StoreObservation, Row
    <3> QED BY <3>2, <3>3 DEF EnsureFirst
  <2> QED BY <1>3, <2>1, ReleaseKeeps DEF StoreObservation
<1>4. CASE BackoffWait(r)
  BY <1>4, ReleaseKeeps DEF BackoffWait, EnsureFirst
<1>5. CASE ApplyTrigger(r)
  <2>1. Acting(r) /\ plan[r].kind # "none"
    BY <1>5 DEF ApplyTrigger, Acting, Inside, ReconPC
  <2>2. meta' = meta \/ LiveWorkers = {}
    BY <1>5, <2>1 DEF ApplyTrigger, ForgetDead, StillDead
  <2>3. upc # "ensure"
    BY <1>5, <2>1 DEF ApplyTrigger, EnsureFirst
  <2> QED BY <1>5, <2>2, <2>3, ReleaseKeeps DEF ApplyTrigger
<1>6. CASE CountRestart(r)
  <2>1. Acting(r) /\ plan[r].kind = "restart"
    BY <1>6 DEF CountRestart, Acting, Inside, ReconPC
  <2>2. LiveWorkers' = LiveWorkers
    BY <1>6 DEF CountRestart, LiveWorkers, Alive
  <2>3. "counted" \in Inside
    BY DEF Inside, ReconPC
  <2> QED BY <1>6, <2>1, <2>2, <2>3, InsideKeeps DEF CountRestart, KnownWorker
<1>7. CASE SignalStale(r)
  <2>1. Acting(r) /\ plan[r].kind = "restart" /\ plan[r].health # "alive"
    BY <1>7 DEF SignalStale, Acting, Inside, ReconPC, RestartPlanned
  <2>2. LiveWorkers' = LiveWorkers
    BY <1>7 DEF SignalStale, LiveWorkers, Alive
  <2>3. \A v \in Workers : pc'[v] = "selfkill" => target'[v] = v
    BY <1>7 DEF SignalStale, KnownWorker
  <2>4. CASE plan[r].health = "stale"
    <3>1. "grace" \in Inside
      BY DEF Inside, ReconPC
    <3>2. /\ rpc' = [rpc EXCEPT ![r] = "grace"] /\ meta' = meta
          /\ UNCHANGED <<plan, rview, lock, upc>>
      BY <1>7, <2>4 DEF SignalStale
    <3> QED BY <2>1, <2>2, <2>3, <3>1, <3>2, InsideKeeps
  <2>5. CASE plan[r].health # "stale"
    <3>1. "spawn" \in Inside /\ plan[r].health \in {"dead", "absent"}
      BY <2>1, <2>5, Listed DEF Inside, ReconPC, Plan, Healths
    <3>2. LiveWorkers' = {}
      BY <2>1, <2>2, <3>1 DEF StillDead
    <3>3. /\ rpc' = [rpc EXCEPT ![r] = "spawn"]
          /\ UNCHANGED <<plan, rview, lock, upc>>
      BY <1>7, <2>5 DEF SignalStale
    <3> QED BY <2>1, <2>2, <2>3, <3>1, <3>2, <3>3, InsideKeeps
  <2> QED BY <2>4, <2>5
<1>8. CASE GraceOver(r)
  <2> DEFINE v == plan[r].victim
  <2>1. Acting(r) /\ plan[r].kind = "restart" /\ plan[r].health # "alive"
    BY <1>8 DEF GraceOver, Acting, Inside, ReconPC, RestartPlanned
  <2>2. LiveWorkers \subseteq {v}
    <3>1. plan[r].health \in {"dead", "absent", "stale"}
      BY <2>1, Listed DEF Plan, Healths
    <3> QED BY <2>1, <3>1 DEF StillDead
  <2>3. v \in Workers
    BY <1>8, Listed DEF GraceOver
  <2>4. LiveWorkers' = {}
    <3>1. \A u \in Workers : Alive(u) => u = v
      BY <2>2 DEF LiveWorkers
    <3>2. CASE Alive(v)
      <4>1. pc' = [pc EXCEPT ![v] = "gone"]
        BY <1>8, <3>2 DEF GraceOver, Gone
      <4>2. \A u \in Workers : ~Alive(u)'
        BY <2>3, <3>1, <4>1 DEF Alive, WorkersOK
      <4> QED BY <4>2 DEF LiveWorkers
    <3>3. CASE ~Alive(v)
      <4>1. pc' = pc
        BY <1>8, <3>3 DEF GraceOver
      <4>2. \A u \in Workers : ~Alive(u)'
        BY <3>1, <3>3, <4>1 DEF Alive
      <4> QED BY <4>2 DEF LiveWorkers
    <3> QED BY <3>2, <3>3
  <2>5. \A u \in Workers : pc'[u] = "selfkill" => target'[u] = u
    BY <2>4 DEF LiveWorkers, Alive
  <2>6. PICK p \in {"spawn", "failed"} : rpc' = [rpc EXCEPT ![r] = p]
    BY <1>8 DEF GraceOver
  <2>7. p \in Inside /\ UNCHANGED <<plan, rview, lock, upc>>
    BY <1>8 DEF GraceOver, Inside, ReconPC
  <2> QED BY <2>1, <2>4, <2>5, <2>6, <2>7, InsideKeeps
<1>9. CASE Respawn(r)
  <2>1. PICK w \in Workers : Spawn(w)
    BY <1>9 DEF Respawn
  <2>2. LiveWorkers = {} /\ rpc[r] \in Inside
    BY <1>9 DEF Respawn, StillDead, Inside, ReconPC
  <2>3. KnownWorker'
    BY <1>9, <2>1, <2>2
    DEF Respawn, Spawn, KnownWorker, LiveWorkers, Alive, WorkersOK
  <2>4. /\ rpc' = [rpc EXCEPT ![r] = "unstop"]
        /\ UNCHANGED <<plan, rview, lock, upc>>
    BY <1>9 DEF Respawn
  <2>5. \A q \in Reconcilers : ~Acting(q)' /\ rpc'[q] # "spawn"
    BY <2>2, <2>4, Alone DEF Acting, Inside, ReconPC
  <2>6. StillDead' /\ RestartPlanned'
    BY <2>4, <2>5 DEF StillDead, RestartPlanned
  <2>7. EnsureFirst'
    BY <1>9, <2>4 DEF Respawn, EnsureFirst
  <2> QED BY <2>3, <2>6, <2>7
<1>10. CASE RespawnFails(r)
  <2>1. Acting(r) /\ plan[r].kind = "restart" /\ "failed" \in Inside
    BY <1>10 DEF RespawnFails, Acting, Inside, ReconPC, RestartPlanned
  <2>2. LiveWorkers' = LiveWorkers
    BY <1>10 DEF RespawnFails, LiveWorkers, Alive
  <2> QED BY <1>10, <2>1, <2>2, InsideKeeps DEF RespawnFails, KnownWorker
<1>11. CASE Unstop(r)
  <2>1. /\ rpc' = [rpc EXCEPT ![r] = "publish"]
        /\ UNCHANGED <<plan, rview, meta, pc, target, upc>>
    BY <1>11 DEF Unstop
  <2>2. KnownWorker' /\ LiveWorkers' = LiveWorkers
    BY <2>1 DEF KnownWorker, Alive, LiveWorkers
  <2>3. StillDead' /\ RestartPlanned'
    BY <2>1, <2>2 DEF StillDead, RestartPlanned, Acting
  <2>4. EnsureFirst'
    BY <1>11, <2>1 DEF Unstop, EnsureFirst
  <2> QED BY <2>2, <2>3, <2>4
<1>12. CASE Publish(r)
  BY <1>12, ReleaseKeeps DEF Publish, EnsureFirst
<1>13. CASE FailRun(r)
  <2>1. Acting(r) /\ plan[r].kind = "restart"
    BY <1>13 DEF FailRun, Acting, Inside, ReconPC, RestartPlanned
  <2>2. meta' = meta \/ LiveWorkers = {}
    BY <1>13, <2>1 DEF FailRun, ForgetDead, StillDead
  <2>3. upc # "ensure"
    BY <1>13 DEF FailRun, EnsureFirst
  <2> QED BY <1>13, <2>2, <2>3, ReleaseKeeps DEF FailRun
<1>14. CASE CrashReconciler(r)
  BY <1>14, ReleaseKeeps DEF CrashReconciler, EnsureFirst
<1> QED
  BY <1>1, <1>2, <1>3, <1>4, <1>5, <1>6, <1>7, <1>8, <1>9, <1>10, <1>11,
     <1>12, <1>13, <1>14
  DEF ReconcilerNext, ReconcileStep

LEMMA EnsureKeeps ==
  ASSUME TypeOK, WorkerKnown, Ensure PROVE WorkerKnown'
<1> USE DEF TypeOK, WorkerKnown, Ensure, reconVars
<1>1. LiveWorkers = {}
  BY DEF EnsureFirst
<1>2. CASE UNCHANGED <<meta, pc>>
  BY <1>1, <1>2
  DEF KnownWorker, StillDead, RestartPlanned, EnsureFirst, LiveWorkers, Alive,
      Acting
<1>3. ASSUME NEW w \in Workers, Spawn(w) PROVE WorkerKnown'
  <2>1. KnownWorker'
    BY <1>1, <1>3 DEF Spawn, KnownWorker, LiveWorkers, Alive, WorkersOK
  <2>2. \A q \in Reconcilers : ~Acting(q)' /\ rpc'[q] # "spawn"
    BY DEF EnsureFirst, Acting, Inside
  <2> QED BY <2>1, <2>2 DEF StillDead, RestartPlanned, EnsureFirst
<1> QED BY <1>2, <1>3

-----------------------------------------------------------------------------
LEMMA UnattendedIsSpec == Unattended => Spec
<1>1. [UnattendedNext]_vars => [Next]_vars
  BY DEF Next
<1> QED BY <1>1, PTL DEF Unattended, Spec

LEMMA WorkerKnownInit == Init => WorkerKnown
BY DEF Init, WorkerKnown, KnownWorker, StillDead, RestartPlanned, EnsureFirst,
       Acting, Inside, LiveWorkers, Alive, NoPlan, CreateFlowRun

LEMMA MachineryKeeps ==
  ASSUME TypeOK, LockHeld, WorkerKnown, [UnattendedNext]_vars
  PROVE  WorkerKnown'
<1>1. CASE UNCHANGED vars
  <2>1. UNCHANGED <<row, meta, pc, target, upc, rpc, rview, plan>>
    BY <1>1
    DEF vars, files, workerVars, notWorkers, reconVars, notRecons, userVars
  <2> QED
    BY <2>1
    DEF WorkerKnown, KnownWorker, StillDead, RestartPlanned, EnsureFirst,
        Acting, LiveWorkers, Alive
<1>2. ASSUME NEW w \in Workers, WorkerStep(w) \/ WorkerEvent(w)
      PROVE  WorkerKnown'
  BY <1>2, WorkerStepCalm, WorkerEventCalm, CalmKeeps
<1>3. ASSUME NEW r \in Reconcilers, ReconcilerNext(r) PROVE WorkerKnown'
  BY <1>3, ReconcilerKeeps
<1>4. CASE ReaperNext
  BY <1>4, ReaperCalm, CalmKeeps
<1>5. CASE Ensure
  BY <1>5, EnsureKeeps
<1> QED BY <1>1, <1>2, <1>3, <1>4, <1>5 DEF UnattendedNext

-----------------------------------------------------------------------------
(* The user's stops. *)

\* Nobody resumed the run, and no stop removed a live worker's worker.json.
Watched == resumes = 0 /\ ~forgot

\* Without a resume the user starts no worker but the first.
NoResume == resumes = 0 => upc \notin {"resumeclear", "resumewrite"}

Stops ==
  \/ StopAsk \/ StopRead \/ StopSet \/ StopWrite \/ StopKill \/ StopGrace
  \/ Supersede
Resumes == ResumeRead \/ ResumeClear \/ ResumeWrite \/ ResumeRefused

LEMMA MachineryLeavesUser ==
  ASSUME [UnattendedNext]_vars PROVE UNCHANGED <<stops, resumes, forgot>>
<1> USE DEF userVars, userOps, userPast
<1>1. ASSUME NEW w \in Workers, WorkerStep(w) PROVE UNCHANGED userVars
  BY <1>1
  DEF notWorkers, notRecons, WorkerStep, Boot, Enter, ClearStop, Begin, Loop,
      StepBegins, Halt, WriteOutcome, SelfStop, SelfStopSet, SelfStopWrite,
      SelfKill, SelfStopDone, Cleanup
<1>2. ASSUME NEW w \in Workers, WorkerEvent(w) PROVE UNCHANGED userVars
  BY <1>2
  DEF notWorkers, notRecons, notFaulty, WorkerEvent, PreflightFails,
      RunFlowException, AgentActs, TurnEnds, TurnRaises, DieInBoot,
      WatchdogExit, CrashWorker
<1>3. ASSUME NEW r \in Reconcilers, ReconcilerNext(r) PROVE UNCHANGED userVars
  BY <1>3
  DEF notRecons, ReconcilerNext, ReconcileStep, List, LockBusy, Decide,
      StoreObservation, ApplyTrigger, CountRestart, SignalStale, GraceOver,
      Respawn, RespawnFails, Unstop, Publish, FailRun, BackoffWait,
      CrashReconciler
<1>4. ASSUME ReaperNext PROVE UNCHANGED userVars
  BY <1>4 DEF ReaperNext, ReaperScan, ReaperSignal, ReaperKill
<1>5. ASSUME Ensure PROVE UNCHANGED <<stops, resumes, forgot>>
  BY <1>5 DEF Ensure
<1>6. ASSUME UNCHANGED vars PROVE UNCHANGED userVars
  BY <1>6 DEF vars, notWorkers, notRecons
<1> QED BY <1>1, <1>2, <1>3, <1>4, <1>5, <1>6 DEF UnattendedNext

\* What the user asked for is not forgotten, and only ResumeRead asks for a
\* resume.
LEMMA PastGrows ==
  ASSUME TypeOK, NoResume, [Next]_vars
  PROVE  NoResume' /\ (Watched' => Watched)
<1> USE DEF TypeOK, UserOK, NoResume, Watched, userOps, userPast
<1>1. CASE [UnattendedNext]_vars
  <2>1. UNCHANGED <<resumes, forgot>>
    BY <1>1, MachineryLeavesUser
  <2>2. upc' \in {upc, "idle"}
    <3>1. CASE UNCHANGED vars
      BY <3>1 DEF vars, notWorkers, notRecons, userVars
    <3>2. ASSUME NEW w \in Workers, WorkerStep(w) \/ WorkerEvent(w)
          PROVE  upc' = upc
      BY <3>2
      DEF notWorkers, notRecons, notFaulty, userVars, WorkerStep, Boot, Enter,
          ClearStop, Begin, Loop, StepBegins, Halt, WriteOutcome, SelfStop,
          SelfStopSet, SelfStopWrite, SelfKill, SelfStopDone, Cleanup,
          WorkerEvent, PreflightFails, RunFlowException, AgentActs, TurnEnds,
          TurnRaises, DieInBoot, WatchdogExit, CrashWorker
    <3>3. ASSUME NEW r \in Reconcilers, ReconcilerNext(r) PROVE upc' = upc
      BY <3>3
      DEF notRecons, userVars, ReconcilerNext, ReconcileStep, List, LockBusy,
          Decide, StoreObservation, ApplyTrigger, CountRestart, SignalStale,
          GraceOver, Respawn, RespawnFails, Unstop, Publish, FailRun,
          BackoffWait, CrashReconciler
    <3>4. ASSUME ReaperNext PROVE upc' = upc
      BY <3>4 DEF userVars, ReaperNext, ReaperScan, ReaperSignal, ReaperKill
    <3>5. ASSUME Ensure PROVE upc' = "idle"
      BY <3>5 DEF Ensure
    <3> QED BY <1>1, <3>1, <3>2, <3>3, <3>4, <3>5 DEF UnattendedNext
  <2> QED BY <2>1, <2>2
<1>2. CASE Stops
  BY <1>2
  DEF Stops, StopAsk, StopRead, StopSet, StopWrite, StopKill, StopGrace,
      Supersede, userVars
<1>3. CASE Resumes
  <2>1. resumes \in Nat
    BY BoundsAssumption
  <2> QED BY <1>3, <2>1
          DEF Resumes, ResumeRead, ResumeClear, ResumeWrite, ResumeRefused
<1> QED BY <1>1, <1>2, <1>3 DEF Next, UserStep, UnattendedNext, Stops, Resumes

\* A step of a user who stops the run starts nobody, and takes worker.json away
\* only when there is no live worker.
LEMMA StopsKeep ==
  ASSUME TypeOK, WorkerKnown, Stops, ~forgot' PROVE WorkerKnown'
<1> USE DEF TypeOK, WorkerKnown, reconVars, workerVars, files
<1>1. UNCHANGED reconVars
  BY OthersLeaveRecons DEF Stops, UserStep
<1>2. upc # "ensure" /\ upc' # "ensure"
  BY DEF Stops, StopAsk, StopRead, StopSet, StopWrite, StopKill, StopGrace,
         Supersede, EnsureFirst, userVars
<1>3. \A w \in LiveWorkers : meta = w /\ w \in Workers /\ Alive(w)
  BY DEF LiveWorkers, KnownWorker
<1>4. Health # "alive" => LiveWorkers = {}
  BY <1>3, NoWorkerAssumption DEF Health
<1>5. /\ LiveWorkers' \subseteq LiveWorkers
      /\ meta' = meta \/ LiveWorkers' = {}
      /\ \A v \in Workers : pc'[v] = "selfkill" => target'[v] = v
  <2>1. CASE \/ StopAsk \/ StopRead \/ StopSet \/ StopWrite \/ StopKill
             \/ Supersede
    <3>1. UNCHANGED <<pc, target>>
      BY <2>1 DEF StopAsk, StopRead, StopSet, StopWrite, StopKill, Supersede
    <3>2. LiveWorkers' = LiveWorkers
      BY <3>1 DEF LiveWorkers, Alive
    <3>3. meta' = meta \/ Health # "alive"
      BY <2>1
      DEF StopAsk, StopRead, StopSet, StopWrite, StopKill, Supersede
    <3> QED BY <1>4, <3>1, <3>2, <3>3 DEF KnownWorker
  <2>2. CASE StopGrace
    <3>1. upid \in Workers
      BY <2>2 DEF StopGrace, UserOK
    <3>2. CASE Alive(upid)
      <4>1. upid = meta /\ LiveWorkers \subseteq {upid}
        BY <1>3, <3>1, <3>2 DEF LiveWorkers
      <4>2. /\ pc' = [pc EXCEPT ![upid] = "gone"]
            /\ target' = [target EXCEPT ![upid] = NoWorker]
        BY <2>2, <3>2 DEF StopGrace, Gone
      <4>3. \A w \in Workers : ~Alive(w)'
        BY <3>1, <4>1, <4>2 DEF LiveWorkers, Alive, WorkersOK
      <4> QED BY <4>3 DEF LiveWorkers, Alive
    <3>3. CASE ~Alive(upid)
      <4>1. meta \notin LiveWorkers /\ UNCHANGED <<pc, target>>
        BY <2>2, <3>3 DEF StopGrace, LiveWorkers
      <4>2. LiveWorkers = {} /\ LiveWorkers' = LiveWorkers
        BY <1>3, <4>1 DEF LiveWorkers, Alive
      <4> QED BY <4>1, <4>2 DEF KnownWorker
    <3> QED BY <3>2, <3>3
  <2> QED BY <2>1, <2>2 DEF Stops
<1>6. KnownWorker'
  BY <1>5 DEF KnownWorker, LiveWorkers
<1>7. StillDead' /\ RestartPlanned'
  BY <1>1, <1>5 DEF StillDead, RestartPlanned, Acting
<1> QED BY <1>2, <1>6, <1>7 DEF EnsureFirst

\* A run that is still watched after a step was watched before it, and its user
\* did not resume it.
LEMMA WatchedMoves ==
  ASSUME TypeOK, NoResume, Watched', [Next]_vars
  PROVE  Watched /\ ([UnattendedNext]_vars \/ Stops)
<1>1. Watched
  BY PastGrows
<1>2. ASSUME Resumes PROVE FALSE
  <2>1. resumes' # 0
    BY <1>1, <1>2
    DEF TypeOK, SharedOK, Watched, NoResume, Resumes, ResumeRead, ResumeClear,
        ResumeWrite, ResumeRefused
  <2> QED BY <2>1 DEF Watched
<1> QED BY <1>1, <1>2 DEF Next, UserStep, UnattendedNext, Stops, Resumes

LEMMA WorkerKnownStep ==
  ASSUME TypeOK, LockHeld, NoResume, Watched => WorkerKnown, [Next]_vars
  PROVE  Watched' => WorkerKnown'
<1> SUFFICES ASSUME Watched' PROVE WorkerKnown'
  OBVIOUS
<1>1. Watched /\ WorkerKnown /\ ([UnattendedNext]_vars \/ Stops)
  BY WatchedMoves
<1>2. CASE [UnattendedNext]_vars
  BY <1>1, <1>2, MachineryKeeps
<1>3. CASE Stops
  BY <1>1, <1>3, StopsKeep DEF Watched
<1> QED BY <1>1, <1>2, <1>3

\* The same of a run that its user stops: worker.json names the only live
\* worker until a stop removes the worker.json of another worker than the one
\* it terminated.
THEOREM StoppedWorkerKnown == Spec => [](Watched => WorkerKnown)
<1>1. Init => NoResume /\ (Watched => WorkerKnown)
  BY WorkerKnownInit DEF Init, NoResume
<1> QED
  BY <1>1, TypeCorrect, LockSafe, PastGrows, WorkerKnownStep, PTL DEF Spec

LEMMA KnownIsOne == WorkerKnown => OneWorker
BY DEF WorkerKnown, KnownWorker, OneWorker, LiveWorkers

\* A run that its user stops, any number of times, has two worker processes
\* only after a stop removed a live worker's worker.json (StopGrace), for any
\* number of workers and reconcilers.
THEOREM StoppedOneWorker == Spec => []OneWorkerUnlessForgot
<1>1. (Watched => WorkerKnown) => OneWorkerUnlessForgot
  BY KnownIsOne DEF Watched, OneWorkerUnlessForgot
<1> QED BY <1>1, StoppedWorkerKnown, PTL

LEMMA UnattendedWatched == Unattended => []Watched
<1>1. Init => Watched
  BY DEF Init, Watched
<1>2. Watched /\ [UnattendedNext]_vars => Watched'
  BY MachineryLeavesUser DEF Watched
<1> QED BY <1>1, <1>2, PTL DEF Unattended

\* worker.json names the only live worker of a run left to the machinery, and
\* what a reconciler found out before it spawns a replacement is still true.
THEOREM WorkerKnownAlways == Unattended => []WorkerKnown
BY UnattendedIsSpec, UnattendedWatched, StoppedWorkerKnown, PTL

\* A run left to the machinery never has two worker processes: worker.json
\* names the only live one, and the reconciler that replaces it holds the lock
\* and knows it dead.
THEOREM OneWorkerAlways == Unattended => []OneWorker
BY KnownIsOne, WorkerKnownAlways, PTL

-----------------------------------------------------------------------------
(* The replacement of a dead worker. *)

\* Nobody but a live worker touches the tree.
LEMMA TreeMoves ==
  ASSUME [UnattendedNext]_vars \/ Stops, LiveWorkers = {}
  PROVE  tree' = tree
<1>1. CASE UNCHANGED vars
  BY <1>1 DEF vars
<1>2. ASSUME NEW w \in Workers, WorkerStep(w) \/ WorkerEvent(w)
      PROVE  FALSE
  BY <1>2
  DEF LiveWorkers, Alive, WorkerStep, Boot, Enter, ClearStop, Begin, Loop,
      StepBegins, Halt, WriteOutcome, SelfStop, SelfStopSet, SelfStopWrite,
      SelfKill, SelfStopDone, Cleanup, WorkerEvent, PreflightFails,
      RunFlowException, AgentActs, TurnEnds, TurnRaises, DieInBoot,
      WatchdogExit, CrashWorker
<1>3. ASSUME NEW r \in Reconcilers, ReconcilerNext(r) PROVE tree' = tree
  BY <1>3
  DEF ReconcilerNext, ReconcileStep, List, LockBusy, Decide, StoreObservation,
      ApplyTrigger, CountRestart, SignalStale, GraceOver, Respawn,
      RespawnFails, Unstop, Publish, FailRun, BackoffWait, CrashReconciler
<1>4. ASSUME ReaperNext \/ Ensure PROVE tree' = tree
  BY <1>4 DEF ReaperNext, ReaperScan, ReaperSignal, ReaperKill, Ensure
<1>5. ASSUME Stops PROVE tree' = tree
  BY <1>5
  DEF Stops, StopAsk, StopRead, StopSet, StopWrite, StopKill, StopGrace,
      Supersede
<1> QED BY <1>1, <1>2, <1>3, <1>4, <1>5 DEF UnattendedNext

\* Only the termination of a stale worker is waited for.
GraceForStale ==
  \A r \in Reconcilers : rpc[r] = "grace" => plan[r].health = "stale"

\* A restart without a stale worker was decided when no done ticket that the
\* record names lay in a dirty worktree, and the tree is still like that.
RestartClear(r) ==
  Acting(r) /\ plan[r].kind = "restart" /\ plan[r].health # "stale" =>
    tree # "doneDirty" \/ rview[r].state.commit = "unnamed"
RestartsClear == \A r \in Reconcilers : RestartClear(r)

LEMMA GraceForStaleStep ==
  ASSUME TypeOK, GraceForStale, [Next]_vars PROVE GraceForStale'
<1> USE DEF TypeOK, ReconsOK, GraceForStale
<1>1. CASE UNCHANGED reconVars
  BY <1>1 DEF reconVars
<1>2. ASSUME NEW r \in Reconcilers, ReconcilerNext(r) PROVE GraceForStale'
  BY <1>2
  DEF ReconcilerNext, ReconcileStep, List, LockBusy, Decide, StoreObservation,
      ApplyTrigger, CountRestart, SignalStale, GraceOver, Respawn,
      RespawnFails, Unstop, Publish, FailRun, BackoffWait, CrashReconciler,
      Release
<1>3. CASE UNCHANGED vars
  BY <1>1, <1>3 DEF vars, notWorkers, reconVars
<1> QED
  BY <1>1, <1>2, <1>3, OthersLeaveRecons DEF Next, UnattendedNext, UserStep

\* A reconciler that acts on a worker it found dead is alone with the run.
LEMMA ActsAlone ==
  ASSUME TypeOK, WorkerKnown, NEW r \in Reconcilers, Acting(r),
         plan[r].kind = "restart", plan[r].health # "stale"
  PROVE  LiveWorkers = {}
<1>1. plan[r].health \in {"dead", "absent"}
  BY DEF WorkerKnown, RestartPlanned, TypeOK, ReconsOK, Plan, Healths
<1> QED BY <1>1 DEF WorkerKnown, StillDead

\* What the supervisor decides keeps the barrier.
LEMMA DecideClear ==
  ASSUME NEW v \in Row, NEW h, NEW ready \in BOOLEAN, h # "stale",
         Decision(v, h, ready) = "restart"
  PROVE  tree # "doneDirty" \/ v.state.commit = "unnamed"
<1>1. DeadPlan(v, h, ready) = "restart"
  BY DEF Decision
<1>2. ~BarrierRequired(v.state)
  BY <1>1 DEF DeadPlan
<1> QED BY <1>2 DEF BarrierRequired

LEMMA RestartsClearStep ==
  ASSUME TypeOK, WorkerKnown, RestartsClear, [UnattendedNext]_vars \/ Stops
  PROVE  RestartsClear'
<1> USE DEF TypeOK, ReconsOK
<1> SUFFICES ASSUME NEW q \in Reconcilers PROVE RestartClear(q)'
  BY DEF RestartsClear
<1>1. ASSUME UNCHANGED <<rpc[q], rview[q], plan[q]>> PROVE RestartClear(q)'
  <2>1. RestartClear(q)
    BY DEF RestartsClear
  <2>2. CASE Acting(q) /\ plan[q].kind = "restart" /\ plan[q].health # "stale"
    BY <1>1, <2>1, <2>2, ActsAlone, TreeMoves DEF RestartClear, Acting
  <2> QED BY <1>1, <2>2 DEF RestartClear, Acting
<1>2. CASE UNCHANGED reconVars
  BY <1>1, <1>2 DEF reconVars
<1>3. ASSUME NEW r \in Reconcilers, ReconcilerNext(r), r # q
      PROVE  RestartClear(q)'
  <2>1. UNCHANGED <<rpc[q], rview[q], plan[q]>>
    BY <1>3
    DEF ReconcilerNext, ReconcileStep, List, LockBusy, Decide,
        StoreObservation, ApplyTrigger, CountRestart, SignalStale, GraceOver,
        Respawn, RespawnFails, Unstop, Publish, FailRun, BackoffWait,
        CrashReconciler, Release
  <2> QED BY <1>1, <2>1
<1>4. ASSUME ReconcilerNext(q) PROVE RestartClear(q)'
  <2>1. CASE Decide(q)
    <3>1. PICK h \in HealthSeen(rview[q]), ready \in BOOLEAN :
            /\ plan'[q].health = h
            /\ plan'[q].kind \in {Decision(rview[q], h, ready), "wait"}
      BY <2>1 DEF Decide
    <3>2. rview[q] \in Row /\ rview' = rview /\ tree' = tree
      BY <2>1, Listed DEF Decide
    <3> QED BY <3>1, <3>2, DecideClear DEF RestartClear
  <2>2. CASE \/ CountRestart(q) \/ SignalStale(q) \/ GraceOver(q)
             \/ RespawnFails(q)
    <3>1. Acting(q) /\ UNCHANGED <<rview, plan, tree>>
      BY <2>2
      DEF CountRestart, SignalStale, GraceOver, RespawnFails, Acting, Inside,
          ReconPC, WorkerKnown, RestartPlanned
    <3> QED BY <3>1 DEF RestartsClear, RestartClear
  <2>3. CASE \/ List(q) \/ LockBusy(q) \/ StoreObservation(q)
             \/ ApplyTrigger(q) \/ Respawn(q) \/ Unstop(q) \/ Publish(q)
             \/ FailRun(q) \/ BackoffWait(q) \/ CrashReconciler(q)
    <3>1. rpc'[q] \in {"idle", "listed", "unstop", "publish"}
      BY <2>3
      DEF List, LockBusy, StoreObservation, ApplyTrigger, Respawn, Unstop,
          Publish, FailRun, BackoffWait, CrashReconciler, Release
    <3> QED BY <3>1 DEF RestartClear, Acting, Inside
  <2> QED BY <1>4, <2>1, <2>2, <2>3 DEF ReconcilerNext, ReconcileStep
<1>5. CASE UNCHANGED vars
  BY <1>2, <1>5 DEF vars, notWorkers, reconVars
<1> QED
  BY <1>2, <1>3, <1>4, <1>5, OthersLeaveRecons
  DEF UnattendedNext, UserStep, Stops

LEMMA ReplacementStep ==
  ASSUME TypeOK, LockHeld, WorkerKnown, GraceForStale, ReplacementUndisturbed,
         [UnattendedNext]_vars
  PROVE  ReplacementUndisturbed'
<1> USE DEF TypeOK, ReconsOK
<1> DEFINE Undisturbed(r) ==
      Replacing(r) => row.state = Counted(r) /\ row.status = rview[r].status
<1>1. ASSUME UNCHANGED <<row, rpc, rview, plan>> PROVE ReplacementUndisturbed'
  BY <1>1 DEF ReplacementUndisturbed, Replacing, Counted
<1>2. ASSUME NEW w \in Workers, WorkerStep(w) \/ WorkerEvent(w)
      PROVE  ReplacementUndisturbed'
  <2>1. w \in LiveWorkers
    BY <1>2
    DEF LiveWorkers, Alive, WorkerStep, Boot, Enter, ClearStop, Begin, Loop,
        StepBegins, Halt, WriteOutcome, SelfStop, SelfStopSet, SelfStopWrite,
        SelfKill, SelfStopDone, Cleanup, WorkerEvent, PreflightFails,
        RunFlowException, AgentActs, TurnEnds, TurnRaises, DieInBoot,
        WatchdogExit, CrashWorker
  <2>2. ASSUME NEW r \in Reconcilers, Replacing(r) PROVE FALSE
    <3>1. Acting(r) /\ plan[r].kind = "restart" /\ plan[r].health # "stale"
      BY <2>2
      DEF Replacing, Acting, Inside, ReconPC, WorkerKnown, RestartPlanned
    <3> QED BY <2>1, <3>1, ActsAlone
  <2>3. UNCHANGED reconVars
    BY <1>2, OthersLeaveRecons
  <2> QED BY <2>2, <2>3 DEF ReplacementUndisturbed, Replacing, reconVars
<1>3. ASSUME NEW r \in Reconcilers, ReconcilerNext(r)
      PROVE  ReplacementUndisturbed'
  <2>1. CASE List(r) \/ LockBusy(r) \/ Decide(r)
    <3>1. /\ row' = row /\ ~Replacing(r)'
          /\ \A q \in Reconcilers :
               q # r => UNCHANGED <<rpc[q], rview[q], plan[q]>>
      BY <2>1 DEF List, LockBusy, Decide, Replacing
    <3>2. ASSUME NEW q \in Reconcilers PROVE Undisturbed(q)'
      <4>1. CASE q = r
        BY <3>1, <4>1
      <4>2. CASE q # r
        <5>1. Undisturbed(q)
          BY DEF ReplacementUndisturbed
        <5>2. UNCHANGED <<row, rpc[q], rview[q], plan[q]>>
          BY <3>1, <4>2
        <5> QED BY <5>1, <5>2 DEF Replacing, Counted
      <4> QED BY <4>1, <4>2
    <3> QED BY <3>2 DEF ReplacementUndisturbed
  <2>2. CASE ~(List(r) \/ LockBusy(r) \/ Decide(r))
    <3>1. rpc[r] \in Inside
      BY <1>3, <2>2
      DEF ReconcilerNext, ReconcileStep, StoreObservation, ApplyTrigger,
          CountRestart, SignalStale, GraceOver, Respawn, RespawnFails, Unstop,
          Publish, FailRun, BackoffWait, CrashReconciler, Inside, ReconPC
    <3>2. ASSUME NEW q \in Reconcilers, q # r PROVE ~Replacing(q)'
      <4>1. rpc'[q] = rpc[q] /\ rpc[q] \notin Inside
        BY <1>3, <3>1, <3>2, Alone
        DEF ReconcilerNext, ReconcileStep, List, LockBusy, Decide,
            StoreObservation, ApplyTrigger, CountRestart, SignalStale,
            GraceOver, Respawn, RespawnFails, Unstop, Publish, FailRun,
            BackoffWait, CrashReconciler, Release
      <4> QED BY <4>1 DEF Replacing, Inside, ReconPC
    <3>3. Undisturbed(r)'
      <4>1. CASE CountRestart(r)
        <5>1. rview[r] \in Row
          BY <4>1, Listed DEF CountRestart
        <5> QED BY <4>1, <5>1 DEF CountRestart, Counted, SharedOK, Row
      <4>2. CASE SignalStale(r)
        BY <4>2
        DEF SignalStale, ReplacementUndisturbed, Replacing, Counted
      <4>3. CASE GraceOver(r)
        BY <4>3 DEF GraceOver, GraceForStale, Replacing
      <4>4. CASE \/ Respawn(r) \/ RespawnFails(r) \/ Unstop(r)
                 \/ StoreObservation(r) \/ ApplyTrigger(r) \/ Publish(r)
                 \/ FailRun(r) \/ BackoffWait(r) \/ CrashReconciler(r)
        <5>1. rpc'[r] \in {"unstop", "failed", "publish", "idle"}
          BY <4>4
          DEF Respawn, RespawnFails, Unstop, StoreObservation, ApplyTrigger,
              Publish, FailRun, BackoffWait, CrashReconciler, Release
        <5> QED BY <5>1 DEF Replacing
      <4> QED BY <1>3, <2>2, <4>1, <4>2, <4>3, <4>4
              DEF ReconcilerNext, ReconcileStep
    <3> QED BY <3>2, <3>3 DEF ReplacementUndisturbed
  <2> QED BY <2>1, <2>2
<1>4. CASE ReaperNext
  BY <1>1, <1>4, OthersLeaveRecons
  DEF ReaperNext, ReaperScan, ReaperSignal, ReaperKill, reconVars
<1>5. CASE Ensure
  BY <1>1, <1>5 DEF Ensure, reconVars
<1>6. CASE UNCHANGED vars
  BY <1>1, <1>6 DEF vars, notWorkers, reconVars
<1> QED BY <1>2, <1>3, <1>4, <1>5, <1>6 DEF UnattendedNext

LEMMA ReplacementInit ==
  Init => GraceForStale /\ RestartsClear /\ ReplacementUndisturbed
BY DEF Init, GraceForStale, RestartsClear, RestartClear, Acting, Inside,
       ReplacementUndisturbed, Replacing

LEMMA GraceForStaleAlways == Spec => []GraceForStale
<1>1. Init => GraceForStale
  BY ReplacementInit
<1> QED BY <1>1, TypeCorrect, GraceForStaleStep, PTL DEF Spec

\* While a reconciler replaces a dead worker of a run left to the machinery,
\* the row keeps the attempt that reconcile_flow_run has counted: whoever else
\* could write it is dead, waits for the lock or gave up.
THEOREM ReplacementUndisturbedAlways == Unattended => []ReplacementUndisturbed
<1>1. Init => ReplacementUndisturbed
  BY ReplacementInit
<1>2. Unattended => Init /\ [][UnattendedNext]_vars
  BY DEF Unattended
<1> QED
  BY <1>1, <1>2, UnattendedIsSpec, TypeCorrect, LockSafe, WorkerKnownAlways,
     GraceForStaleAlways, ReplacementStep, PTL

LEMMA RestartsClearAlways == Spec => [](Watched => RestartsClear)
<1>1. Init => NoResume /\ (Watched => RestartsClear)
  BY ReplacementInit DEF Init, NoResume
<1>2. TypeOK /\ NoResume /\ (Watched => WorkerKnown) /\
      (Watched => RestartsClear) /\ [Next]_vars => (Watched => RestartsClear)'
  BY WatchedMoves, RestartsClearStep
<1> QED
  BY <1>1, <1>2, TypeCorrect, StoppedWorkerKnown, PastGrows, PTL DEF Spec

\* A reconciler spawns no replacement over a done ticket in a dirty worktree
\* that the record names, though it looked at the tree before it counted the
\* attempt: nobody is left who could have changed it, and a stop changes nothing
\* about that.
THEOREM StoppedBarrier ==
  Spec => [][\A r \in Reconcilers :
               Watched /\ Respawn(r) /\ plan[r].health # "stale" =>
                 tree # "doneDirty" \/ rview[r].state.commit = "unnamed"]_vars
<1>1. (Watched => WorkerKnown /\ RestartsClear) /\ TypeOK =>
        \A r \in Reconcilers :
          Watched /\ Respawn(r) /\ plan[r].health # "stale" =>
            tree # "doneDirty" \/ rview[r].state.commit = "unnamed"
  <2> SUFFICES ASSUME TypeOK, WorkerKnown, RestartsClear,
                      NEW r \in Reconcilers, Respawn(r),
                      plan[r].health # "stale"
               PROVE  tree # "doneDirty" \/ rview[r].state.commit = "unnamed"
    OBVIOUS
  <2>1. Acting(r) /\ plan[r].kind = "restart"
    BY DEF Respawn, Acting, Inside, ReconPC, WorkerKnown, RestartPlanned
  <2> QED BY <2>1 DEF RestartsClear, RestartClear
<1> QED
  BY <1>1, TypeCorrect, StoppedWorkerKnown, RestartsClearAlways, PTL

\* The same of a run left to the machinery.
THEOREM BarrierAlways == Unattended => BarrierBlocksRestart
<1>1. Watched =>
        ((\A r \in Reconcilers :
            Watched /\ Respawn(r) /\ plan[r].health # "stale" =>
              tree # "doneDirty" \/ rview[r].state.commit = "unnamed") =>
         (\A r \in Reconcilers :
            Respawn(r) /\ plan[r].health # "stale" =>
              tree # "doneDirty" \/ rview[r].state.commit = "unnamed"))
  OBVIOUS
<1> QED
  BY <1>1, UnattendedIsSpec, UnattendedWatched, StoppedBarrier, PTL
  DEF BarrierBlocksRestart
=============================================================================
