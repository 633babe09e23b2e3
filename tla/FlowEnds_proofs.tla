-------------------------- MODULE FlowEnds_proofs --------------------------
(***************************************************************************)
(* Who can start a run again that finished or that its user stopped.  No   *)
(* UPDATE of the row asks for the status it expects, so what protects the  *)
(* end of a run is only that nobody works on a record of an ended run.     *)
(* And that all writers together keep to RunLifecycle: since nobody makes  *)
(* a write depend on the status it overwrites, every write must fit the    *)
(* record it was made from.                                                *)
(***************************************************************************)
EXTENDS FlowRecovery_proofs

LEMMA InitUnfinished == Init => RecordsUnfinished
BY DEF Init, RecordsUnfinished, Unfinished

\* A step of somebody else than the workers, the reconcilers and the user.
LEMMA SameRecords ==
  ASSUME RecordsUnfinished,
         UNCHANGED <<pc, view, out, rpc, rview, upc, uview, userStopped>>
  PROVE  RecordsUnfinished'
BY DEF RecordsUnfinished, Unfinished

\* A worker's step is judged by the one record it may change.
LEMMA WorkerUnfinished ==
  ASSUME TypeOK, RecordsUnfinished, NEW w \in Workers,
         UNCHANGED <<rpc, rview, upc, uview, userStopped>>,
         \A v \in Workers : v # w => /\ pc'[v] = pc[v] /\ view'[v] = view[v]
                                    /\ out'[v] = out[v],
         Unfinished(w)'
  PROVE  RecordsUnfinished'
<1>1. ASSUME NEW v \in Workers, v # w PROVE Unfinished(v)'
  BY <1>1 DEF RecordsUnfinished, Unfinished
<1>2. \A v \in Workers : Unfinished(v)'
  BY <1>1
<1> QED BY <1>2 DEF RecordsUnfinished

LEMMA GoneUnfinished ==
  ASSUME TypeOK, RecordsUnfinished, NEW w \in Workers, Gone(w),
         UNCHANGED <<rpc, rview, upc, uview, userStopped>>
  PROVE  RecordsUnfinished'
<1>1. /\ \A v \in Workers : v # w => /\ pc'[v] = pc[v] /\ view'[v] = view[v]
                                     /\ out'[v] = out[v]
      /\ pc'[w] = "gone"
  BY DEF Gone, TypeOK, WorkersOK
<1>2. Unfinished(w)'
  BY <1>1 DEF Unfinished
<1> QED BY <1>1, <1>2, WorkerUnfinished

\* The end, or the birth, of a worker leaves the others alone.
LEMMA EndOrBirth ==
  ASSUME TypeOK, RecordsUnfinished, NEW w \in Workers,
         Gone(w) \/ (Spawn(w) /\ UNCHANGED <<view, out>>)
  PROVE  \A v \in Workers : Unfinished(v)'
<1> SUFFICES ASSUME NEW v \in Workers PROVE Unfinished(v)'
  OBVIOUS
<1>1. /\ v # w => pc'[v] = pc[v] /\ view'[v] = view[v] /\ out'[v] = out[v]
      /\ pc'[w] \in {"gone", "boot"}
  BY DEF Gone, Spawn, TypeOK, WorkersOK
<1> QED BY <1>1 DEF RecordsUnfinished, Unfinished

LEMMA RunningAfter ==
  ASSUME NEW r \in Row, NEW v \in Row, NEW o \in State
  PROVE  /\ FlowStart(r, v).status = "running"
         /\ FlowResume(r, v).status = "running"
         /\ StepContinue(r, v, o).status = "running"
BY DEF Row, FlowStart, FlowResume, StepContinue

LEMMA WorkerStepUnfinished ==
  ASSUME TypeOK, RecordsUnfinished, NEW w \in Workers, WorkerStep(w)
  PROVE  RecordsUnfinished'
<1> USE DEF notWorkers, reconVars, notRecons, userVars, userPast, files
<1> DEFINE Same == /\ UNCHANGED <<rpc, rview, upc, uview, userStopped>>
                   /\ \A v \in Workers : v # w => out'[v] = out[v]
<1>1. /\ row \in Row /\ pc \in [Workers -> WorkerPC]
      /\ view \in [Workers -> Row \cup {NoRow}]
      /\ out \in [Workers -> Outcome]
  BY DEF TypeOK, SharedOK, WorkersOK
<1>2. Unfinished(w)
  BY DEF RecordsUnfinished
<1> USE DEF Unfinished, Finished, Terminal
<1>3. CASE \/ Boot(w) \/ ClearStop(w) \/ SelfStopDone(w) \/ Halt(w)
           \/ SelfStop(w) \/ StepBegins(w)
  BY <1>1, <1>2, <1>3, WorkerUnfinished
  DEF Boot, ClearStop, SelfStopDone, Halt, SelfStop, StepBegins
<1>4. CASE Enter(w)
  BY <1>1, <1>4, WorkerUnfinished DEF Enter
<1>5. CASE Begin(w)
  <2>1. view[w] \in Row
    BY <1>5, Held DEF Begin, TypeOK, Holding
  <2>2. row'.status = "running"
    BY <1>1, <1>5, <2>1, RunningAfter, RowParts DEF Begin
  <2> QED BY <1>1, <1>5, <2>2, WorkerUnfinished DEF Begin
<1>6. CASE Loop(w)
  BY <1>1, <1>6, WorkerUnfinished DEF Loop
<1>7. CASE WriteOutcome(w)
  <2>1. view[w] \in Row /\ out[w].state \in State
    BY <1>7, Held DEF WriteOutcome, TypeOK, Holding
  <2>2. CASE view[w].status \in RequiresStep /\ out[w].kind = "continue"
    <3>1. row' = StepContinue(row, view[w], out[w].state)
      BY <1>7, <2>2 DEF WriteOutcome
    <3>2. row'.status = "running"
      BY <1>1, <2>1, <3>1, RunningAfter
    <3>3. /\ view' = [view EXCEPT ![w] = row']
          /\ pc' = [pc EXCEPT ![w] = "loop"]
      BY <1>7, <2>2 DEF WriteOutcome
    <3>4. Same
      BY <1>1, <1>7 DEF WriteOutcome
    <3> QED BY <1>1, <3>2, <3>3, <3>4, WorkerUnfinished
  <2>3. CASE ~(view[w].status \in RequiresStep /\ out[w].kind = "continue")
    <3>1. /\ view' = [view EXCEPT ![w] = NoRow]
          /\ pc' = [pc EXCEPT ![w] = "cleanup"]
      BY <1>7, <2>3 DEF WriteOutcome
    <3>2. Same
      BY <1>1, <1>7 DEF WriteOutcome
    <3> QED BY <1>1, <3>1, <3>2, WorkerUnfinished
  <2> QED BY <2>2, <2>3
<1>8. CASE SelfStopSet(w)
  <2>1. row'.status = row.status /\ Same
    BY <1>1, <1>8 DEF SelfStopSet, Row
  <2>2. CASE row.status \in RequiresStop
    <3>1. /\ view' = [view EXCEPT ![w] = row']
          /\ pc' = [pc EXCEPT ![w] = "selfstop"]
      BY <1>8, <2>2 DEF SelfStopSet
    <3> QED BY <1>1, <2>1, <2>2, <3>1, WorkerUnfinished DEF RequiresStop
  <2>3. CASE row.status \notin RequiresStop
    <3>1. pc' = [pc EXCEPT ![w] = "cleanup"] /\ view' = view
      BY <1>8, <2>3 DEF SelfStopSet
    <3> QED BY <1>1, <2>1, <3>1, WorkerUnfinished
  <2> QED BY <2>2, <2>3
<1>9. CASE SelfStopWrite(w)
  <2>1. /\ view' = [view EXCEPT ![w] = NoRow] /\ Same
        /\ \E p \in {"selfkill", "cleanup"} : pc' = [pc EXCEPT ![w] = p]
    BY <1>9 DEF SelfStopWrite
  <2> QED BY <1>1, <2>1, WorkerUnfinished
<1>10. CASE SelfKill(w)
  <2>1. target[w] \in Workers
    BY <1>10 DEF SelfKill, TypeOK, WorkersOK
  <2> QED BY <1>10, <2>1, GoneUnfinished DEF SelfKill
<1>11. CASE Cleanup(w)
  BY <1>11, GoneUnfinished DEF Cleanup
<1> QED
  BY <1>3, <1>4, <1>5, <1>6, <1>7, <1>8, <1>9, <1>10, <1>11 DEF WorkerStep

LEMMA WorkerEventUnfinished ==
  ASSUME TypeOK, RecordsUnfinished, NEW w \in Workers, WorkerEvent(w)
  PROVE  RecordsUnfinished'
<1> USE DEF notWorkers, notFaulty, reconVars, notRecons, userVars, userPast, files,
            workerVars
<1>1. /\ row \in Row /\ pc \in [Workers -> WorkerPC]
      /\ view \in [Workers -> Row \cup {NoRow}]
      /\ out \in [Workers -> Outcome]
  BY DEF TypeOK, SharedOK, WorkersOK
<1> USE DEF Unfinished
<1>3. CASE DieInBoot(w) \/ WatchdogExit(w) \/ CrashWorker(w)
  BY <1>3, GoneUnfinished DEF DieInBoot, WatchdogExit, CrashWorker
<1>4. CASE AgentActs(w)
  BY <1>4, SameRecords DEF AgentActs
<1>5. CASE PreflightFails(w) \/ RunFlowException(w)
  BY <1>1, <1>5, WorkerUnfinished DEF PreflightFails, RunFlowException
<1>6. CASE TurnEnds(w)
  <2>1. /\ \/ /\ view' = [view EXCEPT ![w] = NoRow]
              /\ pc' = [pc EXCEPT ![w] = "cleanup"]
           \/ /\ view' = [view EXCEPT ![w] = row] /\ row.status \notin Terminal
              /\ pc' = [pc EXCEPT ![w] = "write"]
        /\ UNCHANGED <<rpc, rview, upc, uview, userStopped>>
    BY <1>6 DEF TurnEnds, ReadBack
  <2>2. out' = out \/ \E o : out' = [out EXCEPT ![w] = o]
    BY <1>6 DEF TurnEnds, ReadBack
  <2>3. \A v \in Workers : v # w => out'[v] = out[v]
    BY <1>1, <2>2
  <2> QED BY <1>1, <2>1, <2>3, WorkerUnfinished
<1>7. CASE TurnRaises(w)
  BY <1>1, <1>7, WorkerUnfinished DEF TurnRaises, ReadBack
<1> QED BY <1>3, <1>4, <1>5, <1>6, <1>7 DEF WorkerEvent

LEMMA ReconcilerUnfinished ==
  ASSUME TypeOK, RecordsUnfinished, NEW r \in Reconcilers, ReconcilerNext(r)
  PROVE  RecordsUnfinished'
<1> USE DEF notRecons, userVars, userPast, userPast, workerVars, TypeOK, ReconsOK
<1>1. UNCHANGED <<upc, uview, userStopped>>
  BY DEF ReconcilerNext, ReconcileStep, List, LockBusy, Decide,
         StoreObservation, ApplyTrigger, CountRestart, SignalStale, GraceOver,
         Respawn, RespawnFails, Unstop, Publish, FailRun, BackoffWait,
         CrashReconciler, reaperVars
<1>2. \A q \in Reconcilers :
        rpc'[q] # "idle" => rview'[q].status \in Reconcilable
  <2>1. CASE List(r)
    BY <2>1 DEF List, RecordsUnfinished
  <2>3. CASE /\ rpc' = [rpc EXCEPT ![r] = "idle"]
             /\ rview' = [rview EXCEPT ![r] = NoRow]
    BY <2>3 DEF RecordsUnfinished
  <2>4. CASE \/ Decide(r) \/ CountRestart(r) \/ SignalStale(r) \/ GraceOver(r)
             \/ Respawn(r) \/ RespawnFails(r) \/ Unstop(r)
    <3>1. rview' = rview /\ rpc[r] # "idle"
      BY <2>4 DEF Decide, CountRestart, SignalStale, GraceOver, Respawn,
                  RespawnFails, Unstop
    <3>2. \A q \in Reconcilers : q # r => rpc'[q] = rpc[q]
      BY <2>4 DEF Decide, CountRestart, SignalStale, GraceOver, Respawn,
                  RespawnFails, Unstop
    <3> QED BY <3>1, <3>2 DEF RecordsUnfinished
  <2>5. CASE LockBusy(r)
    BY <2>3, <2>5 DEF LockBusy
  <2>6. CASE \/ StoreObservation(r) \/ BackoffWait(r) \/ ApplyTrigger(r)
             \/ Publish(r) \/ FailRun(r) \/ CrashReconciler(r)
    BY <2>3, <2>6
    DEF StoreObservation, BackoffWait, ApplyTrigger, Publish, FailRun,
        CrashReconciler, Release
  <2> QED BY <2>1, <2>4, <2>5, <2>6 DEF ReconcilerNext, ReconcileStep
<1>3. \/ UNCHANGED <<pc, view, out>>
      \/ \E w \in Workers : Gone(w)
      \/ \E w \in Workers : Spawn(w) /\ UNCHANGED <<view, out>>
  <2>1. CASE GraceOver(r)
    <3>1. plan[r].victim \in Workers
      BY <2>1, Listed DEF GraceOver
    <3> QED BY <2>1, <3>1 DEF GraceOver
  <2>2. CASE Respawn(r)
    BY <2>2 DEF Respawn
  <2>3. CASE ~GraceOver(r) /\ ~Respawn(r)
    BY <2>3
    DEF ReconcilerNext, ReconcileStep, List, LockBusy, Decide,
        StoreObservation, ApplyTrigger, CountRestart, SignalStale,
        RespawnFails, Unstop, Publish, FailRun, BackoffWait, CrashReconciler
  <2> QED BY <2>1, <2>2, <2>3
<1>4. ASSUME NEW v \in Workers PROVE Unfinished(v)'
  BY <1>3, EndOrBirth DEF RecordsUnfinished, Unfinished
<1> QED BY <1>1, <1>2, <1>4 DEF RecordsUnfinished

LEMMA UserUnfinished ==
  ASSUME TypeOK, RecordsUnfinished,
         UserStep \/ StopAsk \/ ResumeRead \/ Supersede
  PROVE  RecordsUnfinished'
<1> USE DEF reconVars, workerVars, files, userOps, userPast, TypeOK, Finished,
            RequiresStop, Terminal
<1>1. CASE Ensure
  <2>1. \A w \in Workers : Unfinished(w)'
    BY <1>1, EndOrBirth DEF Ensure, RecordsUnfinished, Unfinished
  <2> QED BY <1>1, <2>1 DEF Ensure, RecordsUnfinished
<1>2. CASE StopGrace
  <2>1. upid \in Workers
    BY <1>2 DEF StopGrace, UserOK
  <2>2. \A w \in Workers : Unfinished(w)'
    <3>1. CASE Gone(upid)
      BY <2>1, <3>1, EndOrBirth
    <3>2. CASE UNCHANGED workerVars
      BY <3>2 DEF RecordsUnfinished, Unfinished
    <3> QED BY <1>2, <3>1, <3>2 DEF StopGrace
  <2> QED BY <1>2, <2>2 DEF StopGrace, RecordsUnfinished
<1>3. CASE StopAsk \/ StopRead \/ StopKill \/ ResumeRefused \/ ResumeWrite
           \/ StopWrite
  BY <1>3
  DEF StopAsk, StopRead, StopKill, ResumeRefused, ResumeWrite, StopWrite,
      RecordsUnfinished, Unfinished
<1>4. CASE StopSet
  <2>1. row'.status = row.status
    BY <1>4 DEF StopSet, SharedOK, Row
  <2>2. upc' = "stopwrite" => uview'.status \in RequiresStop
    BY <1>4, <2>1 DEF StopSet
  <2> QED BY <1>4, <2>2 DEF StopSet, RecordsUnfinished, Unfinished
<1>5. CASE ResumeRead \/ ResumeClear
  BY <1>5 DEF ResumeRead, ResumeClear, RecordsUnfinished, Unfinished
<1>6. CASE Supersede
  BY <1>6, SameRecords DEF Supersede, userVars
<1> QED BY <1>1, <1>2, <1>3, <1>4, <1>5, <1>6 DEF UserStep

LEMMA UnfinishedStep ==
  ASSUME TypeOK, RecordsUnfinished, [Next]_vars PROVE RecordsUnfinished'
<1>1. CASE UNCHANGED vars
  BY <1>1, SameRecords
  DEF vars, workerVars, notWorkers, reconVars, notRecons, userVars, userPast
<1>2. CASE ReaperNext
  <2>1. CASE ReaperScan \/ ReaperSignal
    BY <2>1, SameRecords
    DEF ReaperScan, ReaperSignal, workerVars, reconVars, userVars, userPast
  <2>2. CASE ReaperKill
    <3>1. jpid \in Workers
      BY <2>2 DEF ReaperKill, TypeOK, ReaperOK
    <3> QED BY <2>2, <3>1, SameRecords, GoneUnfinished
            DEF ReaperKill, workerVars, reconVars, userVars, userPast
  <2> QED BY <1>2, <2>1, <2>2 DEF ReaperNext
<1> QED
  BY <1>1, <1>2, WorkerStepUnfinished, WorkerEventUnfinished,
     ReconcilerUnfinished, UserUnfinished
  DEF Next, UnattendedNext, UserStep

\* No actor writes from a record in which the run has ended, save a step that
\* raises (run_flow, stop_flow, resume_flow, reconcile_flow_run).
THEOREM UnfinishedAlways == Spec => []RecordsUnfinished
BY InitUnfinished, UnfinishedStep, TypeCorrect, PTL DEF Spec

-----------------------------------------------------------------------------
(* Every write of the status is made from a record. *)

\* What the writer of a new status holds, and that it moves on.
Writing(w) ==
  /\ pc'[w] # pc[w]
  /\ pc[w] \in Holding \ {"turn"}
  /\ pc[w] = "write" => view[w].status \in RequiresStep
Writer ==
  \/ row'.status = row.status
  \/ row.status = "paused" /\ row'.status = "superseded"
  \/ \E w \in Workers : Writing(w)
  \/ \E r \in Reconcilers : rpc[r] # "idle" /\ rpc'[r] # rpc[r]
  \/ upc = "stopwrite" /\ row'.status = "stopped" /\ upc' # upc
  \/ upc = "resumewrite" /\ upc' # upc

LEMMA WorkerWrites ==
  ASSUME TypeOK, NEW w \in Workers, WorkerStep(w) \/ WorkerEvent(w)
  PROVE  row'.status = row.status \/ Writing(w)
<1> USE DEF Writing, TypeOK, SharedOK, WorkersOK, notWorkers, notFaulty, files, Holding
<1>1. CASE WorkerStep(w)
  <2>1. CASE ClearStop(w) \/ SelfStopSet(w)
    BY <2>1 DEF ClearStop, SelfStopSet, Row
  <2>2. CASE Begin(w) \/ Halt(w) \/ WriteOutcome(w) \/ SelfStopWrite(w)
    BY <2>2 DEF Begin, Halt, WriteOutcome, SelfStopWrite
  <2>3. CASE \/ Boot(w) \/ Enter(w) \/ Loop(w) \/ StepBegins(w) \/ SelfStop(w)
             \/ SelfKill(w) \/ SelfStopDone(w) \/ Cleanup(w)
    BY <2>3
    DEF Boot, Enter, Loop, StepBegins, SelfStop, SelfKill, SelfStopDone,
        Cleanup
  <2> QED BY <1>1, <2>1, <2>2, <2>3 DEF WorkerStep
<1>2. CASE WorkerEvent(w)
  BY <1>2
  DEF WorkerEvent, PreflightFails, RunFlowException, AgentActs, TurnEnds,
      TurnRaises, DieInBoot, WatchdogExit, CrashWorker
<1> QED BY <1>1, <1>2

LEMMA ReconcilerWrites ==
  ASSUME TypeOK, NEW r \in Reconcilers, ReconcilerNext(r)
  PROVE  row' = row \/ (rpc[r] # "idle" /\ rpc'[r] # rpc[r])
BY DEF TypeOK, ReconsOK, Release, ReconcilerNext, ReconcileStep, List, LockBusy, Decide,
       StoreObservation, ApplyTrigger, CountRestart, SignalStale, GraceOver,
       Respawn, RespawnFails, Unstop, Publish, FailRun, BackoffWait,
       CrashReconciler, Inside, ReconPC

LEMMA UserWrites ==
  ASSUME TypeOK, UserStep \/ StopAsk \/ ResumeRead \/ Supersede
  PROVE  \/ row'.status = row.status
         \/ row.status = "paused" /\ row'.status = "superseded"
         \/ upc = "stopwrite" /\ row'.status = "stopped" /\ upc' # upc
         \/ upc = "resumewrite" /\ upc' # upc
<1> USE DEF TypeOK, SharedOK, Row
<1>1. CASE StopSet \/ ResumeRead \/ ResumeClear \/ Supersede
  BY <1>1 DEF StopSet, ResumeRead, ResumeClear, Supersede
<1>2. CASE StopWrite
  BY <1>2 DEF StopWrite, StopRequested
<1>3. CASE \/ Ensure \/ StopAsk \/ StopRead \/ StopKill \/ StopGrace
           \/ ResumeRefused \/ ResumeWrite
  BY <1>3
  DEF Ensure, StopAsk, StopRead, StopKill, StopGrace, ResumeRefused,
      ResumeWrite
<1> QED BY <1>1, <1>2, <1>3 DEF UserStep

LEMMA SomeoneWrites == ASSUME TypeOK, [Next]_vars PROVE Writer
<1>1. CASE ReaperNext
  BY <1>1 DEF ReaperNext, ReaperScan, ReaperSignal, ReaperKill, Writer
<1>2. CASE UNCHANGED vars
  BY <1>2 DEF vars, Writer
<1> QED
  BY <1>1, <1>2, WorkerWrites, ReconcilerWrites, UserWrites
  DEF Next, UnattendedNext, UserStep, Writer

\* A finished run changes its status again only by an actor that writes from a
\* record of its own that is older than the end, in every interleaving of any
\* number of workers and reconcilers.
THEOREM FinishedStaysAlways == Spec => FinishedStays
<1>1. ASSUME TypeOK, RecordsUnfinished, [Next]_vars,
             row.status \in Finished, row'.status # row.status
      PROVE  \/ \E w \in Workers : LateWorker(w)
             \/ \E r \in Reconcilers : LateReconciler(r)
             \/ LateUser
  <2> USE NoRowIsNoRow DEF TypeOK, Foreign, Finished
  <2>1. ASSUME NEW w \in Workers, Writing(w) PROVE LateWorker(w)
    <3>1. view[w] # NoRow
      BY <1>1, <2>1 DEF Writing, WorkersOK
    <3>2. view[w].status \notin Finished
      BY <1>1, <2>1
      DEF RecordsUnfinished, Unfinished, Writing, Holding, RequiresStep,
          Terminal
    <3> QED BY <1>1, <2>1, <3>1, <3>2 DEF LateWorker, Writing
  <2>2. ASSUME NEW r \in Reconcilers, rpc[r] # "idle", rpc'[r] # rpc[r]
        PROVE  LateReconciler(r)
    BY <1>1, <2>2 DEF ReconsOK, RecordsUnfinished, Reconcilable, LateReconciler
  <2>3. CASE upc \in {"stopwrite", "resumewrite"} /\ upc' # upc
    BY <1>1, <2>3 DEF UserOK, RecordsUnfinished, RequiresStop, LateUser
  <2> QED BY <1>1, <2>1, <2>2, <2>3, SomeoneWrites DEF Writer
<1>2. ASSUME TypeOK, RecordsUnfinished, [Next]_vars
      PROVE  [row.status \in Finished /\ row'.status # row.status =>
                \/ \E w \in Workers : LateWorker(w)
                \/ \E r \in Reconcilers : LateReconciler(r)
                \/ LateUser]_vars
  BY <1>1, <1>2
<1> QED
  BY <1>2, TypeCorrect, UnfinishedAlways, PTL DEF Spec, FinishedStays

\* What a user stopped stays stopped but for a worker or a reconciler that
\* writes from a record of its own older than the stop, and for a worker that is
\* only starting; the user's own resume ends userStopped first.
THEOREM StopSticksAlways == Spec => StopSticks
<1>1. ASSUME TypeOK, RecordsUnfinished, [Next]_vars,
             row.status = "stopped", userStopped, row'.status # "stopped"
      PROVE  \/ \E w \in Workers : LateWorker(w) \/ Starts(w)
             \/ \E r \in Reconcilers : LateReconciler(r)
  <2> USE NoRowIsNoRow DEF TypeOK, Foreign
  <2>1. ASSUME NEW w \in Workers, Writing(w) PROVE LateWorker(w) \/ Starts(w)
    <3>1. view[w] # NoRow
      BY <1>1, <2>1 DEF Writing, WorkersOK
    <3>2. view[w].status # "stopped" \/ pc[w] \in {"begin", "start"}
      BY <1>1, <2>1
      DEF RecordsUnfinished, Unfinished, Writing, Holding, RequiresStep,
          Terminal
    <3> QED BY <1>1, <2>1, <3>1, <3>2 DEF LateWorker, Starts, Writing
  <2>2. ASSUME NEW r \in Reconcilers, rpc[r] # "idle", rpc'[r] # rpc[r]
        PROVE  LateReconciler(r)
    BY <1>1, <2>2 DEF ReconsOK, RecordsUnfinished, Reconcilable, LateReconciler
  <2>3. upc # "resumewrite"
    BY <1>1 DEF RecordsUnfinished
  <2> QED BY <1>1, <2>1, <2>2, <2>3, SomeoneWrites DEF Writer
<1>2. ASSUME TypeOK, RecordsUnfinished, [Next]_vars
      PROVE  [row.status = "stopped" /\ userStopped /\ row'.status # "stopped" =>
                \/ \E w \in Workers : LateWorker(w) \/ Starts(w)
                \/ \E r \in Reconcilers : LateReconciler(r)]_vars
  BY <1>1, <1>2
<1> QED
  BY <1>2, TypeCorrect, UnfinishedAlways, PTL DEF Spec, StopSticks

-----------------------------------------------------------------------------
(* A pass of the reconciler never asks the reducer for what it refuses. *)

\* The statuses the reducer requires of a trigger; a restart is decided for a
\* running run only.
Requires(k) ==
  CASE k = "stopRequested" -> RequiresStop
    [] k = "engineCompleted" -> RequiresEngineCompleted
    [] k = "workerShutdown" -> RequiresWorkerShutdown
    [] k = "enginePaused" -> RequiresEnginePaused
    [] k = "stalePauseResume" -> RequiresStalePauseResume
    [] k = "clearStaleError" -> RequiresClearStaleError
    [] OTHER -> RequiresWorkerDead

Restarting == {"counted", "grace", "spawn", "unstop", "publish", "failed"}

\* The plan of a pass is one for the record it holds, and a worker stops itself
\* over a record that may be stopped.
PassFits(r) ==
  /\ rpc[r] \in Inside /\ plan[r].kind \notin {"none", "wait"} =>
       rview[r].status \in Requires(plan[r].kind)
  /\ rpc[r] \in Restarting => plan[r].kind = "restart"
SelfStopFits(w) == pc[w] = "selfstop" => view[w].status \in RequiresStop
TriggersFit ==
  /\ \A r \in Reconcilers : PassFits(r)
  /\ \A w \in Workers : SelfStopFits(w)

\* What the supervisor decides about a record the reducer accepts for it.
LEMMA DecisionFits ==
  ASSUME NEW v, NEW h, NEW ready, Decision(v, h, ready) # "none"
  PROVE  v.status \in Requires(Decision(v, h, ready))
<1> USE DEF Requires, RequiresStop, RequiresEngineCompleted, RequiresWorkerDead,
            RequiresWorkerShutdown, RequiresEnginePaused,
            RequiresStalePauseResume, RequiresClearStaleError
<1>1. CASE v.status = "pending"
  BY <1>1 DEF Decision
<1>2. CASE v.status = "paused"
  BY <1>2 DEF Decision
<1>3. CASE v.status = "running"
  <2>1. DeadPlan(v, h, ready) \in {"restart", "workerDead"}
    BY DEF DeadPlan
  <2>2. Decision(v, h, ready) \in {"engineCompleted", "workerShutdown", "restart",
                                   "workerDead", "enginePaused", "clearStaleError",
                                   "none"}
    BY <1>3, <2>1 DEF Decision
  <2> QED BY <1>3, <2>2
<1>4. CASE v.status \notin {"pending", "running", "paused"}
  BY <1>4 DEF Decision
<1> QED BY <1>1, <1>2, <1>3, <1>4

LEMMA PassStep ==
  ASSUME TypeOK, NEW r \in Reconcilers, PassFits(r), ReconcilerNext(r)
  PROVE  PassFits(r)'
<1> USE DEF PassFits
<1>1. /\ rpc \in [Reconcilers -> ReconPC] /\ plan \in [Reconcilers -> Plan]
      /\ rview \in [Reconcilers -> Row \cup {NoRow}]
  BY DEF TypeOK, ReconsOK
<1>2. CASE List(r) \/ LockBusy(r)
  BY <1>1, <1>2 DEF List, LockBusy, Inside, Restarting
<1>3. CASE Decide(r)
  <2>1. PICK h \in HealthSeen(rview[r]), ready \in BOOLEAN :
          /\ rview' = rview /\ rpc'[r] = "decided"
          /\ \/ plan'[r].kind = "wait"
             \/ plan'[r].kind = Decision(rview[r], h, ready)
    BY <1>1, <1>3 DEF Decide
  <2> QED BY <1>1, <2>1, DecisionFits DEF Restarting
<1>4. CASE Release(r)
  BY <1>1, <1>4 DEF Release, Inside, Restarting
<1>5. CASE \/ StoreObservation(r) \/ BackoffWait(r) \/ ApplyTrigger(r)
           \/ Publish(r) \/ FailRun(r) \/ CrashReconciler(r)
  BY <1>4, <1>5
  DEF StoreObservation, BackoffWait, ApplyTrigger, Publish, FailRun, CrashReconciler
<1>6. CASE CountRestart(r)
  BY <1>1, <1>6 DEF CountRestart, Inside, ReconPC
<1>7. CASE \/ SignalStale(r) \/ GraceOver(r) \/ Respawn(r) \/ RespawnFails(r)
           \/ Unstop(r)
  <2>1. /\ rview' = rview /\ plan' = plan
        /\ rpc[r] \in Restarting /\ rpc'[r] \in Restarting
    BY <1>1, <1>7
    DEF SignalStale, GraceOver, Respawn, RespawnFails, Unstop, Restarting
  <2> QED BY <2>1 DEF Restarting, Inside, ReconPC
<1> QED BY <1>2, <1>3, <1>5, <1>6, <1>7 DEF ReconcilerNext, ReconcileStep

\* A pass leaves the passes of the others alone.
LEMMA OtherPass ==
  ASSUME TypeOK, NEW r \in Reconcilers, NEW q \in Reconcilers, q # r,
         ReconcilerNext(r)
  PROVE  rpc'[q] = rpc[q] /\ rview'[q] = rview[q] /\ plan'[q] = plan[q]
<1> USE DEF TypeOK, ReconsOK
<1>1. CASE Release(r)
  BY <1>1 DEF Release
<1>2. CASE \/ StoreObservation(r) \/ BackoffWait(r) \/ ApplyTrigger(r)
           \/ Publish(r) \/ FailRun(r) \/ CrashReconciler(r)
  BY <1>1, <1>2
  DEF StoreObservation, BackoffWait, ApplyTrigger, Publish, FailRun, CrashReconciler
<1>3. CASE Decide(r)
  BY <1>3 DEF Decide
<1>4. CASE \/ List(r) \/ LockBusy(r) \/ CountRestart(r) \/ SignalStale(r)
           \/ GraceOver(r) \/ Respawn(r) \/ RespawnFails(r) \/ Unstop(r)
  BY <1>4
  DEF List, LockBusy, CountRestart, SignalStale, GraceOver, Respawn, RespawnFails,
      Unstop
<1> QED BY <1>2, <1>3, <1>4 DEF ReconcilerNext, ReconcileStep

LEMMA SameFits ==
  ASSUME TriggersFit, UNCHANGED reconVars,
         \A w \in Workers : pc'[w] = "selfstop" => pc[w] = "selfstop" /\ view'[w] = view[w]
  PROVE  TriggersFit'
BY DEF TriggersFit, PassFits, SelfStopFits, reconVars

\* A turn that is over ends the process or goes on to write its outcome.
LEMMA TurnOver ==
  ASSUME WorkersOK, NEW w \in Workers, TurnEnds(w) \/ TurnRaises(w)
  PROVE  /\ \E p \in {"cleanup", "write"} : pc' = [pc EXCEPT ![w] = p]
         /\ \E v \in {NoRow, row', view[w]} : view' = [view EXCEPT ![w] = v]
<1>1. row' = row /\ \E held \in {row, view[w]} : ReadBack(w, held)
  BY DEF TurnEnds, TurnRaises
<1> QED BY <1>1 DEF ReadBack

\* A worker that goes another way than into its own stop.
LEMMA WayFits ==
  ASSUME WorkersOK, NEW w \in Workers, NEW p, p # "selfstop",
         \/ pc' = [pc EXCEPT ![w] = p] /\ \A v \in Workers : v # w => view'[v] = view[v]
         \/ Gone(w)
         \/ Spawn(w) /\ view' = view
         \/ UNCHANGED <<pc, view>>
  PROVE  \A v \in Workers :
           pc'[v] = "selfstop" => pc[v] = "selfstop" /\ view'[v] = view[v]
BY DEF WorkersOK, Gone, Spawn

LEMMA WorkerFits ==
  ASSUME TypeOK, TriggersFit, NEW w \in Workers, WorkerStep(w) \/ WorkerEvent(w)
  PROVE  TriggersFit'
<1> USE DEF notWorkers, notFaulty, reconVars, notRecons, workerVars
<1>1. WorkersOK BY DEF TypeOK
<1>2. UNCHANGED reconVars
  BY DEF WorkerStep, WorkerEvent, Boot, Enter, ClearStop, Begin, Loop, Halt,
         StepBegins, WriteOutcome, SelfStop, SelfStopSet, SelfStopWrite, SelfKill,
         SelfStopDone, Cleanup, PreflightFails, RunFlowException, AgentActs, TurnEnds,
         TurnRaises, DieInBoot, WatchdogExit, CrashWorker
<1>3. CASE SelfStopSet(w)
  <2>1. row'.status = row.status
    BY <1>3 DEF SelfStopSet, TypeOK, SharedOK, Row
  <2>2. ASSUME NEW v \in Workers PROVE SelfStopFits(v)'
    <3>1. CASE v = w
      BY <1>1, <1>3, <2>1, <3>1 DEF SelfStopSet, SelfStopFits, WorkersOK
    <3>2. CASE v # w
      <4>1. pc'[v] = pc[v] /\ view'[v] = view[v]
        BY <1>1, <1>3, <3>2 DEF SelfStopSet, WorkersOK
      <4> QED BY <4>1 DEF TriggersFit, SelfStopFits
    <3> QED BY <3>1, <3>2
  <2> QED BY <1>2, <2>2 DEF TriggersFit, PassFits
<1>4. CASE \/ Boot(w) \/ PreflightFails(w) \/ ClearStop(w) \/ Begin(w)
           \/ Halt(w) \/ StepBegins(w) \/ RunFlowException(w)
  <2>1. /\ \E p \in {"entry", "cleanup", "start", "loop", "turn"} :
             pc' = [pc EXCEPT ![w] = p]
        /\ \A v \in Workers : v # w => view'[v] = view[v]
    BY <1>1, <1>4
    DEF Boot, PreflightFails, ClearStop, Begin, Halt, StepBegins, RunFlowException,
        WorkersOK
  <2> QED BY <1>1, <1>2, <2>1, WayFits, SameFits
<1>5. CASE Enter(w) \/ Loop(w) \/ WriteOutcome(w) \/ SelfStop(w)
  <2>1. /\ \E p \in {"begin", "cleanup", "halt", "step", "loop", "selfset"} :
             pc' = [pc EXCEPT ![w] = p]
        /\ \A v \in Workers : v # w => view'[v] = view[v]
    BY <1>1, <1>5 DEF Enter, Loop, WriteOutcome, SelfStop, WorkersOK
  <2> QED BY <1>1, <1>2, <2>1, WayFits, SameFits
<1>6. CASE TurnEnds(w) \/ TurnRaises(w)
  <2>1. /\ \E p \in {"cleanup", "write"} : pc' = [pc EXCEPT ![w] = p]
        /\ \A v \in Workers : v # w => view'[v] = view[v]
    BY <1>1, <1>6, TurnOver DEF WorkersOK
  <2> QED BY <1>1, <1>2, <2>1, WayFits, SameFits
<1>7. CASE SelfStopWrite(w) \/ SelfStopDone(w)
  <2>1. /\ \E p \in {"selfkill", "cleanup"} : pc' = [pc EXCEPT ![w] = p]
        /\ \A v \in Workers : v # w => view'[v] = view[v]
    BY <1>1, <1>7 DEF SelfStopWrite, SelfStopDone, WorkersOK
  <2> QED BY <1>1, <1>2, <2>1, WayFits, SameFits
<1>8. CASE SelfKill(w)
  <2>1. target[w] \in Workers
    BY <1>1, <1>8 DEF SelfKill, WorkersOK
  <2>2. Gone(target[w]) BY <1>8 DEF SelfKill
  <2> QED BY <1>1, <1>2, <2>1, <2>2, WayFits, SameFits
<1>9. CASE \/ Cleanup(w) \/ DieInBoot(w) \/ WatchdogExit(w) \/ CrashWorker(w)
  <2>1. Gone(w) BY <1>9 DEF Cleanup, DieInBoot, WatchdogExit, CrashWorker
  <2> QED BY <1>1, <1>2, <2>1, WayFits, SameFits
<1>10. CASE AgentActs(w)
  BY <1>2, <1>10, SameFits DEF AgentActs
<1> QED
  BY <1>3, <1>4, <1>5, <1>6, <1>7, <1>8, <1>9, <1>10 DEF WorkerStep, WorkerEvent

\* What an actor who is no worker may do to the workers.
LEMMA OutsideFits ==
  ASSUME TypeOK, [Next]_vars,
         ~\E w \in Workers : WorkerStep(w) \/ WorkerEvent(w)
  PROVE  \/ \E w \in Workers : Gone(w)
         \/ \E w \in Workers : Spawn(w) /\ view' = view
         \/ UNCHANGED <<pc, view>>
<1>0. ReconsOK /\ ReaperOK /\ UserOK BY DEF TypeOK
<1> USE DEF workerVars
<1>1. CASE \E r \in Reconcilers : ReconcilerNext(r)
  <2>1. PICK r \in Reconcilers : ReconcilerNext(r) BY <1>1
  <2>2. CASE GraceOver(r)
    <3>1. plan[r].victim \in Workers
      BY <1>0, <2>2, Listed DEF GraceOver, ReconsOK
    <3>2. Gone(plan[r].victim) \/ UNCHANGED <<pc, view>>
      BY <2>2 DEF GraceOver
    <3> QED BY <3>1, <3>2
  <2>3. CASE Respawn(r)
    BY <2>3 DEF Respawn
  <2>4. CASE ~GraceOver(r) /\ ~Respawn(r)
    BY <2>1, <2>4
    DEF ReconcilerNext, ReconcileStep, List, LockBusy, Decide, StoreObservation,
        ApplyTrigger, CountRestart, SignalStale, RespawnFails, Unstop, Publish,
        FailRun, BackoffWait, CrashReconciler
  <2> QED BY <2>2, <2>3, <2>4
<1>2. CASE ReaperNext
  <2>1. CASE ReaperKill
    <3>1. jpid \in Workers BY <1>0, <2>1 DEF ReaperKill, ReaperOK
    <3>2. Gone(jpid) \/ UNCHANGED <<pc, view>>
      BY <2>1 DEF ReaperKill
    <3> QED BY <3>1, <3>2
  <2> QED BY <1>2, <2>1 DEF ReaperNext, ReaperScan, ReaperSignal
<1>3. CASE Ensure \/ StopGrace
  <2>1. CASE StopGrace
    <3>1. upid \in Workers BY <1>0, <2>1 DEF StopGrace, UserOK
    <3>2. Gone(upid) \/ UNCHANGED <<pc, view>>
      BY <2>1 DEF StopGrace
    <3> QED BY <3>1, <3>2
  <2> QED BY <1>3, <2>1 DEF Ensure
<1>4. CASE \/ StopAsk \/ StopRead \/ StopSet \/ StopWrite \/ StopKill
           \/ ResumeRead \/ ResumeClear \/ ResumeRefused \/ ResumeWrite \/ Supersede
  BY <1>4
  DEF StopAsk, StopRead, StopSet, StopWrite, StopKill, ResumeRead, ResumeClear,
      ResumeRefused, ResumeWrite, Supersede
<1>5. CASE UNCHANGED vars
  BY <1>5 DEF vars
<1> QED BY <1>1, <1>2, <1>3, <1>4, <1>5 DEF Next, UnattendedNext, UserStep

LEMMA FitsStep == ASSUME TypeOK, TriggersFit, [Next]_vars PROVE TriggersFit'
<1>1. CASE \E w \in Workers : WorkerStep(w) \/ WorkerEvent(w)
  BY <1>1, WorkerFits
<1>2. CASE ~\E w \in Workers : WorkerStep(w) \/ WorkerEvent(w)
  <2>1. \A v \in Workers :
          pc'[v] = "selfstop" => pc[v] = "selfstop" /\ view'[v] = view[v]
    BY <1>2, OutsideFits, WayFits DEF TypeOK
  <2>2. CASE \E r \in Reconcilers : ReconcilerNext(r)
    <3>1. PICK r \in Reconcilers : ReconcilerNext(r) BY <2>2
    <3>2. PassFits(r)' BY <3>1, PassStep DEF TriggersFit
    <3>3. ASSUME NEW q \in Reconcilers, q # r PROVE PassFits(q)'
      BY <3>1, <3>3, OtherPass DEF TriggersFit, PassFits
    <3>4. \A w \in Workers : SelfStopFits(w)'
      BY <2>1 DEF TriggersFit, SelfStopFits
    <3> QED BY <3>2, <3>3, <3>4 DEF TriggersFit
  <2>3. CASE ~\E r \in Reconcilers : ReconcilerNext(r)
    <3>1. UNCHANGED reconVars
      BY <1>2, <2>3
      DEF Next, UnattendedNext, UserStep, ReaperNext, ReaperScan, ReaperSignal,
          ReaperKill, Ensure, StopAsk, StopRead, StopSet, StopWrite, StopKill,
          StopGrace, ResumeRead, ResumeClear, ResumeRefused, ResumeWrite, Supersede,
          vars, notWorkers, reconVars
    <3> QED BY <2>1, <3>1, SameFits
  <2> QED BY <2>2, <2>3
<1> QED BY <1>1, <1>2

\* A pass applies no trigger to a record the reducer refuses it for, and a worker
\* that was told to end stops its run only from a record that may be stopped.
THEOREM TriggersFitAlways == Spec => []TriggersFit
<1>1. Init => TriggersFit
  BY DEF Init, TriggersFit, PassFits, SelfStopFits, Inside, Restarting
<1> QED BY <1>1, FitsStep, TypeCorrect, PTL DEF Spec

-----------------------------------------------------------------------------
(* The promise of RunLifecycle *)

\* Who takes a record takes the row as the step leaves it.
LEMMA ViewsRead ==
  ASSUME TypeOK, [Next]_vars
  PROVE  \A v \in Workers : view'[v] \in {view[v], NoRow, row'}
<1> USE DEF notWorkers, notFaulty, notRecons, workerVars
<1>1. WorkersOK BY DEF TypeOK
<1>2. ASSUME NEW w \in Workers, Gone(w)
      PROVE  \A v \in Workers : view'[v] \in {view[v], NoRow}
  BY <1>1, <1>2 DEF Gone, WorkersOK
<1>3. ASSUME NEW w \in Workers, WorkerStep(w)
      PROVE  \A v \in Workers : view'[v] \in {view[v], NoRow, row'}
  <2>1. CASE \/ Boot(w) \/ Enter(w) \/ ClearStop(w) \/ Begin(w) \/ Loop(w)
             \/ StepBegins(w) \/ Halt(w)
    BY <1>1, <2>1
    DEF Boot, Enter, ClearStop, Begin, Loop, StepBegins, Halt, WorkersOK
  <2>2. CASE SelfStop(w) \/ SelfStopSet(w) \/ SelfStopWrite(w) \/ SelfStopDone(w)
    BY <1>1, <2>2 DEF SelfStop, SelfStopSet, SelfStopWrite, SelfStopDone, WorkersOK
  <2>3. CASE WriteOutcome(w)
    <3>1. view' = [view EXCEPT ![w] = row'] \/ view' = [view EXCEPT ![w] = NoRow]
      BY <2>3 DEF WriteOutcome
    <3> QED BY <1>1, <3>1 DEF WorkersOK
  <2>4. CASE SelfKill(w)
    <3>1. target[w] \in Workers BY <1>1, <2>4 DEF SelfKill, WorkersOK
    <3>2. Gone(target[w]) BY <2>4 DEF SelfKill
    <3> QED BY <1>2, <3>1, <3>2
  <2>5. CASE Cleanup(w)
    BY <1>2, <2>5 DEF Cleanup
  <2> QED BY <1>3, <2>1, <2>2, <2>3, <2>4, <2>5 DEF WorkerStep
<1>4. ASSUME NEW w \in Workers, WorkerEvent(w)
      PROVE  \A v \in Workers : view'[v] \in {view[v], NoRow, row'}
  <2>1. CASE TurnEnds(w) \/ TurnRaises(w)
    BY <1>1, <2>1, TurnOver DEF WorkersOK
  <2>2. CASE PreflightFails(w) \/ RunFlowException(w) \/ AgentActs(w)
    BY <1>1, <2>2 DEF PreflightFails, RunFlowException, AgentActs, WorkersOK
  <2>3. CASE DieInBoot(w) \/ WatchdogExit(w) \/ CrashWorker(w)
    BY <1>2, <2>3 DEF DieInBoot, WatchdogExit, CrashWorker
  <2> QED BY <1>4, <2>1, <2>2, <2>3 DEF WorkerEvent
<1>5. CASE ~\E w \in Workers : WorkerStep(w) \/ WorkerEvent(w)
  BY <1>2, <1>5, OutsideFits
<1> QED BY <1>3, <1>4, <1>5

\* A worker leaves the records of the others alone.
LEMMA WorkersApart ==
  ASSUME NEW w \in Workers, WorkerStep(w) \/ WorkerEvent(w)
  PROVE  rview' = rview /\ uview' = uview
<1> USE DEF notWorkers, notFaulty, notRecons, reconVars, userVars
<1>1. CASE WorkerEvent(w)
  BY <1>1
  DEF WorkerEvent, PreflightFails, RunFlowException, AgentActs, TurnEnds,
      TurnRaises, DieInBoot, WatchdogExit, CrashWorker
<1>2. CASE \/ Boot(w) \/ Enter(w) \/ ClearStop(w) \/ Begin(w) \/ Loop(w)
           \/ Halt(w) \/ StepBegins(w) \/ WriteOutcome(w)
  BY <1>2
  DEF Boot, Enter, ClearStop, Begin, Loop, Halt, StepBegins, WriteOutcome
<1>3. CASE \/ SelfStop(w) \/ SelfStopSet(w) \/ SelfStopWrite(w) \/ SelfKill(w)
           \/ SelfStopDone(w) \/ Cleanup(w)
  BY <1>3
  DEF SelfStop, SelfStopSet, SelfStopWrite, SelfKill, SelfStopDone, Cleanup
<1> QED BY <1>1, <1>2, <1>3 DEF WorkerStep

LEMMA ListsRead ==
  ASSUME TypeOK, [Next]_vars
  PROVE  \A r \in Reconcilers : rview'[r] \in {rview[r], NoRow, row'}
<1> USE DEF notWorkers, reconVars
<1>1. ReconsOK BY DEF TypeOK
<1>2. ASSUME NEW r \in Reconcilers, ReconcilerNext(r)
      PROVE  rview'[r] \in {rview[r], NoRow, row'}
  <2>1. CASE List(r) \/ LockBusy(r)
    BY <1>1, <2>1 DEF List, LockBusy, ReconsOK
  <2>2. CASE \/ StoreObservation(r) \/ BackoffWait(r) \/ ApplyTrigger(r)
             \/ Publish(r) \/ FailRun(r) \/ CrashReconciler(r)
    <3>1. Release(r)
      BY <2>2
      DEF StoreObservation, BackoffWait, ApplyTrigger, Publish, FailRun,
          CrashReconciler
    <3> QED BY <1>1, <3>1 DEF Release, ReconsOK
  <2>3. CASE \/ Decide(r) \/ CountRestart(r) \/ SignalStale(r)
             \/ GraceOver(r) \/ Respawn(r) \/ RespawnFails(r) \/ Unstop(r)
    BY <2>3
    DEF Decide, CountRestart, SignalStale, GraceOver, Respawn, RespawnFails, Unstop
  <2> QED BY <1>2, <2>1, <2>2, <2>3 DEF ReconcilerNext, ReconcileStep
<1>3. CASE \E r \in Reconcilers : ReconcilerNext(r)
  BY <1>2, <1>3, OtherPass
<1>4. CASE ~\E r \in Reconcilers : ReconcilerNext(r)
  <2>1. CASE \E w \in Workers : WorkerStep(w) \/ WorkerEvent(w)
    BY <2>1, WorkersApart
  <2>2. CASE ~\E w \in Workers : WorkerStep(w) \/ WorkerEvent(w)
    BY <1>4, <2>2
    DEF Next, UnattendedNext, UserStep, ReaperNext, ReaperScan, ReaperSignal,
        ReaperKill, Ensure, StopAsk, StopRead, StopSet, StopWrite, StopKill,
        StopGrace, ResumeRead, ResumeClear, ResumeRefused, ResumeWrite, Supersede,
        vars
  <2> QED BY <2>1, <2>2
<1> QED BY <1>3, <1>4

LEMMA UserReads ==
  ASSUME [Next]_vars
  PROVE  uview' \in {uview, NoRow, row'}
<1> USE DEF notWorkers, notRecons, notFaulty, userVars
<1>1. CASE \E w \in Workers : WorkerStep(w) \/ WorkerEvent(w)
  BY <1>1, WorkersApart
<1>2. CASE \E r \in Reconcilers : ReconcilerNext(r)
  BY <1>2
  DEF ReconcilerNext, ReconcileStep, List, LockBusy, Decide, StoreObservation,
      ApplyTrigger, CountRestart, SignalStale, GraceOver, Respawn, RespawnFails,
      Unstop, Publish, FailRun, BackoffWait, CrashReconciler
<1>3. CASE \/ ReaperNext \/ UserStep \/ StopAsk \/ ResumeRead \/ Supersede
           \/ UNCHANGED vars
  BY <1>3
  DEF UserStep, ReaperNext, ReaperScan, ReaperSignal, ReaperKill, Ensure, StopAsk,
      StopRead, StopSet, StopWrite, StopKill, StopGrace, ResumeRead, ResumeClear,
      ResumeRefused, ResumeWrite, Supersede, vars
<1> QED BY <1>1, <1>2, <1>3 DEF Next, UnattendedNext, UserStep

LEMMA KnownGrows ==
  ASSUME TypeOK, [Next]_vars
  PROVE  Known' \subseteq Known \cup {row'.status}
<1> SUFFICES ASSUME NEW s \in Known' PROVE s \in Known \/ s = row'.status
  OBVIOUS
<1>1. PICK v : /\ v # NoRow /\ s = v.status
               /\ \/ \E w \in Workers : v = view'[w]
                  \/ \E r \in Reconcilers : v = rview'[r]
                  \/ v = uview'
  BY DEF Known
<1>2. CASE \E w \in Workers : v = view'[w]
  BY <1>1, <1>2, ViewsRead DEF Known
<1>3. CASE \E r \in Reconcilers : v = rview'[r]
  BY <1>1, <1>3, ListsRead DEF Known
<1>4. CASE v = uview'
  BY <1>1, <1>4, UserReads DEF Known
<1> QED BY <1>1, <1>2, <1>3, <1>4

\* The moves that the writers make, by the status their record may have.
LEMMA MovesMade ==
  /\ \A s \in Status \ Finished :
       "running" \in Lifecycle!Moves[s] /\ "failed" \in Lifecycle!Moves[s]
  /\ \A s \in RequiresStop : "stopped" \in Lifecycle!Moves[s]
  /\ \A s \in RequiresEngineCompleted : "completed" \in Lifecycle!Moves[s]
  /\ {"stopped", "paused", "completed"} \subseteq Lifecycle!Moves["running"]
  /\ \A s \in Reconcilable : s \in Lifecycle!Moves[s]
BY DEF Lifecycle!Moves, Status, Finished, RequiresStop, RequiresEngineCompleted,
       Reconcilable

\* A move of the lifecycle from the status in a record that somebody holds.
MoveFrom(v) ==
  v # NoRow /\ v.status \in Status /\ row'.status \in Lifecycle!Moves[v.status]

LEMMA WorkerMoves ==
  ASSUME TypeOK, RecordsUnfinished, TriggersFit, NEW w \in Workers,
         WorkerStep(w) \/ WorkerEvent(w)
  PROVE  row'.status = row.status \/ MoveFrom(view[w])
<1>1. /\ row \in Row /\ WorkersOK /\ Unfinished(w) /\ SelfStopFits(w)
  BY DEF TypeOK, SharedOK, RecordsUnfinished, TriggersFit
<1>2. ASSUME pc[w] \in Holding
      PROVE  view[w] # NoRow /\ view[w] \in Row /\ view[w].status \in Status
  BY <1>1, <1>2, Held, RowParts DEF WorkersOK
<1>3. CASE Begin(w)
  <2>1. pc[w] = "start" BY <1>3 DEF Begin
  <2>2. row'.status = "running"
    BY <1>1, <1>3 DEF Begin, FlowStart, FlowResume, Row
  <2>3. view[w].status \in Status \ Finished
    BY <1>1, <1>2, <2>1 DEF Unfinished, Holding
  <2> QED BY <1>2, <2>1, <2>2, <2>3, MovesMade DEF MoveFrom, Holding
<1>4. CASE Halt(w) \/ SelfStopWrite(w)
  <2>1. pc[w] \in {"halt", "selfstop"} BY <1>4 DEF Halt, SelfStopWrite
  <2>2. CASE view[w].status \in RequiresStop
    <3>1. row' = StopRequested(row, view[w])
      BY <1>4, <2>2 DEF Halt, SelfStopWrite
    <3>2. row'.status = "stopped"
      BY <1>1, <3>1 DEF StopRequested, Row
    <3> QED BY <1>2, <2>1, <2>2, <3>2, MovesMade DEF MoveFrom, Holding
  <2>3. CASE view[w].status \notin RequiresStop
    BY <1>1, <1>4, <2>3 DEF Halt, SelfStopWrite, SelfStopFits
  <2> QED BY <2>2, <2>3
<1>5. CASE RunFlowException(w)
  <2>1. /\ pc[w] \in {"begin", "start", "loop", "halt", "step"}
        /\ row' = FlowException(row, view[w])
    BY <1>5 DEF RunFlowException
  <2>2. row'.status = "failed"
    BY <1>1, <2>1 DEF FlowException, Row
  <2>3. view[w].status \in Status \ Finished
    BY <1>1, <1>2, <2>1 DEF Unfinished, Holding, Finished, Terminal
  <2> QED BY <1>2, <2>1, <2>2, <2>3, MovesMade DEF MoveFrom, Holding
<1>6. CASE WriteOutcome(w)
  <2>1. pc[w] = "write" BY <1>6 DEF WriteOutcome
  <2>2. CASE view[w].status \in RequiresStep
    <3>1. out[w].kind \in Outcomes BY <1>1, Held
    <3>2. \/ row' = StepContinue(row, view[w], out[w].state)
          \/ row' = StepComplete(row, view[w], out[w].state)
          \/ row' = StepPause(row, view[w], out[w].state)
          \/ row' = StepFail(row, view[w], out[w].state)
          \/ row' = StepException(row, view[w])
      BY <1>6, <2>2, <3>1 DEF WriteOutcome, Outcomes
    <3>3. row'.status \in {"running", "completed", "paused", "failed"}
      BY <1>1, <3>2
      DEF StepContinue, StepComplete, StepPause, StepFail, StepException, Row
    <3>4. view[w].status = "running" BY <2>2 DEF RequiresStep
    <3>5. row'.status \in Lifecycle!Moves["running"]
      BY <3>3, MovesMade DEF Status, Finished
    <3> QED BY <1>2, <2>1, <3>4, <3>5 DEF MoveFrom, Holding
  <2>3. CASE view[w].status \notin RequiresStep
    BY <1>6, <2>3 DEF WriteOutcome
  <2> QED BY <2>2, <2>3
<1>7. CASE ClearStop(w) \/ SelfStopSet(w)
  BY <1>1, <1>7 DEF ClearStop, SelfStopSet, Row
<1>8. CASE \/ Boot(w) \/ Enter(w) \/ Loop(w) \/ StepBegins(w) \/ SelfStop(w)
           \/ SelfKill(w) \/ SelfStopDone(w) \/ Cleanup(w)
  BY <1>8
  DEF Boot, Enter, Loop, StepBegins, SelfStop, SelfKill, SelfStopDone, Cleanup
<1>9. CASE \/ PreflightFails(w) \/ AgentActs(w) \/ TurnEnds(w) \/ TurnRaises(w)
           \/ DieInBoot(w) \/ WatchdogExit(w) \/ CrashWorker(w)
  BY <1>9
  DEF PreflightFails, AgentActs, TurnEnds, TurnRaises, DieInBoot, WatchdogExit,
      CrashWorker
<1> QED
  BY <1>3, <1>4, <1>5, <1>6, <1>7, <1>8, <1>9 DEF WorkerStep, WorkerEvent

\* What a trigger makes of the status.
LEMMA ReducedTo ==
  ASSUME row \in Row, NEW r \in Reconcilers
  PROVE  Reduced(r).status =
           CASE plan[r].kind = "stopRequested" -> "stopped"
             [] plan[r].kind = "engineCompleted" -> "completed"
             [] plan[r].kind = "workerDead" -> "failed"
             [] plan[r].kind = "workerShutdown" -> "stopped"
             [] plan[r].kind = "enginePaused" -> "paused"
             [] OTHER -> "running"
BY DEF Reduced, StopRequested, EngineCompleted, WorkerDead, WorkerShutdown,
       EnginePaused, StalePauseResume, ClearStaleError, Row

LEMMA ReconcilerMoves ==
  ASSUME TypeOK, RecordsUnfinished, TriggersFit, NEW r \in Reconcilers,
         ReconcilerNext(r)
  PROVE  row'.status = row.status \/ MoveFrom(rview[r])
<1> DEFINE v == rview[r]
           k == plan[r].kind
<1>1. row \in Row /\ ReconsOK /\ PassFits(r)
  BY DEF TypeOK, SharedOK, TriggersFit
<1>2. ASSUME rpc[r] # "idle"
      PROVE  v # NoRow /\ v.status \in Reconcilable /\ v.status \in Status \ Finished
  BY <1>1, <1>2 DEF ReconsOK, RecordsUnfinished, Reconcilable, Status, Finished
<1>3. CASE StoreObservation(r) \/ CountRestart(r)
  <2>1. rpc[r] = "decided" BY <1>3 DEF StoreObservation, CountRestart
  <2>2. row'.status \in {row.status, v.status}
    BY <1>1, <1>3 DEF StoreObservation, CountRestart, Row
  <2> QED BY <1>2, <2>1, <2>2, MovesMade DEF MoveFrom
<1>4. CASE ApplyTrigger(r)
  <2>1. /\ rpc[r] = "decided" /\ k \notin {"none", "wait", "restart"}
        /\ row' = Reduced(r)
    BY <1>4 DEF ApplyTrigger
  <2>2. v.status \in Requires(k)
    BY <1>1, <2>1 DEF PassFits, Inside, ReconPC
  <2>3. row'.status \in Lifecycle!Moves[v.status]
    <3>1. CASE k = "stopRequested"
      BY <1>1, <2>1, <2>2, <3>1, ReducedTo, MovesMade DEF Requires
    <3>2. CASE k = "engineCompleted"
      BY <1>1, <2>1, <2>2, <3>2, ReducedTo, MovesMade DEF Requires
    <3>3. CASE k \in {"workerShutdown", "enginePaused"}
      <4>1. v.status = "running" /\ row'.status \in {"stopped", "paused"}
        BY <1>1, <2>1, <2>2, <3>3, ReducedTo
        DEF Requires, RequiresWorkerShutdown, RequiresEnginePaused
      <4> QED BY <4>1, MovesMade
    <3>4. CASE k \notin {"stopRequested", "engineCompleted", "workerShutdown",
                         "enginePaused"}
      <4>1. row'.status \in {"running", "failed"}
        BY <1>1, <2>1, <3>4, ReducedTo
      <4> QED BY <1>2, <2>1, <4>1, MovesMade
    <3> QED BY <3>1, <3>2, <3>3, <3>4
  <2> QED BY <1>2, <2>1, <2>3 DEF MoveFrom
<1>5. CASE Publish(r) \/ FailRun(r)
  <2>1. rpc[r] # "idle" /\ row'.status \in {"running", "failed"}
    BY <1>1, <1>5 DEF Publish, FailRun, WorkerDead, Row
  <2> QED BY <1>2, <2>1, MovesMade DEF MoveFrom
<1>6. CASE Unstop(r)
  BY <1>1, <1>6 DEF Unstop, Row
<1>7. CASE \/ List(r) \/ LockBusy(r) \/ Decide(r) \/ SignalStale(r)
           \/ GraceOver(r) \/ Respawn(r) \/ RespawnFails(r) \/ BackoffWait(r)
           \/ CrashReconciler(r)
  BY <1>7
  DEF List, LockBusy, Decide, SignalStale, GraceOver, Respawn, RespawnFails,
      BackoffWait, CrashReconciler
<1> QED BY <1>3, <1>4, <1>5, <1>6, <1>7 DEF ReconcilerNext, ReconcileStep

LEMMA UserMoves ==
  ASSUME TypeOK, RecordsUnfinished, UserStep \/ StopAsk \/ ResumeRead
  PROVE  row'.status = row.status \/ MoveFrom(uview)
<1>1. row \in Row /\ UserOK BY DEF TypeOK, SharedOK
<1>2. ASSUME upc \in {"stopwrite", "resumewrite"}
      PROVE  uview # NoRow /\ uview.status \in Status
  BY <1>1, <1>2, RowParts DEF UserOK
<1>3. CASE StopWrite
  <2>1. upc = "stopwrite" /\ row'.status = "stopped"
    BY <1>1, <1>3 DEF StopWrite, StopRequested, Row
  <2>2. uview.status \in RequiresStop BY <2>1 DEF RecordsUnfinished
  <2> QED BY <1>2, <2>1, <2>2, MovesMade DEF MoveFrom
<1>4. CASE ResumeWrite
  <2>1. upc = "resumewrite" /\ row'.status = "running"
    BY <1>1, <1>4 DEF ResumeWrite, Row
  <2>2. uview.status \notin Finished BY <2>1 DEF RecordsUnfinished
  <2> QED BY <1>2, <2>1, <2>2, MovesMade DEF MoveFrom
<1>5. CASE StopSet \/ ResumeClear
  BY <1>1, <1>5 DEF StopSet, ResumeClear, Row
<1>6. CASE \/ Ensure \/ StopAsk \/ StopRead \/ StopKill \/ StopGrace
           \/ ResumeRead \/ ResumeRefused
  BY <1>6
  DEF Ensure, StopAsk, StopRead, StopKill, StopGrace, ResumeRead, ResumeRefused
<1> QED BY <1>3, <1>4, <1>5, <1>6 DEF UserStep

LEMMA HeldIsKnown ==
  /\ \A w \in Workers : view[w] # NoRow => view[w].status \in Known
  /\ \A r \in Reconcilers : rview[r] # NoRow => rview[r].status \in Known
  /\ uview # NoRow => uview.status \in Known
BY DEF Known

\* Every step reads, makes a move of the lifecycle, or supersedes the run.
LEMMA LifecycleStep ==
  ASSUME TypeOK, RecordsUnfinished, TriggersFit, [Next]_vars
  PROVE  [Lifecycle!Next]_(Lifecycle!vars)
<1> USE DEF Lifecycle!Next
<1>1. Known' \subseteq Known \cup {row'.status}
  BY KnownGrows
<1>2. CASE row'.status = row.status
  BY <1>1, <1>2 DEF Lifecycle!Read
<1>3. ASSUME NEW v, MoveFrom(v), v # NoRow => v.status \in Known
      PROVE  Lifecycle!Next
  BY <1>1, <1>3 DEF Lifecycle!Write, MoveFrom
<1>4. CASE \E w \in Workers : WorkerStep(w) \/ WorkerEvent(w)
  BY <1>2, <1>3, <1>4, WorkerMoves, HeldIsKnown
<1>5. CASE \E r \in Reconcilers : ReconcilerNext(r)
  BY <1>2, <1>3, <1>5, ReconcilerMoves, HeldIsKnown
<1>6. CASE UserStep \/ StopAsk \/ ResumeRead
  BY <1>2, <1>3, <1>6, UserMoves, HeldIsKnown
<1>7. CASE Supersede
  <2>1. /\ row.status = "paused" /\ row'.status = "superseded"
        /\ view' = view /\ rview' = rview /\ uview' = uview
    BY <1>7 DEF Supersede, workerVars, reconVars, userVars, TypeOK, SharedOK, Row
  <2>2. Known' = Known BY <2>1 DEF Known
  <2> QED BY <2>1, <2>2 DEF Lifecycle!Supersede
<1>8. CASE ReaperNext \/ UNCHANGED vars
  <2>1. row' = row
    BY <1>8 DEF ReaperNext, ReaperScan, ReaperSignal, ReaperKill, vars
  <2> QED BY <1>2, <2>1
<1> QED BY <1>4, <1>5, <1>6, <1>7, <1>8 DEF Next, UnattendedNext, UserStep

\* Workers, reconcilers, reaper and user together change the status of a run as
\* RunLifecycle says: only from a status in a record they hold, only along the
\* lifecycle (run_flow, reconcile_flow_run, stop_flow, resume_flow, start_flow).
THEOREM ImplementsLifecycleAlways == Spec => ImplementsLifecycle
<1>1. Init => Lifecycle!Init
  BY DEF Init, Lifecycle!Init, Known, CreateFlowRun
<1>2. TypeOK /\ RecordsUnfinished /\ TriggersFit /\ [Next]_vars
      => [Lifecycle!Next]_(Lifecycle!vars)
  BY LifecycleStep
<1> QED
  BY <1>1, <1>2, TypeCorrect, UnfinishedAlways, TriggersFitAlways, PTL
  DEF Spec, ImplementsLifecycle, Lifecycle!Spec

=============================================================================
