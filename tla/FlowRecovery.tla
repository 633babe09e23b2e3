---------------------------- MODULE FlowRecovery ----------------------------
(***************************************************************************)
(* One ticket-flow run, its worker processes, the reconcilers that recover *)
(* it, the stale-worker reaper and a user who starts, stops and resumes    *)
(* it.  Nobody shares memory: they meet in the flow_runs row, in the files *)
(* worker.json and worker.exit.json, and through signals.                  *)
(*                                                                         *)
(* Every actor reads the row into a view of its own and later overwrites   *)
(* columns of the row from that view; no UPDATE carries a condition on the *)
(* status it expects.  A step of the model is the code between two points  *)
(* where another process can come in: a read of the row, a write of it, a  *)
(* wait for a process, an await.                                           *)
(***************************************************************************)
EXTENDS FlowLifecycle

CONSTANTS Workers,      \* the worker processes that may ever be spawned
          Reconcilers,  \* the processes that run reconcile_flow_runs
          MaxAttempts,  \* ticket_flow.restart_max_attempts
          MaxStops,     \* bound: stops the user asks for
          MaxResumes,   \* bound: resumes the user asks for
          MaxFaults,    \* bound: crashes, and errors nobody expects
          MaxReaps,     \* bound: workers the reaper goes after
          NoWorker,     \* no worker.json
          NoRow         \* no view

ASSUME MaxAttemptsAssumption == MaxAttempts \in Nat
ASSUME BoundsAssumption ==
         /\ MaxStops \in Nat /\ MaxResumes \in Nat
         /\ MaxFaults \in Nat /\ MaxReaps \in Nat
ASSUME NoWorkerAssumption == NoWorker \notin Workers \cup Reconcilers
ASSUME NoRowAssumption == NoRow \notin Row

VARIABLES
  row,       \* the flow_runs row
  tree,      \* the current ticket and the worktree under it
  meta,      \* the pid in worker.json
  exitInfo,  \* worker.exit.json
  pc,        \* where each worker process is
  view,      \* the record each worker holds
  out,       \* the outcome of each worker's last turn
  sig,       \* workers that were sent SIGTERM
  target,    \* the pid a worker's own stop_flow is terminating
  lock,      \* the holder of the run's reconcile lock
  rpc, rview, plan,   \* the reconcilers
  jpc, jpid, reaps,   \* the reaper, and how often it found a worker
  upc, uview, upid,   \* the user, and the pid whose end the user awaits
  stops, resumes,     \* what the user has asked for so far
  faults,             \* what went wrong so far
  autoSpawns,         \* how many workers the reconcilers spawned
  userStopped,        \* the user's last order was a stop
  forgot              \* a stop removed a live worker's worker.json (history)

workerVars == <<pc, view, out, sig, target>>
reconVars == <<lock, rpc, rview, plan>>
reaperVars == <<jpc, jpid, reaps>>
userOps == <<stops, resumes>>
userPast == <<userStopped, forgot>>
userVars == <<upc, uview, upid, userOps, userPast>>
files == <<meta, exitInfo>>
notRecons == <<reaperVars, userVars, faults, autoSpawns>>
notFaulty == <<reconVars, reaperVars, userVars, autoSpawns>>
notWorkers == <<reconVars, notRecons>>
vars == <<row, tree, files, workerVars, notWorkers>>

-----------------------------------------------------------------------------
WorkerPC == {"free", "boot", "entry", "begin", "start", "loop", "halt", "step",
             "turn", "write", "selfset", "selfstop", "selfkill", "cleanup",
             "gone"}
Alive(w) == pc[w] \notin {"free", "gone"}
LiveWorkers == {w \in Workers : Alive(w)}

Outcomes == {"continue", "complete", "pause", "fail", "exception"}
Outcome == [kind : Outcomes, state : State]
NoOutcome == [kind |-> "exception", state |-> CreateFlowRun.state]

ExitOrigin == {"none", "signal", "watchdog", "reaper", "terminated"}
ExitInfo == [pid : Workers \cup {NoWorker}, intent : BOOLEAN,
             origin : ExitOrigin]

Plans == {"none", "wait", "restart", "stopRequested", "engineCompleted",
          "workerDead", "workerShutdown", "enginePaused", "stalePauseResume",
          "clearStaleError"}
Healths == {"absent", "alive", "stale", "dead"}
Plan == [kind : Plans, health : Healths, required : BOOLEAN,
         victim : Workers \cup {NoWorker}]
NoPlan == [kind |-> "none", health |-> "absent", required |-> FALSE,
           victim |-> NoWorker]

ReconPC == {"idle", "listed", "decided", "counted", "grace", "spawn",
            "unstop", "publish", "failed"}
\* The reconciler is inside "with file_lock".
Inside == ReconPC \ {"idle", "listed"}
UserPC == {"idle", "stop", "stopset", "stopwrite", "stopkill", "stopgrace",
           "resumeclear", "resumewrite", "ensure"}

-----------------------------------------------------------------------------
\* check_worker_health.
Health == IF meta = NoWorker THEN "absent"
          ELSE IF Alive(meta) THEN "alive" ELSE "dead"

\* A wrong variant of the next operator, which forgets that only a live worker
\* can be stale.
HealthSeenUnchecked(v) ==
  IF v.status = "running" THEN {Health, "stale"} ELSE {Health}

\* annotate_stale_alive_health: the run had no event for the threshold. The
\* clock decides, whatever the worker is at: a turn takes as long as the agent
\* takes, and a worker that was started for a run left alone for long has no
\* event of its own yet.
HealthSeen(v) ==
  IF Health = "alive" /\ v.status = "running" THEN {"alive", "stale"}
  ELSE {Health}

\* write_worker_exit_info: it copies whatever pid worker.json holds, and keeps
\* an earlier shutdown intent unless told otherwise.
ExitWrite(intent, origin, preserve) ==
  [pid |-> meta, intent |-> intent \/ (preserve /\ exitInfo.intent),
   origin |-> origin]

\* The exit evidence check_worker_health attaches to a dead worker.
Evidence == Health = "dead" /\ exitInfo.pid = meta
ShutdownIntent == Evidence /\ exitInfo.intent
StaleReaperExit == Evidence /\ exitInfo.origin = "reaper"
RecoverableShutdown ==
  /\ Evidence
  /\ \/ exitInfo.origin = "watchdog"
     \/ exitInfo.origin = "signal" /\ ~exitInfo.intent

\* CommitBarrierObservation.required: only a stored current_ticket is looked at.
BarrierRequired(s) ==
  /\ s.commit # "unnamed"
  /\ IF tree = "open" THEN s.commit # "none" ELSE tree = "doneDirty"

\* RestartPolicyObservation
RestartEnabled(v) == v.status = "running" /\ (v.stop => RecoverableShutdown)
CanAttempt(v, ready) ==
  RestartEnabled(v) /\ ready /\ v.state.restarts < MaxAttempts

\* Wrong variants: one restarts over a commit barrier, one leaves it to somebody
\* else.
DeadPlanOverBarrier(v, h, ready) ==
  IF CanAttempt(v, ready) THEN "restart" ELSE "workerDead"
DeadPlanLeft(v, h, ready) ==
  IF ~CanAttempt(v, ready) THEN "workerDead"
  ELSE IF BarrierRequired(v.state) THEN "none" ELSE "restart"

\* _append_worker_dead_decision: restart or fail the run.
DeadPlan(v, h, ready) ==
  IF CanAttempt(v, ready)
     /\ (BarrierRequired(v.state) =>
           h = "stale" /\ v.state.commit # "exhausted")
  THEN "restart" ELSE "workerDead"

\* The restart backoff has not passed. A worker without metadata does not wait.
Waits(v, h, ready) == RestartEnabled(v) /\ ~ready /\ h \in {"dead", "stale"}

\* supervise_flow_recovery.  A pause for the user comes with an engine that is
\* paused, and the reason goes when the engine runs again: the code's question
\* for it, when a stale pause is resumed, is always answered no.
Decision(v, h, ready) ==
  LET deadish == h # "alive" IN
  CASE v.status = "pending" ->
         IF v.stop /\ deadish THEN "stopRequested" ELSE "none"
    [] v.status = "running" /\ v.state.engine = "completed" ->
         "engineCompleted"
    [] v.status = "running" /\ v.state.engine # "completed" /\ deadish ->
         IF v.stop /\ ShutdownIntent /\ ~StaleReaperExit /\ ~RecoverableShutdown
         THEN "workerShutdown" ELSE DeadPlan(v, h, ready)
    [] v.status = "running" /\ v.state.engine # "completed" /\ ~deadish ->
         IF v.state.engine = "paused" THEN "enginePaused"
         ELSE IF BarrierRequired(v.state) THEN "none"
         ELSE IF v.err THEN "clearStaleError" ELSE "none"
    [] v.status = "paused" ->
         IF v.state.engine = "completed" THEN "engineCompleted"
         ELSE IF v.state.engine \in {"none", "running"} /\ ~deadish
         THEN "stalePauseResume" ELSE "none"
    [] OTHER -> "none"

-----------------------------------------------------------------------------
(* A worker process: "car flow worker" around FlowRuntime.run_flow. *)

\* Something goes wrong that the machinery has to live with.
Fault == faults < MaxFaults /\ faults' = faults + 1

\* A process takes its memory and its pending signals with it.
Gone(w) ==
  /\ pc' = [pc EXCEPT ![w] = "gone"]
  /\ view' = [view EXCEPT ![w] = NoRow]
  /\ out' = [out EXCEPT ![w] = NoOutcome]
  /\ sig' = [sig EXCEPT ![w] = FALSE]
  /\ target' = [target EXCEPT ![w] = NoWorker]

\* subprocess.Popen, then worker.json with the child's pid.
Spawn(w) == /\ pc[w] = "free"
            /\ pc' = [pc EXCEPT ![w] = "boot"]
            /\ meta' = w

\* Preflight passed: register_worker_metadata.
Boot(w) == /\ pc[w] = "boot"
           /\ pc' = [pc EXCEPT ![w] = "entry"]
           /\ meta' = w
           /\ UNCHANGED <<row, tree, exitInfo, view, out, sig, target,
                          notWorkers>>

\* Preflight failed; only the atexit hook runs.
PreflightFails(w) ==
  /\ pc[w] = "boot"
  /\ Fault
  /\ pc' = [pc EXCEPT ![w] = "cleanup"]
  /\ UNCHANGED <<row, tree, files, view, out, sig, target, notFaulty>>

\* A wrong variant: the worker takes up whatever run it is given.
EnterAny(w) ==
  /\ pc[w] = "entry"
  /\ pc' = [pc EXCEPT ![w] = "begin"]
  /\ view' = [view EXCEPT ![w] = row]
  /\ UNCHANGED <<row, tree, files, out, sig, target, notWorkers>>

\* The worker reads the run: a completed or superseded one is left alone, a
\* stopped or failed one is taken up again.
Enter(w) ==
  /\ pc[w] = "entry"
  /\ IF row.status \in Terminal \ {"stopped", "failed"}
     THEN /\ pc' = [pc EXCEPT ![w] = "cleanup"]
          /\ UNCHANGED view
     ELSE /\ pc' = [pc EXCEPT ![w] = "begin"]
          /\ view' = [view EXCEPT ![w] = row]
  /\ UNCHANGED <<row, tree, files, out, sig, target, notWorkers>>

\* set_stop_requested(False): whatever was asked of an earlier worker.
ClearStop(w) ==
  /\ pc[w] = "begin"
  /\ row' = [row EXCEPT !.stop = FALSE]
  /\ pc' = [pc EXCEPT ![w] = "start"]
  /\ UNCHANGED <<tree, files, view, out, sig, target, notWorkers>>

\* FLOW_START or FLOW_RESUME of the view.
Begin(w) ==
  /\ pc[w] = "start"
  /\ row' = IF view[w].status \in RequiresFlowStart
            THEN FlowStart(row, view[w])
            ELSE FlowResume(row, view[w])
  /\ view' = [view EXCEPT ![w] = row']
  /\ pc' = [pc EXCEPT ![w] = "loop"]
  /\ UNCHANGED <<tree, files, out, sig, target, notWorkers>>

\* The head of run_flow's loop re-reads the run.
Loop(w) ==
  /\ pc[w] = "loop"
  /\ view' = [view EXCEPT ![w] = IF row.status \in Terminal THEN NoRow ELSE row]
  /\ pc' = [pc EXCEPT ![w] =
              CASE row.status \in Terminal -> "cleanup"
                [] row.status \notin Terminal /\ row.stop -> "halt"
                [] OTHER -> "step"]
  /\ UNCHANGED <<row, tree, files, out, sig, target, notWorkers>>

\* update_current_step returns the record as it is by now; nobody looks at its
\* status before the turn.
StepBegins(w) ==
  /\ pc[w] = "step"
  /\ view' = [view EXCEPT ![w] = row]
  /\ pc' = [pc EXCEPT ![w] = "turn"]
  /\ UNCHANGED <<row, tree, files, out, sig, target, notWorkers>>

\* STOP_REQUESTED of the view; a paused view is an InvalidTransition, which
\* nothing in run_flow catches.
Halt(w) ==
  /\ pc[w] = "halt"
  /\ row' = IF view[w].status \in RequiresStop
            THEN StopRequested(row, view[w]) ELSE row
  /\ view' = [view EXCEPT ![w] = NoRow]
  /\ pc' = [pc EXCEPT ![w] = "cleanup"]
  /\ UNCHANGED <<tree, files, out, sig, target, notWorkers>>

\* FLOW_EXCEPTION: a store operation of run_flow itself raised.
RunFlowException(w) ==
  /\ pc[w] \in {"begin", "start", "loop", "halt", "step"}
  /\ Fault
  /\ row' = FlowException(row, view[w])
  /\ view' = [view EXCEPT ![w] = NoRow]
  /\ pc' = [pc EXCEPT ![w] = "cleanup"]
  /\ UNCHANGED <<tree, files, out, sig, target, notFaulty>>

\* The step turns to its ticket, and the agent works on it: it may finish the
\* ticket or open it again, commit or leave changes behind.
AgentActs(w) ==
  /\ pc[w] = "turn"
  /\ tree' \in Trees \ {tree}
  /\ UNCHANGED <<row, files, workerVars, notWorkers>>

\* After a step the run is read again; a terminal one is left alone.
ReadBack(w, held) ==
  IF row.status \in Terminal
  THEN /\ view' = [view EXCEPT ![w] = NoRow]
       /\ pc' = [pc EXCEPT ![w] = "cleanup"]
       /\ UNCHANGED out
  ELSE /\ view' = [view EXCEPT ![w] = held]
       /\ pc' = [pc EXCEPT ![w] = "write"]

\* The step function returns; its output carries the state it was given.
TurnEnds(w) ==
  /\ pc[w] = "turn"
  /\ \E res \in StepResults(view[w].state.commit, tree) :
       /\ tree' = res[3]
       /\ row.status \notin Terminal =>
            \E engine \in EngineAfter[res[1]] :
              out' = [out EXCEPT ![w] =
                       [kind |-> res[1],
                        state |-> [view[w].state EXCEPT !.engine = engine,
                                                        !.commit = res[2]]]]
  /\ ReadBack(w, row)
  /\ UNCHANGED <<row, files, sig, target, notWorkers>>

\* The step function raises; the view stays the one the step began with.
TurnRaises(w) ==
  /\ pc[w] = "turn"
  /\ Fault
  /\ row.status \notin Terminal =>
       out' = [out EXCEPT ![w] =
                [kind |-> "exception", state |-> view[w].state]]
  /\ ReadBack(w, view[w])
  /\ UNCHANGED <<row, tree, files, sig, target, notFaulty>>

\* Reduce the outcome against the view and store it; a view that is not
\* running is an InvalidTransition that ends the process.
WriteOutcome(w) ==
  /\ pc[w] = "write"
  /\ LET v == view[w]
         o == out[w].state
         k == out[w].kind
         ok == v.status \in RequiresStep
     IN /\ row' = IF ~ok THEN row
                  ELSE CASE k = "continue" -> StepContinue(row, v, o)
                         [] k = "complete" -> StepComplete(row, v, o)
                         [] k = "pause" -> StepPause(row, v, o)
                         [] k = "fail" -> StepFail(row, v, o)
                         [] k = "exception" -> StepException(row, v)
        /\ out' = [out EXCEPT ![w] = NoOutcome]
        /\ IF ok /\ k = "continue"
           THEN /\ view' = [view EXCEPT ![w] = row']
                /\ pc' = [pc EXCEPT ![w] = "loop"]
           ELSE /\ view' = [view EXCEPT ![w] = NoRow]
                /\ pc' = [pc EXCEPT ![w] = "cleanup"]
  /\ UNCHANGED <<tree, files, sig, target, notWorkers>>

-----------------------------------------------------------------------------
(* How a worker process ends. *)

\* SIGTERM before the handler is installed.
DieInBoot(w) ==
  /\ pc[w] = "boot" /\ sig[w]
  /\ Gone(w)
  /\ UNCHANGED <<row, tree, files, notWorkers>>

\* SIGTERM while a turn is awaited: the worker calls controller.stop_flow on its
\* own run. A paused run raises there, a terminal one is returned.
SelfStop(w) ==
  /\ pc[w] = "turn" /\ sig[w]
  /\ view' = [view EXCEPT ![w] = NoRow]
  /\ pc' = [pc EXCEPT ![w] = IF row.status \in RequiresStop THEN "selfset"
                             ELSE "cleanup"]
  /\ UNCHANGED <<row, tree, files, out, sig, target, notWorkers>>

\* A wrong variant: the record set_stop_requested returns is not looked at.
StopSetAny ==
  /\ upc = "stopset"
  /\ row' = [row EXCEPT !.stop = TRUE]
  /\ uview' = row'
  /\ upc' = "stopwrite"
  /\ UNCHANGED <<tree, files, workerVars, reconVars, reaperVars, upid, userOps,
                 userPast, faults, autoSpawns>>

\* set_stop_requested(True) returns the record as it is by now.
SelfStopSet(w) ==
  /\ pc[w] = "selfset"
  /\ row' = [row EXCEPT !.stop = TRUE]
  /\ IF row.status \in RequiresStop
     THEN /\ view' = [view EXCEPT ![w] = row']
          /\ pc' = [pc EXCEPT ![w] = "selfstop"]
     ELSE /\ pc' = [pc EXCEPT ![w] = "cleanup"]
          /\ UNCHANGED view
  /\ UNCHANGED <<tree, files, out, sig, target, notWorkers>>

\* stop_flow stores the stop and goes on to _terminate_worker_after_user_stop,
\* which terminates the pid in worker.json: as a rule the worker's own pid.
SelfStopWrite(w) ==
  /\ pc[w] = "selfstop"
  /\ row' = StopRequested(row, view[w])
  /\ view' = [view EXCEPT ![w] = NoRow]
  /\ \/ /\ view[w].status = "running" /\ Health = "alive"
        /\ exitInfo' = ExitWrite(FALSE, "terminated", FALSE)
        /\ sig' = [sig EXCEPT ![meta] = TRUE]
        /\ target' = [target EXCEPT ![w] = meta]
        /\ pc' = [pc EXCEPT ![w] = "selfkill"]
        /\ UNCHANGED meta
     \/ /\ view[w].status # "running" \/ Health # "alive"
        /\ meta' = IF view[w].status = "running" THEN NoWorker ELSE meta
        /\ pc' = [pc EXCEPT ![w] = "cleanup"]
        /\ UNCHANGED <<exitInfo, sig, target>>
  /\ UNCHANGED <<tree, out, notWorkers>>

\* The grace period passes: a process that waits for its own end kills itself,
\* before it can close its agents.
SelfKill(w) ==
  /\ pc[w] = "selfkill" /\ Alive(target[w])
  /\ exitInfo' = ExitWrite(FALSE, "terminated", FALSE)
  /\ Gone(target[w])
  /\ UNCHANGED <<row, tree, meta, notWorkers>>

\* The pid was another worker's, and that one is gone.
SelfStopDone(w) ==
  /\ pc[w] = "selfkill" /\ ~Alive(target[w])
  /\ meta' = NoWorker
  /\ pc' = [pc EXCEPT ![w] = "cleanup"]
  /\ target' = [target EXCEPT ![w] = NoWorker]
  /\ UNCHANGED <<row, tree, exitInfo, view, out, sig, notWorkers>>

\* The normal way out: _write_exit_info, with the signal if there was one.
Cleanup(w) ==
  /\ pc[w] = "cleanup"
  /\ exitInfo' = ExitWrite(FALSE, IF sig[w] THEN "signal" ELSE "none", TRUE)
  /\ Gone(w)
  /\ UNCHANGED <<row, tree, meta, notWorkers>>

\* The watchdog thread sees a stalled stream and leaves with os._exit.
WatchdogExit(w) ==
  /\ pc[w] = "turn"
  /\ Fault
  /\ exitInfo' = ExitWrite(TRUE, "watchdog", TRUE)
  /\ Gone(w)
  /\ UNCHANGED <<row, tree, meta, notFaulty>>

\* The process is killed from outside and leaves no trace.
CrashWorker(w) ==
  /\ Alive(w)
  /\ Fault
  /\ Gone(w)
  /\ UNCHANGED <<row, tree, files, notFaulty>>

-----------------------------------------------------------------------------
(* A reconciler: reconcile_flow_runs lists the runs, then calls              *)
(* reconcile_flow_run on each record of the list.                            *)

List(r) ==
  /\ rpc[r] = "idle" /\ row.status \in Reconcilable
  /\ rview' = [rview EXCEPT ![r] = row]
  /\ rpc' = [rpc EXCEPT ![r] = "listed"]
  /\ UNCHANGED <<row, tree, files, workerVars, lock, plan, notRecons>>

\* file_lock(run lock path), tried once. The wrong variant takes a lock that
\* does not exclude.
LockAlwaysFree == TRUE
LockFree == lock = NoWorker

\* FileLockBusy
LockBusy(r) ==
  /\ rpc[r] = "listed" /\ ~LockFree
  /\ rview' = [rview EXCEPT ![r] = NoRow]
  /\ rpc' = [rpc EXCEPT ![r] = "idle"]
  /\ UNCHANGED <<row, tree, files, workerVars, lock, plan, notRecons>>

\* Take the lock, observe the worker, the worktree and the restart budget, and
\* let the supervisor decide about the record that was listed. The backoff runs
\* from the last attempt the record knows of.
Decide(r) ==
  /\ rpc[r] = "listed" /\ LockFree
  /\ lock' = r
  /\ \E h \in HealthSeen(rview[r]), ready \in BOOLEAN :
       LET v == rview[r]
           k == Decision(v, h, ready)
       IN /\ v.state.restarts = 0 => ready
          /\ plan' = [plan EXCEPT ![r] =
               [kind |-> IF k # "none" /\ Waits(v, h, ready) THEN "wait" ELSE k,
                health |-> h, required |-> BarrierRequired(v.state),
                victim |-> IF h = "stale" THEN meta ELSE NoWorker]]
  /\ rpc' = [rpc EXCEPT ![r] = "decided"]
  /\ UNCHANGED <<row, tree, files, workerVars, rview, notRecons>>

Release(r) ==
  /\ lock' = NoWorker
  /\ rview' = [rview EXCEPT ![r] = NoRow]
  /\ plan' = [plan EXCEPT ![r] = NoPlan]
  /\ rpc' = [rpc EXCEPT ![r] = "idle"]

\* _with_commit_barrier_recovery after _with_resolved_external_commit_barrier
Tidy(s, required) ==
  [s EXCEPT !.commit = IF tree = "doneClean" /\ @ # "unnamed" THEN "none" ELSE @,
            !.barrier = required]

\* _with_restart_attempt and _with_commit_barrier_recovery
Counted(r) == [rview[r].state EXCEPT !.restarts = @ + 1,
                                     !.barrier = plan[r].required]

\* No trigger: only what is known about the barrier is stored, with the status
\* the record had when it was listed.
StoreObservation(r) ==
  /\ rpc[r] = "decided" /\ plan[r].kind = "none"
  /\ LET s == Tidy(rview[r].state, plan[r].required) IN
       row' = IF s = rview[r].state THEN row
              ELSE [row EXCEPT !.status = rview[r].status, !.state = s]
  /\ Release(r)
  /\ UNCHANGED <<tree, files, workerVars, notRecons>>

BackoffWait(r) ==
  /\ rpc[r] = "decided" /\ plan[r].kind = "wait"
  /\ Release(r)
  /\ UNCHANGED <<row, tree, files, workerVars, notRecons>>

\* The reducer's result for the trigger the supervisor chose.
Reduced(r) ==
  LET v == rview[r]
      s == Tidy(v.state, plan[r].required)
      k == plan[r].kind
  IN CASE k = "stopRequested" -> StopRequested(row, [v EXCEPT !.state = s])
       [] k = "engineCompleted" -> EngineCompleted(row, s)
       [] k = "workerDead" -> WorkerDead(row, s)
       [] k = "workerShutdown" -> WorkerShutdown(row, s)
       [] k = "enginePaused" -> EnginePaused(row, s)
       [] k = "stalePauseResume" -> StalePauseResume(row, s)
       [] OTHER -> ClearStaleError(row, s)

\* A wrong variant: worker.json goes whatever the health was.
ForgetAny(r) == meta' = NoWorker

\* _ensure_worker_not_stale
ForgetDead(r) == meta' = IF plan[r].health = "dead" THEN NoWorker ELSE meta

ApplyTrigger(r) ==
  /\ rpc[r] = "decided" /\ plan[r].kind \notin {"none", "wait", "restart"}
  /\ row' = Reduced(r)
  /\ ForgetDead(r)
  /\ Release(r)
  /\ UNCHANGED <<tree, exitInfo, workerVars, notRecons>>

\* A wrong variant: the record is read again, the decision is not made again.
CountRestartReread(r) ==
  /\ rpc[r] = "decided" /\ plan[r].kind = "restart"
  /\ row' = [row EXCEPT !.state = Counted(r)]
  /\ rview' = [rview EXCEPT ![r] = row]
  /\ rpc' = [rpc EXCEPT ![r] = "counted"]
  /\ UNCHANGED <<tree, files, workerVars, lock, plan, notRecons>>

\* The attempt is stored before anything is done about it.
CountRestart(r) ==
  /\ rpc[r] = "decided" /\ plan[r].kind = "restart"
  /\ row' = [row EXCEPT !.status = rview[r].status, !.state = Counted(r)]
  /\ rpc' = [rpc EXCEPT ![r] = "counted"]
  /\ UNCHANGED <<tree, files, workerVars, lock, rview, plan, notRecons>>

\* A wrong variant: a stale worker is not terminated.
SignalNobody(r) ==
  /\ rpc[r] = "counted"
  /\ meta' = NoWorker
  /\ rpc' = [rpc EXCEPT ![r] = "spawn"]
  /\ UNCHANGED <<row, tree, exitInfo, workerVars, lock, rview, plan,
                 notRecons>>

\* terminate_flow_worker_pid on a stale worker; other metadata is cleared.
SignalStale(r) ==
  /\ rpc[r] = "counted"
  /\ IF plan[r].health = "stale"
     THEN /\ exitInfo' = ExitWrite(FALSE, "terminated", FALSE)
          /\ sig' = [sig EXCEPT ![plan[r].victim] = Alive(plan[r].victim)]
          /\ rpc' = [rpc EXCEPT ![r] = "grace"]
          /\ UNCHANGED meta
     ELSE /\ meta' = NoWorker
          /\ rpc' = [rpc EXCEPT ![r] = "spawn"]
          /\ UNCHANGED <<exitInfo, sig>>
  /\ UNCHANGED <<row, tree, pc, view, out, target, lock, rview, plan,
                 notRecons>>

\* The victim ended in time, or SIGKILL ends it. Right after SIGKILL the pid may
\* still be there, which counts as a failed termination.
GraceOver(r) ==
  /\ rpc[r] = "grace"
  /\ LET v == plan[r].victim IN
       \/ /\ ~Alive(v)
          /\ UNCHANGED <<workerVars, exitInfo>>
          /\ rpc' = [rpc EXCEPT ![r] = "spawn"]
       \/ /\ Alive(v)
          /\ Gone(v)
          /\ exitInfo' = ExitWrite(FALSE, "terminated", FALSE)
          /\ \E next \in {"spawn", "failed"} : rpc' = [rpc EXCEPT ![r] = next]
  /\ meta' = IF rpc'[r] = "spawn" THEN NoWorker ELSE meta
  /\ UNCHANGED <<row, tree, lock, rview, plan, notRecons>>

\* spawn_flow_worker
Respawn(r) ==
  /\ rpc[r] = "spawn"
  /\ \E w \in Workers : Spawn(w)
  /\ autoSpawns' = autoSpawns + 1
  /\ rpc' = [rpc EXCEPT ![r] = "unstop"]
  /\ UNCHANGED <<row, tree, exitInfo, view, out, sig, target, lock, rview, plan,
                 reaperVars, userVars, faults>>

RespawnFails(r) ==
  /\ rpc[r] = "spawn"
  /\ rpc' = [rpc EXCEPT ![r] = "failed"]
  /\ UNCHANGED <<row, tree, files, workerVars, lock, rview, plan, notRecons>>

\* set_stop_requested(False)
Unstop(r) ==
  /\ rpc[r] = "unstop"
  /\ row' = [row EXCEPT !.stop = FALSE]
  /\ rpc' = [rpc EXCEPT ![r] = "publish"]
  /\ UNCHANGED <<tree, files, workerVars, lock, rview, plan, notRecons>>

\* The run is running again.
Publish(r) ==
  /\ rpc[r] = "publish"
  /\ row' = [row EXCEPT !.status = "running", !.err = FALSE,
                        !.state = Counted(r)]
  /\ Release(r)
  /\ UNCHANGED <<tree, files, workerVars, notRecons>>

\* The restart failed: fall through to RECONCILE_WORKER_DEAD.
FailRun(r) ==
  /\ rpc[r] = "failed"
  /\ row' = WorkerDead(row, Tidy(Counted(r), plan[r].required))
  /\ ForgetDead(r)
  /\ Release(r)
  /\ UNCHANGED <<tree, exitInfo, workerVars, notRecons>>

\* The reconciling process dies; the operating system drops its lock.
CrashReconciler(r) ==
  /\ rpc[r] \in Inside
  /\ Fault
  /\ Release(r)
  /\ UNCHANGED <<row, tree, files, workerVars, reaperVars, userVars,
                 autoSpawns>>


-----------------------------------------------------------------------------
(* The reaper, reap_stale_flow_workers.  It never writes the row.            *)

\* A worker whose run is terminal, or whose turn has been silent for a day.
ReaperScan ==
  /\ jpc = "idle" /\ Health = "alive" /\ reaps < MaxReaps
  /\ row.status \in Terminal \/ pc[meta] = "turn"
  /\ reaps' = reaps + 1
  /\ jpc' = "marked"
  /\ jpid' = meta
  /\ UNCHANGED <<row, tree, files, workerVars, reconVars, userVars, faults,
                 autoSpawns>>

\* _terminate_worker: SIGTERM and stale_reaper evidence.
ReaperSignal ==
  /\ jpc = "marked"
  /\ exitInfo' = ExitWrite(FALSE, "reaper", FALSE)
  /\ sig' = [sig EXCEPT ![jpid] = Alive(jpid)]
  /\ jpc' = "grace"
  /\ UNCHANGED <<row, tree, meta, pc, view, out, target, reconVars, jpid,
                 reaps, userVars, faults, autoSpawns>>

\* The worker ended in time, or SIGKILL ends it.
ReaperKill ==
  /\ jpc = "grace"
  /\ jpc' = "idle"
  /\ jpid' = NoWorker
  /\ IF Alive(jpid)
     THEN /\ exitInfo' = ExitWrite(FALSE, "reaper", FALSE)
          /\ Gone(jpid)
     ELSE UNCHANGED <<exitInfo, workerVars>>
  /\ UNCHANGED <<row, tree, meta, reconVars, reaps, userVars, faults,
                 autoSpawns>>

-----------------------------------------------------------------------------
(* The user, through runtime_helpers and FlowController.                     *)

\* ensure_flow_worker(replace_stale_worker=True): a live worker is reused.
Ensure ==
  /\ upc = "ensure"
  /\ upc' = "idle"
  /\ \/ Health = "alive" /\ UNCHANGED <<meta, pc>>
     \/ Health # "alive" /\ \E w \in Workers : Spawn(w)
  /\ UNCHANGED <<row, tree, exitInfo, view, out, sig, target, reconVars,
                 reaperVars, uview, upid, userOps, userPast, faults,
                 autoSpawns>>

\* stop_ticket_flow_worker: SIGTERM for the worker, before the row is read.
StopAsk ==
  /\ upc = "idle" /\ stops < MaxStops
  /\ stops' = stops + 1
  /\ upc' = "stop"
  /\ meta' = IF Health = "dead" THEN NoWorker ELSE meta
  /\ sig' = IF Health = "alive" THEN [sig EXCEPT ![meta] = TRUE] ELSE sig
  /\ UNCHANGED <<row, tree, exitInfo, pc, view, out, target, reconVars,
                 reaperVars, uview, upid, resumes, userPast, faults,
                 autoSpawns>>

\* stop_flow: a terminal run is returned, a paused one refused.
StopRead ==
  /\ upc = "stop"
  /\ upc' = IF row.status \in RequiresStop THEN "stopset" ELSE "idle"
  /\ UNCHANGED <<row, tree, files, workerVars, reconVars, reaperVars, uview,
                 upid, userOps, userPast, faults, autoSpawns>>

\* set_stop_requested(True) returns the record as it is by now; when it ended in
\* between, the flag is left behind.
StopSet ==
  /\ upc = "stopset"
  /\ row' = [row EXCEPT !.stop = TRUE]
  /\ IF row.status \in RequiresStop
     THEN /\ uview' = row'
          /\ upc' = "stopwrite"
     ELSE /\ upc' = "idle"
          /\ UNCHANGED uview
  /\ UNCHANGED <<tree, files, workerVars, reconVars, reaperVars, upid, userOps,
                 userPast, faults, autoSpawns>>

StopWrite ==
  /\ upc = "stopwrite"
  /\ row' = StopRequested(row, uview)
  /\ userStopped' = TRUE
  /\ upc' = IF uview.status = "running" THEN "stopkill" ELSE "idle"
  /\ uview' = NoRow
  /\ UNCHANGED <<tree, files, workerVars, reconVars, reaperVars, upid, userOps,
                 forgot, faults, autoSpawns>>

\* A wrong variant: worker.json goes before the worker does.
StopKillForgets ==
  /\ upc = "stopkill"
  /\ meta' = NoWorker
  /\ upc' = "idle"
  /\ UNCHANGED <<row, tree, exitInfo, workerVars, reconVars, reaperVars, uview,
                 upid, userOps, userPast, faults, autoSpawns>>

\* _terminate_worker_after_user_stop
StopKill ==
  /\ upc = "stopkill"
  /\ \/ /\ Health = "alive"
        /\ exitInfo' = ExitWrite(FALSE, "terminated", FALSE)
        /\ sig' = [sig EXCEPT ![meta] = TRUE]
        /\ upid' = meta
        /\ upc' = "stopgrace"
        /\ UNCHANGED meta
     \/ /\ Health # "alive"
        /\ meta' = NoWorker
        /\ upc' = "idle"
        /\ UNCHANGED <<exitInfo, sig, upid>>
  /\ UNCHANGED <<row, tree, pc, view, out, target, reconVars, reaperVars, uview,
                 userOps, userPast, faults, autoSpawns>>

\* The worker ended in time, or SIGKILL ends it; a pid that is still seen right
\* after SIGKILL keeps its metadata.  Nobody asks whose worker.json this now is.
StopGrace ==
  /\ upc = "stopgrace"
  /\ upc' = "idle"
  /\ upid' = NoWorker
  /\ IF Alive(upid)
     THEN /\ exitInfo' = ExitWrite(FALSE, "terminated", FALSE)
          /\ Gone(upid)
          /\ meta' \in {NoWorker, meta}
     ELSE /\ meta' = NoWorker
          /\ UNCHANGED <<exitInfo, workerVars>>
  /\ forgot' = \/ forgot
               \/ meta \in LiveWorkers \ {upid} /\ meta' = NoWorker
  /\ UNCHANGED <<row, tree, reconVars, reaperVars, uview, userOps, userStopped,
                 faults, autoSpawns>>

\* resume_flow: a running or superseded run is refused.
ResumeRead ==
  /\ upc = "idle" /\ resumes < MaxResumes
  /\ row.status \notin {"superseded", "running"}
  /\ resumes' = resumes + 1
  /\ userStopped' = FALSE
  /\ uview' = row
  /\ upc' = "resumeclear"
  /\ UNCHANGED <<row, tree, files, workerVars, reconVars, reaperVars, upid,
                 stops, forgot, faults, autoSpawns>>

\* worker.json and the stop flag go.  A completed run is left at that, and
\* ensure_worker comes next.
ResumeClear ==
  /\ upc = "resumeclear"
  /\ meta' = NoWorker
  /\ row' = [row EXCEPT !.stop = FALSE]
  /\ IF uview.status = "completed"
     THEN /\ upc' = "ensure"
          /\ uview' = NoRow
     ELSE /\ upc' = "resumewrite"
          /\ UNCHANGED uview
  /\ UNCHANGED <<tree, exitInfo, workerVars, reconVars, reaperVars, upid,
                 userOps, userPast, faults, autoSpawns>>

\* Paused on a blocking condition and nothing has changed since.
ResumeRefused ==
  /\ upc = "resumewrite" /\ uview.state.engine # "none"
  /\ upc' = "idle"
  /\ uview' = NoRow
  /\ UNCHANGED <<row, tree, files, workerVars, reconVars, reaperVars, upid,
                 userOps, userPast, faults, autoSpawns>>

ResumeWrite ==
  /\ upc = "resumewrite"
  /\ row' = [row EXCEPT !.status = "running",
                        !.state = [uview.state EXCEPT !.engine =
                                     IF @ = "none" THEN @ ELSE "running"]]
  /\ upc' = "ensure"
  /\ uview' = NoRow
  /\ UNCHANGED <<tree, files, workerVars, reconVars, reaperVars, upid, userOps,
                 userPast, faults, autoSpawns>>

\* start_flow of another run: the one UPDATE with a condition on the status.
Supersede ==
  /\ row.status = "paused"
  /\ row' = [row EXCEPT !.status = "superseded"]
  /\ UNCHANGED <<tree, files, workerVars, reconVars, reaperVars, userVars,
                 faults, autoSpawns>>

-----------------------------------------------------------------------------
\* start_flow has created the run; its worker is about to be ensured.
Init ==
  /\ row = CreateFlowRun /\ tree = "open"
  /\ meta = NoWorker
  /\ exitInfo = [pid |-> NoWorker, intent |-> FALSE, origin |-> "none"]
  /\ pc = [w \in Workers |-> "free"]
  /\ view = [w \in Workers |-> NoRow]
  /\ out = [w \in Workers |-> NoOutcome]
  /\ sig = [w \in Workers |-> FALSE]
  /\ target = [w \in Workers |-> NoWorker]
  /\ lock = NoWorker
  /\ rpc = [r \in Reconcilers |-> "idle"]
  /\ rview = [r \in Reconcilers |-> NoRow]
  /\ plan = [r \in Reconcilers |-> NoPlan]
  /\ jpc = "idle" /\ jpid = NoWorker /\ reaps = 0
  /\ upc = "ensure" /\ uview = NoRow /\ upid = NoWorker
  /\ stops = 0 /\ resumes = 0 /\ userStopped = FALSE /\ forgot = FALSE
  /\ faults = 0 /\ autoSpawns = 0

\* What a worker process does of itself.
WorkerStep(w) ==
  \/ Boot(w) \/ Enter(w) \/ ClearStop(w) \/ Begin(w) \/ Loop(w) \/ Halt(w)
  \/ StepBegins(w) \/ WriteOutcome(w)
  \/ SelfStop(w) \/ SelfStopSet(w) \/ SelfStopWrite(w) \/ SelfKill(w)
  \/ SelfStopDone(w) \/ Cleanup(w)

\* What else may happen in or to a worker process.
WorkerEvent(w) ==
  \/ PreflightFails(w) \/ RunFlowException(w) \/ AgentActs(w)
  \/ TurnEnds(w) \/ TurnRaises(w)
  \/ DieInBoot(w) \/ WatchdogExit(w) \/ CrashWorker(w)

\* One pass of a reconciler after it listed the run.
ReconcileStep(r) ==
  \/ LockBusy(r) \/ Decide(r) \/ StoreObservation(r) \/ ApplyTrigger(r)
  \/ CountRestart(r) \/ SignalStale(r) \/ GraceOver(r) \/ Respawn(r)
  \/ RespawnFails(r) \/ Unstop(r) \/ Publish(r) \/ FailRun(r) \/ BackoffWait(r)

ReconcilerNext(r) ==
  List(r) \/ ReconcileStep(r) \/ CrashReconciler(r)

ReaperNext == ReaperScan \/ ReaperSignal \/ ReaperKill

UserStep ==
  \/ Ensure \/ StopRead \/ StopSet \/ StopWrite \/ StopKill \/ StopGrace
  \/ ResumeClear \/ ResumeWrite \/ ResumeRefused

\* The run is started and then left to the machinery.
UnattendedNext ==
  \/ \E w \in Workers : WorkerStep(w) \/ WorkerEvent(w)
  \/ \E r \in Reconcilers : ReconcilerNext(r)
  \/ ReaperNext
  \/ Ensure

Next == UnattendedNext \/ StopAsk \/ ResumeRead \/ UserStep \/ Supersede

Unattended == Init /\ [][UnattendedNext]_vars
Spec == Init /\ [][Next]_vars

\* A reconcile pass in which the backoff, if any, has passed.
DecideReady(r) == Decide(r) /\ plan'[r].kind # "wait"

\* The processes the operating system runs go on, whatever their agents do; the
\* hub lists and reconciles the runs again and again, and in some of these
\* passes the lock is free and the backoff has passed.
Fairness ==
  /\ \A w \in Workers : WF_vars(WorkerStep(w))
  /\ \A r \in Reconcilers : /\ WF_vars(List(r)) /\ WF_vars(ReconcileStep(r))
                            /\ SF_vars(DecideReady(r))
  /\ WF_vars(UserStep)

FairUnattended == Unattended /\ Fairness

-----------------------------------------------------------------------------
\* Where a worker holds the record it works on.
Holding ==
  {"begin", "start", "loop", "halt", "step", "turn", "write", "selfstop"}

\* Every variable has its type, and an actor holds a record, or a pid, whenever
\* it is about to use one.
SharedOK ==
  /\ row \in Row
  /\ tree \in Trees
  /\ meta \in Workers \cup {NoWorker}
  /\ exitInfo \in ExitInfo
WorkersOK ==
  /\ pc \in [Workers -> WorkerPC]
  /\ view \in [Workers -> Row \cup {NoRow}]
  /\ out \in [Workers -> Outcome]
  /\ sig \in [Workers -> BOOLEAN]
  /\ target \in [Workers -> Workers \cup {NoWorker}]
  /\ \A w \in Workers :
       /\ pc[w] \in Holding => view[w] # NoRow
       /\ pc[w] = "selfkill" => target[w] # NoWorker
ReconsOK ==
  /\ lock \in Reconcilers \cup {NoWorker}
  /\ rpc \in [Reconcilers -> ReconPC]
  /\ rview \in [Reconcilers -> Row \cup {NoRow}]
  /\ plan \in [Reconcilers -> Plan]
  /\ \A r \in Reconcilers :
       /\ rpc[r] # "idle" => rview[r] # NoRow
       /\ plan[r].health = "stale" => plan[r].victim # NoWorker
       /\ rpc[r] = "grace" => plan[r].victim # NoWorker
ReaperOK ==
  /\ jpc \in {"idle", "marked", "grace"}
  /\ jpid \in Workers \cup {NoWorker}
  /\ jpc # "idle" => jpid # NoWorker
  /\ reaps \in 0..MaxReaps
UserOK ==
  /\ upc \in UserPC
  /\ uview \in Row \cup {NoRow}
  /\ upid \in Workers \cup {NoWorker}
  /\ upc \in {"stopwrite", "resumeclear", "resumewrite"} => uview # NoRow
  /\ upc = "stopgrace" => upid # NoWorker
  /\ stops \in 0..MaxStops /\ resumes \in 0..MaxResumes
  /\ userStopped \in BOOLEAN /\ forgot \in BOOLEAN
CountsOK == faults \in 0..MaxFaults /\ autoSpawns \in Nat
TypeOK ==
  SharedOK /\ WorkersOK /\ ReconsOK /\ ReaperOK /\ UserOK /\ CountsOK

\* The reconcilers never decide about the run two at a time: inside
\* reconcile_flow_run there is only the holder of the run's lock, whichever of
\* its many exits the last pass took.
LockHeld == \A r \in Reconcilers : lock = r <=> rpc[r] \in Inside

\* A run never has two worker processes, whatever crashes: a reconciler spawns
\* one only when the last one is gone (reconcile_flow_run), though it decides on
\* a record and a health it read before.
OneWorker == \A v, w \in LiveWorkers : v = w

\* A stop adds one way to a second worker, and no other: its wait for the worker
\* it terminates may end after a reconciler has put another in its place, whose
\* worker.json it then removes.
OneWorkerUnlessForgot == resumes = 0 /\ ~forgot => OneWorker

\* Why a run left to the machinery has one worker (inductive with LockHeld): the
\* live one is the one in worker.json; a reconciler that decided to act on a
\* dead worker acts while there is none, because it holds the lock and its
\* health check was made under the lock; and nobody else spawns once the run
\* started.
Acting(r) ==
  /\ rpc[r] \in Inside \ {"unstop", "publish"}
  /\ plan[r].kind \notin {"none", "wait"}
KnownWorker ==
  \A w \in Workers :
    /\ Alive(w) => meta = w
    /\ pc[w] = "selfkill" => target[w] = w
StillDead ==
  \A r \in Reconcilers :
    /\ Acting(r) /\ plan[r].health \in {"dead", "absent"} => LiveWorkers = {}
    /\ Acting(r) /\ plan[r].health = "stale" =>
         LiveWorkers \subseteq {plan[r].victim}
    /\ rpc[r] = "spawn" => LiveWorkers = {}
RestartPlanned ==
  \A r \in Reconcilers :
    /\ rpc[r] \in {"counted", "grace", "spawn", "failed"} =>
         plan[r].kind = "restart"
    /\ plan[r].kind = "restart" => plan[r].health # "alive"
EnsureFirst ==
  upc = "ensure" =>
    /\ row.status = "pending" /\ ~row.stop
    /\ LiveWorkers = {}
    /\ \A r \in Reconcilers :
         /\ rpc[r] \in {"idle", "listed", "decided"}
         /\ rpc[r] # "idle" => rview[r].status = "pending" /\ ~rview[r].stop
         /\ rpc[r] = "decided" => plan[r].kind = "none"
WorkerKnown == KnownWorker /\ StillDead /\ RestartPlanned /\ EnsureFirst

\* While a reconciler replaces a dead worker, nobody writes the row over the
\* attempt it has just counted there.
Replacing(r) == rpc[r] \in {"counted", "spawn"} /\ plan[r].health # "stale"
ReplacementUndisturbed ==
  \A r \in Reconcilers :
    Replacing(r) => row.state = Counted(r) /\ row.status = rview[r].status

\* A dead worker is not replaced while a done ticket lies in a dirty worktree,
\* unless no stored state names that ticket: the tree is still as the supervisor
\* saw it when the new worker is spawned.
BarrierBlocksRestart ==
  [][\A r \in Reconcilers :
       Respawn(r) /\ plan[r].health # "stale" =>
         tree # "doneDirty" \/ rview[r].state.commit = "unnamed"]_vars

\* The actor that takes a step is the one that moves on.  It is late when the
\* record in its own hands is from another time than the row is.
Finished == {"completed", "superseded"}
Foreign(v) == v # NoRow /\ v.status # row.status
LateWorker(w) == pc'[w] # pc[w] /\ Foreign(view[w])
LateReconciler(r) == rpc'[r] # rpc[r] /\ Foreign(rview[r])
LateUser == upc' # upc /\ Foreign(uview)
Starts(w) == pc'[w] # pc[w] /\ pc[w] \in {"begin", "start"}

\* A run that finished changes its status again only by the hand of an actor
\* that writes from a record of its own from before the end, for no UPDATE asks
\* for the status it expects: an actor that read the row since leaves it alone.
FinishedStays ==
  [][row.status \in Finished /\ row'.status # row.status =>
       \/ \E w \in Workers : LateWorker(w)
       \/ \E r \in Reconcilers : LateReconciler(r)
       \/ LateUser]_vars

\* A run that its user stopped leaves that status only by the hand of a worker
\* or a reconciler that writes from a record of its own from before the stop, or
\* of a worker that is only starting, which takes up a stopped run.
StopSticks ==
  [][row.status = "stopped" /\ userStopped /\ row'.status # "stopped" =>
       \/ \E w \in Workers : LateWorker(w) \/ Starts(w)
       \/ \E r \in Reconcilers : LateReconciler(r)]_vars

\* Why they hold: nobody writes from a record in which the run has ended, and
\* only one that was read before the end says anything else than the row.  A run
\* may end between the head of the loop and the turn, so a step that raises may
\* hold the record of an ended run.
Unfinished(w) ==
  /\ pc[w] \in {"begin", "start"} => view[w].status \notin Finished
  /\ pc[w] \in {"loop", "halt", "step", "selfstop"} =>
       view[w].status \notin Terminal
  /\ pc[w] = "write" /\ view[w].status \in Terminal => out[w].kind = "exception"
RecordsUnfinished ==
  /\ \A w \in Workers : Unfinished(w)
  /\ \A r \in Reconcilers : rpc[r] # "idle" => rview[r].status \in Reconcilable
  /\ upc = "stopwrite" => uview.status \in RequiresStop
  /\ upc = "resumeclear" => uview.status \notin {"superseded", "running"}
  /\ upc = "resumewrite" => uview.status \notin Finished
  /\ upc \in {"resumeclear", "resumewrite"} => ~userStopped

\* A run that lost its worker is not left running: the reconciler gives it a new
\* worker or ends it, though passes crash, wait and find the lock taken.
RunningAttended ==
  (row.status = "running" /\ LiveWorkers = {})
    ~> (row.status # "running" \/ LiveWorkers # {})

\* The records that somebody holds, by what they say of the status.
Known ==
  {v.status : v \in ({view[w] : w \in Workers} \cup {rview[r] : r \in Reconcilers}
                      \cup {uview}) \ {NoRow}}

Lifecycle == INSTANCE RunLifecycle WITH status <- row.status, known <- Known

\* Whoever changes the status moves it along the lifecycle from a status in a
\* record it holds: no pass applies its decision to a record it was not made
\* for, and a finished run moves only for a record older than its end.
ImplementsLifecycle == Lifecycle!Spec

-----------------------------------------------------------------------------
(* What the repository says of itself and the code does not keep.            *)

\* The reconcilers together replace workers no more often than configured,
\* though the count lives in a row that everyone overwrites.
RestartBudget == autoSpawns <= MaxAttempts
=============================================================================
