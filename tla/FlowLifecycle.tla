--------------------------- MODULE FlowLifecycle ---------------------------
(***************************************************************************)
(* The flow_runs row of one ticket-flow run and the pure reducer that the  *)
(* runtime and the reconciler share (core/flows/lifecycle_reducer.py).     *)
(*                                                                         *)
(* Every caller reduces a record it read earlier ("base") and then issues  *)
(* an UPDATE that overwrites only the columns the result sets: status, the *)
(* whole JSON state, and sometimes stop_requested and error_message.  So   *)
(* each reducer is an operator of the row as it is now and of the base.    *)
(*                                                                         *)
(* The status "stopping" is left out: the code still reads it but nothing  *)
(* under src/ writes it.                                                   *)
(***************************************************************************)
EXTENDS Naturals, TicketStep

Status == {"pending", "running", "paused", "stopped", "completed", "failed",
           "superseded"}

\* FlowRunStatus.is_terminal
Terminal == {"stopped", "completed", "failed", "superseded"}

\* The statuses the reconciler looks at (_ACTIVE_STATUSES).
Reconcilable == {"pending", "running", "paused"}

(***************************************************************************)
(* state.ticket_engine.status, state.recovery.restart.count, and whether   *)
(* state.recovery.commit_barrier is present.                               *)
(***************************************************************************)
Engine == {"none", "running", "paused", "completed", "failed"}

State == [engine : Engine, commit : Commit, restarts : Nat, barrier : BOOLEAN]

Row == [status : Status, stop : BOOLEAN, state : State, err : BOOLEAN]

\* FlowStore.create_flow_run
CreateFlowRun ==
  [status |-> "pending", stop |-> FALSE, err |-> FALSE,
   state  |-> [engine |-> "none", commit |-> "unnamed", restarts |-> 0,
               barrier |-> FALSE]]

\* state.recovery exists exactly when one of its parts was written.
HasRecovery(s) == s.restarts > 0 \/ s.barrier

\* _merge_state for a step: the step's output is a copy of the state the step
\* was given, so its recovery part replaces the row's when it has one.
MergeState(s, out) ==
  IF HasRecovery(out) THEN out
  ELSE [s EXCEPT !.engine = out.engine, !.commit = out.commit]

-----------------------------------------------------------------------------
(* Triggers of the runtime. *)

RequiresFlowStart == {"pending"}
FlowStart(row, base) == [row EXCEPT !.status = "running", !.state = base.state]

RequiresFlowResume == Status \ {"pending"}
FlowResume(row, base) == [row EXCEPT !.status = "running", !.state = base.state]

RequiresStop == {"pending", "running"}
StopRequested(row, base) ==
  [row EXCEPT !.status = "stopped", !.stop = FALSE, !.state = base.state]

\* Every outcome of a step requires a running base.
RequiresStep == {"running"}
StepContinue(row, base, out) ==
  [row EXCEPT !.status = "running", !.state = MergeState(base.state, out)]
StepComplete(row, base, out) ==
  [row EXCEPT !.status = "completed", !.state = MergeState(base.state, out)]
StepPause(row, base, out) ==
  [row EXCEPT !.status = "paused", !.state = MergeState(base.state, out)]
StepFail(row, base, out) ==
  [row EXCEPT !.status = "failed", !.err = TRUE,
              !.state = MergeState(base.state, out)]
StepException(row, base) ==
  [row EXCEPT !.status = "failed", !.err = TRUE, !.state = base.state]


\* The one trigger without a required status.
FlowException(row, base) ==
  [row EXCEPT !.status = "failed", !.err = TRUE, !.state = base.state]

-----------------------------------------------------------------------------
(* Triggers of the reconciler; s is the state it derived from the base. *)

RequiresEngineCompleted == {"running", "paused"}
EngineCompleted(row, s) == [row EXCEPT !.status = "completed", !.state = s]

RequiresWorkerDead == {"running"}
WorkerDead(row, s) ==
  [row EXCEPT !.status = "failed", !.err = TRUE, !.state = s]

RequiresWorkerShutdown == {"running"}
WorkerShutdown(row, s) == [row EXCEPT !.status = "stopped", !.state = s]

RequiresEnginePaused == {"running"}
EnginePaused(row, s) == [row EXCEPT !.status = "paused", !.state = s]

RequiresStalePauseResume == {"paused"}
StalePauseResume(row, s) ==
  [row EXCEPT !.status = "running",
              !.state = IF s.engine = "none" THEN s
                        ELSE [s EXCEPT !.engine = "running"]]

RequiresClearStaleError == {"running"}
ClearStaleError(row, s) ==
  [row EXCEPT !.status = "running", !.err = FALSE, !.state = s]
=============================================================================
