------------------------ MODULE FlowRecovery_proofs ------------------------
(***************************************************************************)
(* Proofs about FlowRecovery for any number of workers and reconcilers,    *)
(* any restart budget and any bounds.                                      *)
(***************************************************************************)
EXTENDS FlowRecovery, TLAPS

LEMMA NoRowIsNoRow == NoRow \notin Row
BY NoRowAssumption

\* What a step reports is typed.
LEMMA StepResultsTyped ==
  ASSUME NEW c \in Commit, NEW t \in Trees, NEW res \in StepResults(c, t)
  PROVE  /\ res[1] \in {"continue", "complete", "pause", "fail"}
         /\ res[1] \in Outcomes
         /\ res[2] \in Commit
         /\ res[3] \in Trees
         /\ \A engine \in EngineAfter[res[1]] : engine \in Engine
<1>1. CASE res \in {"continue", "pause", "fail"} \X Named \X {t}
  BY <1>1 DEF Named, Outcomes, EngineAfter, Engine
<1>2. CASE res = <<"pause", c, t>>
  BY <1>2 DEF Outcomes, EngineAfter, Engine
<1>3. CASE res \in {"continue"} \X {"unnamed"} \X {"open", t}
  BY <1>3 DEF Commit, Trees, Outcomes, EngineAfter, Engine
<1>4. CASE res = <<"complete", c, t>>
  BY <1>4 DEF Outcomes, EngineAfter, Engine
<1> QED BY <1>1, <1>2, <1>3, <1>4 DEF StepResults

\* Every state the model derives from a state is one.
LEMMA StateTyped ==
  ASSUME NEW s \in State, NEW t \in State, NEW e \in Engine, NEW c \in Commit,
         NEW b \in BOOLEAN
  PROVE  /\ [s EXCEPT !.engine = e] \in State
         /\ [s EXCEPT !.engine = e, !.commit = c] \in State
         /\ [s EXCEPT !.commit = c, !.barrier = b] \in State
         /\ [s EXCEPT !.restarts = @ + 1, !.barrier = b] \in State
         /\ MergeState(s, t) \in State
         /\ s.engine \in Engine /\ s.commit \in Commit
<1>1. /\ [s EXCEPT !.engine = e] \in State
      /\ [s EXCEPT !.engine = e, !.commit = c] \in State
      /\ [s EXCEPT !.commit = c, !.barrier = b] \in State
  BY DEF State
<1>2. [s EXCEPT !.restarts = @ + 1, !.barrier = b] \in State
  <2>1. s.restarts \in Nat
    BY DEF State
  <2>2. \A n \in Nat : [s EXCEPT !.restarts = n, !.barrier = b] \in State
    BY DEF State
  <2>3. s.restarts + 1 \in Nat
    BY <2>1
  <2> QED BY <2>2, <2>3
<1>3. /\ s.engine \in Engine /\ s.commit \in Commit
      /\ t.engine \in Engine /\ t.commit \in Commit
  BY DEF State
<1>4. MergeState(s, t) \in State
  BY <1>3 DEF State, MergeState
<1> QED BY <1>1, <1>2, <1>3, <1>4

LEMMA CreateTyped == CreateFlowRun \in Row
BY DEF CreateFlowRun, Row, Status, State, Engine, Commit

-----------------------------------------------------------------------------
(* The writes of the row, each as some action makes it. *)

LEMMA RowParts ==
  ASSUME NEW r \in Row
  PROVE  /\ r.state \in State /\ r.status \in Status
         /\ r.stop \in BOOLEAN /\ r.err \in BOOLEAN
BY DEF Row

LEMMA WriteStop ==
  ASSUME NEW r \in Row, NEW b \in BOOLEAN
  PROVE  [r EXCEPT !.stop = b] \in Row
BY DEF Row

LEMMA WriteStatus ==
  ASSUME NEW r \in Row, NEW q \in Status, NEW s \in State
  PROVE  /\ [r EXCEPT !.status = q] \in Row
         /\ [r EXCEPT !.status = q, !.state = s] \in Row
         /\ [r EXCEPT !.status = q, !.stop = FALSE, !.state = s] \in Row
         /\ [r EXCEPT !.status = q, !.err = TRUE, !.state = s] \in Row
         /\ [r EXCEPT !.status = q, !.err = FALSE, !.state = s] \in Row
         /\ [r EXCEPT !.status = q, !.stop = FALSE, !.err = FALSE,
                      !.state = s] \in Row
BY DEF Row

LEMMA StatusNames ==
  /\ "running" \in Status /\ "stopped" \in Status /\ "failed" \in Status
  /\ "completed" \in Status /\ "paused" \in Status /\ "superseded" \in Status
BY DEF Status

\* The reducers of the runtime that take nothing but a record.
LEMMA RuntimeTyped ==
  ASSUME NEW r \in Row, NEW v \in Row
  PROVE  /\ FlowStart(r, v) \in Row /\ FlowResume(r, v) \in Row
         /\ StopRequested(r, v) \in Row
         /\ StepException(r, v) \in Row /\ FlowException(r, v) \in Row
BY RowParts, WriteStatus, StatusNames
DEF FlowStart, FlowResume, StopRequested, StepException, FlowException

\* The reducers that apply the output of a step.
LEMMA StepTyped ==
  ASSUME NEW r \in Row, NEW v \in Row, NEW o \in State
  PROVE  /\ StepContinue(r, v, o) \in Row /\ StepComplete(r, v, o) \in Row
         /\ StepPause(r, v, o) \in Row /\ StepFail(r, v, o) \in Row
<1>1. MergeState(v.state, o) \in State
  BY RowParts, StateTyped DEF Engine, Commit
<1> QED BY <1>1, WriteStatus, StatusNames
        DEF StepContinue, StepComplete, StepPause, StepFail

\* The reducers of the reconciler.
LEMMA ReconcileTyped ==
  ASSUME NEW r \in Row, NEW s \in State
  PROVE  /\ EngineCompleted(r, s) \in Row /\ WorkerDead(r, s) \in Row
         /\ WorkerShutdown(r, s) \in Row /\ EnginePaused(r, s) \in Row
         /\ StalePauseResume(r, s) \in Row /\ ClearStaleError(r, s) \in Row
<1>1. [s EXCEPT !.engine = "running"] \in State
  BY StateTyped DEF Engine, Commit
<1>2. \A t \in State : [r EXCEPT !.status = "running", !.state = t] \in Row
  BY WriteStatus, StatusNames
<1>3. StalePauseResume(r, s) \in Row
  BY <1>1, <1>2 DEF StalePauseResume
<1>4. /\ EngineCompleted(r, s) \in Row /\ WorkerDead(r, s) \in Row
      /\ WorkerShutdown(r, s) \in Row /\ EnginePaused(r, s) \in Row
      /\ ClearStaleError(r, s) \in Row
  BY WriteStatus, StatusNames
  DEF EngineCompleted, WorkerDead, WorkerShutdown, EnginePaused,
      ClearStaleError
<1> QED BY <1>3, <1>4

-----------------------------------------------------------------------------
(* What the type invariant says of an actor at work. *)

LEMMA Held ==
  ASSUME WorkersOK, NEW w \in Workers
  PROVE  /\ pc[w] \in Holding => view[w] \in Row
         /\ out[w] \in Outcome /\ out[w].state \in State
         /\ out[w].kind \in Outcomes
<1>1. out[w] \in Outcome
  BY DEF WorkersOK
<1>2. out[w].state \in State /\ out[w].kind \in Outcomes
  BY <1>1 DEF Outcome
<1>3. pc[w] \in Holding => view[w] \in Row
  BY DEF WorkersOK
<1> QED BY <1>1, <1>2, <1>3

LEMMA Listed ==
  ASSUME ReconsOK, NEW r \in Reconcilers
  PROVE  /\ plan[r] \in Plan
         /\ plan[r].victim \in Workers \cup {NoWorker}
         /\ plan[r].required \in BOOLEAN
         /\ rpc[r] # "idle" => rview[r] \in Row
BY DEF ReconsOK, Plan

LEMMA TidyTyped ==
  ASSUME NEW s \in State, NEW b \in BOOLEAN PROVE Tidy(s, b) \in State
<1>1. s.commit \in Commit /\ "none" \in Commit /\ "none" \in Engine
  BY StateTyped DEF Engine, Commit, State
<1>2. \A c \in Commit : [s EXCEPT !.commit = c, !.barrier = b] \in State
  BY StateTyped, <1>1
<1>3. CASE tree = "doneClean"
  BY <1>1, <1>2, <1>3 DEF Tidy
<1>4. CASE tree # "doneClean"
  BY <1>1, <1>2, <1>4 DEF Tidy
<1> QED BY <1>3, <1>4

LEMMA CountedTyped ==
  ASSUME ReconsOK, NEW r \in Reconcilers, rpc[r] # "idle"
  PROVE  Counted(r) \in State
<1>1. rview[r].state \in State /\ plan[r].required \in BOOLEAN
  BY Listed, RowParts
<1> QED BY <1>1, StateTyped DEF Counted, Engine, Commit

LEMMA ExitTyped ==
  ASSUME SharedOK, NEW i \in BOOLEAN, NEW o \in ExitOrigin, NEW p \in BOOLEAN
  PROVE  ExitWrite(i, o, p) \in ExitInfo
<1>1. exitInfo.intent \in BOOLEAN
  BY DEF SharedOK, ExitInfo
<1>2. (i \/ (p /\ exitInfo.intent)) \in BOOLEAN
  BY <1>1
<1> QED BY <1>2 DEF SharedOK, ExitWrite, ExitInfo

LEMMA NoOutcomeTyped == NoOutcome \in Outcome
<1>1. CreateFlowRun.state \in State
  BY CreateTyped, RowParts
<1> QED BY <1>1 DEF NoOutcome, Outcome, Outcomes

LEMMA GoneTyped ==
  ASSUME WorkersOK, NEW w \in Workers, Gone(w) PROVE WorkersOK'
BY NoOutcomeTyped DEF Gone, WorkersOK, WorkerPC, Holding

LEMMA NoPlanTyped == NoPlan \in Plan
BY DEF NoPlan, Plan, Plans, Healths

LEMMA ReleaseTyped ==
  ASSUME ReconsOK, NEW r \in Reconcilers, Release(r) PROVE ReconsOK'
<1>1. /\ rpc' \in [Reconcilers -> ReconPC]
      /\ rview' \in [Reconcilers -> Row \cup {NoRow}]
      /\ plan' \in [Reconcilers -> Plan]
      /\ lock' \in Reconcilers \cup {NoWorker}
  BY NoPlanTyped DEF Release, ReconsOK, ReconPC
<1>2. NoPlan.health # "stale"
  BY DEF NoPlan
<1>3. ASSUME NEW q \in Reconcilers
      PROVE  /\ rpc'[q] # "idle" => rview'[q] # NoRow
             /\ plan'[q].health = "stale" => plan'[q].victim # NoWorker
             /\ rpc'[q] = "grace" => plan'[q].victim # NoWorker
  BY <1>2, <1>3 DEF Release, ReconsOK
<1> QED BY <1>1, <1>3 DEF ReconsOK

-----------------------------------------------------------------------------
\* Every variable keeps its type, and who is about to use a record or a pid
\* holds one, in every step of every actor.
THEOREM TypeCorrect == Spec => []TypeOK
<1> USE NoRowIsNoRow, NoWorkerAssumption, BoundsAssumption
    DEF vars, notWorkers, notFaulty, notRecons, files, workerVars, reconVars,
        reaperVars, userVars, userOps, userPast
<1>1. Init => TypeOK
  <2>1. ASSUME Init PROVE SharedOK
    BY <2>1, CreateTyped DEF Init, SharedOK, Trees, ExitInfo, ExitOrigin
  <2>2. ASSUME Init PROVE WorkersOK
    BY <2>2, NoOutcomeTyped DEF Init, WorkersOK, WorkerPC, Holding
  <2>3. ASSUME Init PROVE ReconsOK
    BY <2>3, NoPlanTyped DEF Init, ReconsOK, ReconPC, NoPlan
  <2>4. ASSUME Init PROVE ReaperOK /\ CountsOK
    BY <2>4 DEF Init, ReaperOK, CountsOK
  <2>5. ASSUME Init PROVE UserOK
    <3>1. stops \in 0..MaxStops /\ resumes \in 0..MaxResumes
      BY <2>5 DEF Init
    <3>2. /\ upc \in UserPC /\ userStopped \in BOOLEAN /\ forgot \in BOOLEAN
          /\ uview \in Row \cup {NoRow} /\ upid \in Workers \cup {NoWorker}
      BY <2>5 DEF Init, UserPC
    <3>3. /\ upc \in {"stopwrite", "resumeclear", "resumewrite"} =>
               uview # NoRow
          /\ upc = "stopgrace" => upid # NoWorker
      BY <2>5 DEF Init
    <3> QED BY <3>1, <3>2, <3>3 DEF UserOK
  <2> QED BY <2>1, <2>2, <2>3, <2>4, <2>5 DEF TypeOK
<1>2. ASSUME TypeOK, [Next]_vars PROVE TypeOK'
  <2> USE <1>2
  <2>1. ASSUME NEW w \in Workers, Boot(w) PROVE TypeOK'
    <3>1. SharedOK'
      BY <2>1 DEF Boot, TypeOK, SharedOK, WorkersOK
    <3>2. WorkersOK'
      BY <2>1 DEF Boot, WorkerPC, Holding, TypeOK, SharedOK, WorkersOK
    <3>3. ReconsOK' /\ ReaperOK' /\ UserOK' /\ CountsOK'
      BY <2>1 DEF Boot, TypeOK, ReconsOK, ReaperOK, UserOK, CountsOK
    <3> QED BY <3>1, <3>2, <3>3 DEF TypeOK
  <2>2. ASSUME NEW w \in Workers, PreflightFails(w) PROVE TypeOK'
    <3>1. WorkersOK'
      BY <2>2
      DEF PreflightFails, WorkerPC, Holding, TypeOK, SharedOK, WorkersOK
    <3>2. CountsOK'
      BY <2>2 DEF PreflightFails, Fault, TypeOK, SharedOK, WorkersOK, CountsOK
    <3>3. SharedOK' /\ ReconsOK' /\ ReaperOK' /\ UserOK'
      BY <2>2 DEF PreflightFails, TypeOK, SharedOK, ReconsOK, ReaperOK, UserOK
    <3> QED BY <3>1, <3>2, <3>3 DEF TypeOK
  <2>3. ASSUME NEW w \in Workers, Enter(w) PROVE TypeOK'
    <3>1. WorkersOK'
      BY <2>3 DEF Enter, WorkerPC, Holding, TypeOK, SharedOK, WorkersOK
    <3>2. SharedOK' /\ ReconsOK' /\ ReaperOK' /\ UserOK' /\ CountsOK'
      BY <2>3 DEF Enter, TypeOK, SharedOK, ReconsOK, ReaperOK, UserOK, CountsOK
    <3> QED BY <3>1, <3>2 DEF TypeOK
  <2>4. ASSUME NEW w \in Workers, ClearStop(w) PROVE TypeOK'
    <3>1. SharedOK'
      <4>1. row \in Row
        BY <2>4 DEF TypeOK, SharedOK
      <4>2. row' \in Row
        BY <2>4, <4>1, WriteStop DEF ClearStop
      <4> QED BY <2>4, <4>2 DEF TypeOK, SharedOK, ClearStop
    <3>2. WorkersOK'
      BY <2>4 DEF ClearStop, WorkerPC, Holding, TypeOK, SharedOK, WorkersOK
    <3>3. ReconsOK' /\ ReaperOK' /\ UserOK' /\ CountsOK'
      BY <2>4 DEF ClearStop, TypeOK, ReconsOK, ReaperOK, UserOK, CountsOK
    <3> QED BY <3>1, <3>2, <3>3 DEF TypeOK
  <2>5. ASSUME NEW w \in Workers, Begin(w) PROVE TypeOK'
    <3>1. SharedOK'
      <4>1. row \in Row
        BY <2>5 DEF TypeOK, SharedOK
      <4>2. view[w] \in Row
        BY <2>5, Held DEF Begin, TypeOK, Holding
      <4>3. row' \in Row
        BY <2>5, <4>1, <4>2, RuntimeTyped DEF Begin
      <4> QED BY <2>5, <4>3 DEF TypeOK, SharedOK, Begin
    <3>2. WorkersOK'
      BY <2>5, <3>1 DEF Begin, WorkerPC, Holding, TypeOK, SharedOK, WorkersOK
    <3>3. ReconsOK' /\ ReaperOK' /\ UserOK' /\ CountsOK'
      BY <2>5 DEF Begin, TypeOK, ReconsOK, ReaperOK, UserOK, CountsOK
    <3> QED BY <3>1, <3>2, <3>3 DEF TypeOK
  <2>6. ASSUME NEW w \in Workers, Loop(w) PROVE TypeOK'
    <3>1. WorkersOK'
      BY <2>6 DEF Loop, WorkerPC, Holding, TypeOK, SharedOK, WorkersOK
    <3>2. SharedOK' /\ ReconsOK' /\ ReaperOK' /\ UserOK' /\ CountsOK'
      BY <2>6 DEF Loop, TypeOK, SharedOK, ReconsOK, ReaperOK, UserOK, CountsOK
    <3> QED BY <3>1, <3>2 DEF TypeOK
  <2>7. ASSUME NEW w \in Workers, Halt(w) PROVE TypeOK'
    <3>1. SharedOK'
      <4>1. row \in Row
        BY <2>7 DEF TypeOK, SharedOK
      <4>2. view[w] \in Row
        BY <2>7, Held DEF Halt, TypeOK, Holding
      <4>3. row' \in Row
        BY <2>7, <4>1, <4>2, RuntimeTyped DEF Halt
      <4> QED BY <2>7, <4>3 DEF TypeOK, SharedOK, Halt
    <3>2. WorkersOK'
      BY <2>7 DEF Halt, WorkerPC, Holding, TypeOK, SharedOK, WorkersOK
    <3>3. ReconsOK' /\ ReaperOK' /\ UserOK' /\ CountsOK'
      BY <2>7 DEF Halt, TypeOK, ReconsOK, ReaperOK, UserOK, CountsOK
    <3> QED BY <3>1, <3>2, <3>3 DEF TypeOK
  <2>8. ASSUME NEW w \in Workers, RunFlowException(w) PROVE TypeOK'
    <3>1. SharedOK'
      <4>1. row \in Row
        BY <2>8 DEF TypeOK, SharedOK
      <4>2. view[w] \in Row
        BY <2>8, Held DEF RunFlowException, TypeOK, Holding
      <4>3. row' \in Row
        BY <2>8, <4>1, <4>2, RuntimeTyped DEF RunFlowException
      <4> QED BY <2>8, <4>3 DEF TypeOK, SharedOK, RunFlowException
    <3>2. WorkersOK'
      BY <2>8
      DEF RunFlowException, WorkerPC, Holding, TypeOK, SharedOK, WorkersOK
    <3>3. CountsOK'
      BY <2>8
      DEF RunFlowException, Fault, TypeOK, SharedOK, WorkersOK, CountsOK
    <3>4. ReconsOK' /\ ReaperOK' /\ UserOK'
      BY <2>8 DEF RunFlowException, TypeOK, ReconsOK, ReaperOK, UserOK
    <3> QED BY <3>1, <3>2, <3>3, <3>4 DEF TypeOK
  <2>9. ASSUME NEW w \in Workers, AgentActs(w) PROVE TypeOK'
    <3>1. SharedOK'
      BY <2>9 DEF AgentActs, Trees, TypeOK, SharedOK, WorkersOK
    <3>2. WorkersOK' /\ ReconsOK' /\ ReaperOK' /\ UserOK' /\ CountsOK'
      BY <2>9
      DEF AgentActs, TypeOK, WorkersOK, ReconsOK, ReaperOK, UserOK, CountsOK
    <3> QED BY <3>1, <3>2 DEF TypeOK
  <2>10. ASSUME NEW w \in Workers, TurnEnds(w) PROVE TypeOK'
    <3>0. view[w].state \in State
      BY <2>10, Held, RowParts DEF TurnEnds, TypeOK, Holding
    <3>1. SharedOK'
      <4>1. PICK res \in StepResults(view[w].state.commit, tree) : tree' = res[3]
        BY <2>10 DEF TurnEnds
      <4>2. tree' \in Trees
        BY <3>0, <4>1, StepResultsTyped DEF TypeOK, SharedOK, State
      <4> QED BY <2>10, <4>2 DEF TurnEnds, TypeOK, SharedOK, WorkersOK
    <3>2. WorkersOK'
      <4>2. ASSUME NEW res \in StepResults(view[w].state.commit, tree),
                   NEW engine \in EngineAfter[res[1]]
            PROVE  /\ res[1] \in Outcomes
                   /\ [view[w].state EXCEPT !.engine = engine,
                                            !.commit = res[2]] \in State
        <5>1. res[1] \in Outcomes /\ engine \in Engine /\ res[2] \in Commit
          BY <3>0, <4>2, StepResultsTyped DEF TypeOK, SharedOK, State
        <5> QED BY <3>0, <5>1, StateTyped
      <4>3. out' \in [Workers -> Outcome]
        <5>1. out \in [Workers -> Outcome]
          BY DEF TypeOK, WorkersOK
        <5>2. CASE row.status \in Terminal
          BY <2>10, <5>1, <5>2 DEF TurnEnds, ReadBack
        <5>3. CASE row.status \notin Terminal
          <6>0. PICK res \in StepResults(view[w].state.commit, tree) :
                  \E engine \in EngineAfter[res[1]] :
                    out' = [out EXCEPT ![w] =
                      [kind |-> res[1],
                       state |-> [view[w].state EXCEPT !.engine = engine,
                                                       !.commit = res[2]]]]
            BY <2>10, <5>3 DEF TurnEnds
          <6>1. PICK engine \in EngineAfter[res[1]] :
                  out' = [out EXCEPT ![w] =
                    [kind |-> res[1],
                     state |-> [view[w].state EXCEPT !.engine = engine,
                                                     !.commit = res[2]]]]
            BY <6>0
          <6>2. [kind |-> res[1],
                 state |-> [view[w].state EXCEPT !.engine = engine,
                                                 !.commit = res[2]]]
                  \in Outcome
            BY <4>2, <6>1 DEF Outcome
          <6>3. \A o \in Outcome : [out EXCEPT ![w] = o] \in [Workers -> Outcome]
            BY <5>1
          <6> QED BY <6>1, <6>2, <6>3
        <5> QED BY <5>2, <5>3
      <4>4. /\ pc[w] = "turn" /\ sig' = sig /\ target' = target
            /\ \/ view' = [view EXCEPT ![w] = NoRow] /\ pc' = [pc EXCEPT ![w] = "cleanup"]
               \/ view' = [view EXCEPT ![w] = row] /\ pc' = [pc EXCEPT ![w] = "write"]
        BY <2>10 DEF TurnEnds, ReadBack
      <4> QED
        BY <4>3, <4>4 DEF TypeOK, SharedOK, WorkersOK, WorkerPC, Holding
    <3>3. ReconsOK' /\ ReaperOK' /\ UserOK' /\ CountsOK'
      BY <2>10 DEF TurnEnds, TypeOK, ReconsOK, ReaperOK, UserOK, CountsOK
    <3> QED BY <3>1, <3>2, <3>3 DEF TypeOK
  <2>11. ASSUME NEW w \in Workers, TurnRaises(w) PROVE TypeOK'
    <3>1. WorkersOK'
      <4>1. view[w] \in Row /\ view[w].state \in State
        BY <2>11, Held, RowParts DEF TurnRaises, TypeOK, Holding
      <4>2. [kind |-> "exception", state |-> view[w].state] \in Outcome
        BY <4>1 DEF Outcome, Outcomes
      <4>3. out' \in [Workers -> Outcome]
        BY <2>11, <4>2 DEF TurnRaises, ReadBack, TypeOK, WorkersOK
      <4> QED
        BY <2>11, <4>1, <4>3
        DEF TurnRaises, ReadBack, TypeOK, WorkersOK, WorkerPC, Holding
    <3>2. CountsOK'
      BY <2>11 DEF TurnRaises, Fault, TypeOK, SharedOK, WorkersOK, CountsOK
    <3>3. SharedOK' /\ ReconsOK' /\ ReaperOK' /\ UserOK'
      BY <2>11 DEF TurnRaises, TypeOK, SharedOK, ReconsOK, ReaperOK, UserOK
    <3> QED BY <3>1, <3>2, <3>3 DEF TypeOK
  <2>12. ASSUME NEW w \in Workers, WriteOutcome(w) PROVE TypeOK'
    <3>1. SharedOK'
      <4>1. row \in Row
        BY <2>12 DEF TypeOK, SharedOK
      <4>2. view[w] \in Row
        BY <2>12, Held DEF WriteOutcome, TypeOK, Holding
      <4>3. out[w].state \in State /\ out[w].kind \in Outcomes
        BY <2>12, Held DEF TypeOK
      <4>4. row' \in Row
        BY <2>12, <4>1, <4>2, <4>3, RuntimeTyped, StepTyped
        DEF WriteOutcome, Outcomes
      <4> QED BY <2>12, <4>4 DEF TypeOK, SharedOK, WriteOutcome
    <3>2. WorkersOK'
      BY <2>12, <3>1, NoOutcomeTyped
      DEF WriteOutcome, WorkerPC, Holding, TypeOK, SharedOK, WorkersOK
    <3>3. ReconsOK' /\ ReaperOK' /\ UserOK' /\ CountsOK'
      BY <2>12 DEF WriteOutcome, TypeOK, ReconsOK, ReaperOK, UserOK, CountsOK
    <3> QED BY <3>1, <3>2, <3>3 DEF TypeOK
  <2>13. ASSUME NEW w \in Workers, DieInBoot(w) PROVE TypeOK'
    <3>1. WorkersOK'
      BY <2>13, GoneTyped DEF DieInBoot, TypeOK
    <3>2. SharedOK' /\ ReconsOK' /\ ReaperOK' /\ UserOK' /\ CountsOK'
      BY <2>13
      DEF DieInBoot, TypeOK, SharedOK, ReconsOK, ReaperOK, UserOK, CountsOK
    <3> QED BY <3>1, <3>2 DEF TypeOK
  <2>14. ASSUME NEW w \in Workers, SelfStop(w) PROVE TypeOK'
    <3>1. WorkersOK'
      BY <2>14 DEF SelfStop, WorkerPC, Holding, TypeOK, SharedOK, WorkersOK
    <3>2. SharedOK' /\ ReconsOK' /\ ReaperOK' /\ UserOK' /\ CountsOK'
      BY <2>14
      DEF SelfStop, TypeOK, SharedOK, ReconsOK, ReaperOK, UserOK, CountsOK
    <3> QED BY <3>1, <3>2 DEF TypeOK
  <2>15. ASSUME NEW w \in Workers, SelfStopSet(w) PROVE TypeOK'
    <3>1. SharedOK'
      <4>1. row \in Row
        BY <2>15 DEF TypeOK, SharedOK
      <4>2. row' \in Row
        BY <2>15, <4>1, WriteStop DEF SelfStopSet
      <4> QED BY <2>15, <4>2 DEF TypeOK, SharedOK, SelfStopSet
    <3>2. WorkersOK'
      <4>1. row' \in Row
        BY <3>1 DEF SharedOK
      <4>2. CASE row.status \in RequiresStop
        <5>1. /\ view' = [view EXCEPT ![w] = row']
              /\ pc' = [pc EXCEPT ![w] = "selfstop"]
              /\ UNCHANGED <<out, sig, target>>
          BY <2>15, <4>2 DEF SelfStopSet
        <5> QED BY <4>1, <5>1 DEF TypeOK, WorkersOK, WorkerPC, Holding
      <4>3. CASE row.status \notin RequiresStop
        BY <2>15, <4>3 DEF SelfStopSet, TypeOK, WorkersOK, WorkerPC, Holding
      <4> QED BY <4>2, <4>3
    <3>3. ReconsOK' /\ ReaperOK' /\ UserOK' /\ CountsOK'
      BY <2>15 DEF SelfStopSet, TypeOK, ReconsOK, ReaperOK, UserOK, CountsOK
    <3> QED BY <3>1, <3>2, <3>3 DEF TypeOK
  <2>16. ASSUME NEW w \in Workers, SelfStopWrite(w) PROVE TypeOK'
    <3>1. SharedOK'
      <4>1. row \in Row
        BY <2>16 DEF TypeOK, SharedOK
      <4>2. view[w] \in Row
        BY <2>16, Held DEF SelfStopWrite, TypeOK, Holding
      <4>3. row' \in Row
        BY <2>16, <4>1, <4>2, RuntimeTyped DEF SelfStopWrite
      <4>4. exitInfo' \in ExitInfo
        BY <2>16, ExitTyped DEF SelfStopWrite, TypeOK, SharedOK, ExitOrigin
      <4> QED BY <2>16, <4>3, <4>4 DEF SelfStopWrite, TypeOK, SharedOK
    <3>2. WorkersOK'
      <4>1. Health = "alive" => meta \in Workers
        BY <2>16 DEF Health, TypeOK, SharedOK
      <4>2. CASE view[w].status = "running" /\ Health = "alive"
        <5>1. /\ sig' = [sig EXCEPT ![meta] = TRUE]
              /\ target' = [target EXCEPT ![w] = meta]
              /\ pc' = [pc EXCEPT ![w] = "selfkill"]
              /\ view' = [view EXCEPT ![w] = NoRow]
              /\ out' = out
          BY <2>16, <4>2 DEF SelfStopWrite
        <5> QED BY <4>1, <4>2, <5>1 DEF TypeOK, WorkersOK, WorkerPC, Holding
      <4>3. CASE view[w].status # "running" \/ Health # "alive"
        BY <2>16, <4>3 DEF SelfStopWrite, TypeOK, WorkersOK, WorkerPC, Holding
      <4> QED BY <4>2, <4>3
    <3>3. ReconsOK' /\ ReaperOK' /\ UserOK' /\ CountsOK'
      BY <2>16 DEF SelfStopWrite, TypeOK, ReconsOK, ReaperOK, UserOK, CountsOK
    <3> QED BY <3>1, <3>2, <3>3 DEF TypeOK
  <2>17. ASSUME NEW w \in Workers, SelfKill(w) PROVE TypeOK'
    <3>1. SharedOK'
      <4>1. exitInfo' \in ExitInfo
        BY <2>17, ExitTyped DEF SelfKill, TypeOK, SharedOK, ExitOrigin
      <4> QED BY <2>17, <4>1 DEF SelfKill, TypeOK, SharedOK
    <3>2. WorkersOK'
      <4>1. target[w] \in Workers
        BY <2>17 DEF SelfKill, TypeOK, WorkersOK
      <4> QED BY <2>17, <4>1, GoneTyped DEF SelfKill, TypeOK
    <3>3. ReconsOK' /\ ReaperOK' /\ UserOK' /\ CountsOK'
      BY <2>17 DEF SelfKill, TypeOK, ReconsOK, ReaperOK, UserOK, CountsOK
    <3> QED BY <3>1, <3>2, <3>3 DEF TypeOK
  <2>18. ASSUME NEW w \in Workers, SelfStopDone(w) PROVE TypeOK'
    <3>1. SharedOK'
      BY <2>18 DEF SelfStopDone, TypeOK, SharedOK, WorkersOK
    <3>2. WorkersOK'
      BY <2>18 DEF SelfStopDone, WorkerPC, Holding, TypeOK, SharedOK, WorkersOK
    <3>3. ReconsOK' /\ ReaperOK' /\ UserOK' /\ CountsOK'
      BY <2>18 DEF SelfStopDone, TypeOK, ReconsOK, ReaperOK, UserOK, CountsOK
    <3> QED BY <3>1, <3>2, <3>3 DEF TypeOK
  <2>19. ASSUME NEW w \in Workers, Cleanup(w) PROVE TypeOK'
    <3>1. SharedOK'
      <4>1. exitInfo' \in ExitInfo
        BY <2>19, ExitTyped DEF Cleanup, TypeOK, SharedOK, ExitOrigin
      <4> QED BY <2>19, <4>1 DEF Cleanup, TypeOK, SharedOK
    <3>2. WorkersOK'
      BY <2>19, GoneTyped DEF Cleanup, TypeOK
    <3>3. ReconsOK' /\ ReaperOK' /\ UserOK' /\ CountsOK'
      BY <2>19 DEF Cleanup, TypeOK, ReconsOK, ReaperOK, UserOK, CountsOK
    <3> QED BY <3>1, <3>2, <3>3 DEF TypeOK
  <2>20. ASSUME NEW w \in Workers, WatchdogExit(w) PROVE TypeOK'
    <3>1. SharedOK'
      <4>1. exitInfo' \in ExitInfo
        BY <2>20, ExitTyped DEF WatchdogExit, TypeOK, SharedOK, ExitOrigin
      <4> QED BY <2>20, <4>1 DEF WatchdogExit, TypeOK, SharedOK
    <3>2. WorkersOK'
      BY <2>20, GoneTyped DEF WatchdogExit, TypeOK
    <3>3. CountsOK'
      BY <2>20 DEF WatchdogExit, Fault, TypeOK, SharedOK, WorkersOK, CountsOK
    <3>4. ReconsOK' /\ ReaperOK' /\ UserOK'
      BY <2>20 DEF WatchdogExit, TypeOK, ReconsOK, ReaperOK, UserOK
    <3> QED BY <3>1, <3>2, <3>3, <3>4 DEF TypeOK
  <2>21. ASSUME NEW w \in Workers, CrashWorker(w) PROVE TypeOK'
    <3>1. WorkersOK'
      BY <2>21, GoneTyped DEF CrashWorker, TypeOK
    <3>2. CountsOK'
      BY <2>21 DEF CrashWorker, Fault, TypeOK, SharedOK, WorkersOK, CountsOK
    <3>3. SharedOK' /\ ReconsOK' /\ ReaperOK' /\ UserOK'
      BY <2>21 DEF CrashWorker, TypeOK, SharedOK, ReconsOK, ReaperOK, UserOK
    <3> QED BY <3>1, <3>2, <3>3 DEF TypeOK
  <2>22. ASSUME NEW r \in Reconcilers, List(r) PROVE TypeOK'
    <3>1. ReconsOK'
      BY <2>22 DEF List, ReconPC, TypeOK, SharedOK, ReconsOK, WorkersOK
    <3>2. SharedOK' /\ WorkersOK' /\ ReaperOK' /\ UserOK' /\ CountsOK'
      BY <2>22
      DEF List, TypeOK, SharedOK, WorkersOK, ReaperOK, UserOK, CountsOK
    <3> QED BY <3>1, <3>2 DEF TypeOK
  <2>23. ASSUME NEW r \in Reconcilers, LockBusy(r) PROVE TypeOK'
    <3>1. ReconsOK'
      BY <2>23 DEF LockBusy, ReconPC, TypeOK, SharedOK, ReconsOK, WorkersOK
    <3>2. SharedOK' /\ WorkersOK' /\ ReaperOK' /\ UserOK' /\ CountsOK'
      BY <2>23
      DEF LockBusy, TypeOK, SharedOK, WorkersOK, ReaperOK, UserOK, CountsOK
    <3> QED BY <3>1, <3>2 DEF TypeOK
  <2>24. ASSUME NEW r \in Reconcilers, Decide(r) PROVE TypeOK'
    <3>1. ReconsOK'
      <4>1. PICK h \in HealthSeen(rview[r]), ready \in BOOLEAN :
              LET v == rview[r]
                  k == Decision(v, h, ready)
              IN plan' = [plan EXCEPT ![r] =
                   [kind |-> IF k # "none" /\ Waits(v, h, ready) THEN "wait"
                             ELSE k,
                    health |-> h, required |-> BarrierRequired(v.state),
                    victim |-> IF h = "stale" THEN meta ELSE NoWorker]]
        BY <2>24 DEF Decide
      <4> DEFINE v == rview[r]
                 k == Decision(v, h, ready)
      <4>2. k \in Plans
        BY DEF Decision, DeadPlan, Plans
      <4>3. h \in Healths /\ (h = "stale" => meta # NoWorker)
        BY <4>1 DEF HealthSeen, Health, Healths
      <4>4. BarrierRequired(v.state) \in BOOLEAN
        BY DEF BarrierRequired
      <4>5. meta \in Workers \cup {NoWorker}
        BY <2>24 DEF TypeOK, SharedOK
      <4> HIDE DEF k, v
      <4> DEFINE p == [kind |-> IF k # "none" /\ Waits(v, h, ready) THEN "wait"
                                ELSE k,
                       health |-> h, required |-> BarrierRequired(v.state),
                       victim |-> IF h = "stale" THEN meta ELSE NoWorker]
      <4>6. p \in Plan /\ (p.health = "stale" => p.victim # NoWorker)
        BY <4>2, <4>3, <4>4, <4>5 DEF Plan, Plans
      <4>7. plan' = [plan EXCEPT ![r] = p]
        BY <4>1 DEF v, k
      <4> HIDE DEF p
      <4> QED BY <2>24, <4>6, <4>7 DEF Decide, TypeOK, ReconsOK, ReconPC
    <3>2. SharedOK' /\ WorkersOK' /\ ReaperOK' /\ UserOK' /\ CountsOK'
      BY <2>24
      DEF Decide, TypeOK, SharedOK, WorkersOK, ReaperOK, UserOK, CountsOK
    <3> QED BY <3>1, <3>2 DEF TypeOK
  <2>25. ASSUME NEW r \in Reconcilers, StoreObservation(r) PROVE TypeOK'
    <3>1. SharedOK'
      <4>1. row \in Row
        BY <2>25 DEF TypeOK, SharedOK
      <4>2. /\ rview[r] \in Row /\ rview[r].state \in State
            /\ rview[r].status \in Status
        BY <2>25, Listed, RowParts DEF StoreObservation, TypeOK
      <4>3. Tidy(rview[r].state, plan[r].required) \in State
        BY <2>25, <4>2, Listed, TidyTyped DEF TypeOK
      <4>4. row' \in Row
        BY <2>25, <4>1, <4>2, <4>3, WriteStatus DEF StoreObservation
      <4> QED BY <2>25, <4>4 DEF TypeOK, SharedOK, StoreObservation
    <3>2. ReconsOK'
      BY <2>25, ReleaseTyped DEF StoreObservation, TypeOK
    <3>3. WorkersOK' /\ ReaperOK' /\ UserOK' /\ CountsOK'
      BY <2>25
      DEF StoreObservation, TypeOK, WorkersOK, ReaperOK, UserOK, CountsOK
    <3> QED BY <3>1, <3>2, <3>3 DEF TypeOK
  <2>26. ASSUME NEW r \in Reconcilers, BackoffWait(r) PROVE TypeOK'
    <3>1. ReconsOK'
      BY <2>26, ReleaseTyped DEF BackoffWait, TypeOK
    <3>2. SharedOK' /\ WorkersOK' /\ ReaperOK' /\ UserOK' /\ CountsOK'
      BY <2>26
      DEF BackoffWait, TypeOK, SharedOK, WorkersOK, ReaperOK, UserOK, CountsOK
    <3> QED BY <3>1, <3>2 DEF TypeOK
  <2>27. ASSUME NEW r \in Reconcilers, ApplyTrigger(r) PROVE TypeOK'
    <3>1. SharedOK'
      <4>1. row \in Row /\ rview[r] \in Row
        BY <2>27, Listed DEF ApplyTrigger, TypeOK, SharedOK
      <4>2. Tidy(rview[r].state, plan[r].required) \in State
        BY <2>27, <4>1, RowParts, Listed, TidyTyped DEF TypeOK
      <4> DEFINE s == Tidy(rview[r].state, plan[r].required)
      <4>3. [rview[r] EXCEPT !.state = s] \in Row
        BY <4>1, <4>2 DEF Row
      <4> HIDE DEF s
      <4>4. s \in State
        BY <4>2 DEF s
      <4>5. Reduced(r) \in Row
        BY <4>1, <4>3, <4>4, RuntimeTyped, ReconcileTyped DEF Reduced, s
      <4> QED BY <2>27, <4>5 DEF ApplyTrigger, ForgetDead, TypeOK, SharedOK
    <3>2. ReconsOK'
      BY <2>27, ReleaseTyped DEF ApplyTrigger, TypeOK
    <3>3. WorkersOK' /\ ReaperOK' /\ UserOK' /\ CountsOK'
      BY <2>27 DEF ApplyTrigger, TypeOK, WorkersOK, ReaperOK, UserOK, CountsOK
    <3> QED BY <3>1, <3>2, <3>3 DEF TypeOK
  <2>28. ASSUME NEW r \in Reconcilers, CountRestart(r) PROVE TypeOK'
    <3>1. SharedOK'
      <4>1. row \in Row
        BY <2>28 DEF TypeOK, SharedOK
      <4>2. /\ rview[r] \in Row /\ rview[r].state \in State
            /\ rview[r].status \in Status
        BY <2>28, Listed, RowParts DEF CountRestart, TypeOK
      <4>3. Counted(r) \in State
        BY <2>28, CountedTyped DEF CountRestart, TypeOK
      <4>4. row' \in Row
        BY <2>28, <4>1, <4>2, <4>3, WriteStatus DEF CountRestart
      <4> QED BY <2>28, <4>4 DEF TypeOK, SharedOK, CountRestart
    <3>2. ReconsOK'
      BY <2>28 DEF CountRestart, ReconPC, TypeOK, SharedOK, ReconsOK, WorkersOK
    <3>3. WorkersOK' /\ ReaperOK' /\ UserOK' /\ CountsOK'
      BY <2>28 DEF CountRestart, TypeOK, WorkersOK, ReaperOK, UserOK, CountsOK
    <3> QED BY <3>1, <3>2, <3>3 DEF TypeOK
  <2>29. ASSUME NEW r \in Reconcilers, SignalStale(r) PROVE TypeOK'
    <3>1. SharedOK'
      <4>1. exitInfo' \in ExitInfo
        BY <2>29, ExitTyped DEF SignalStale, TypeOK, SharedOK, ExitOrigin
      <4> QED BY <2>29, <4>1 DEF SignalStale, TypeOK, SharedOK
    <3>2. WorkersOK'
      <4>1. Alive(plan[r].victim) \in BOOLEAN
        BY DEF Alive
      <4> QED BY <2>29, <4>1 DEF SignalStale, TypeOK, WorkersOK
    <3>3. ReconsOK'
      BY <2>29 DEF SignalStale, ReconPC, TypeOK, SharedOK, ReconsOK, WorkersOK
    <3>4. ReaperOK' /\ UserOK' /\ CountsOK'
      BY <2>29 DEF SignalStale, TypeOK, ReaperOK, UserOK, CountsOK
    <3> QED BY <3>1, <3>2, <3>3, <3>4 DEF TypeOK
  <2>30. ASSUME NEW r \in Reconcilers, GraceOver(r) PROVE TypeOK'
    <3>1. SharedOK'
      <4>1. exitInfo' \in ExitInfo
        BY <2>30, ExitTyped DEF GraceOver, TypeOK, SharedOK, ExitOrigin
      <4>2. meta' \in Workers \cup {NoWorker}
        BY <2>30 DEF GraceOver, TypeOK, SharedOK
      <4> QED BY <2>30, <4>1, <4>2 DEF GraceOver, TypeOK, SharedOK
    <3>2. WorkersOK'
      <4>1. plan[r].victim \in Workers
        BY <2>30, Listed DEF GraceOver, TypeOK, ReconsOK
      <4>2. CASE UNCHANGED workerVars
        BY <2>30, <4>2 DEF TypeOK, WorkersOK
      <4>3. CASE Gone(plan[r].victim)
        BY <2>30, <4>1, <4>3, GoneTyped DEF TypeOK
      <4> QED BY <2>30, <4>2, <4>3 DEF GraceOver
    <3>3. ReconsOK'
      BY <2>30 DEF GraceOver, ReconPC, TypeOK, SharedOK, ReconsOK, WorkersOK
    <3>4. ReaperOK' /\ UserOK' /\ CountsOK'
      BY <2>30 DEF GraceOver, TypeOK, ReaperOK, UserOK, CountsOK
    <3> QED BY <3>1, <3>2, <3>3, <3>4 DEF TypeOK
  <2>31. ASSUME NEW r \in Reconcilers, Respawn(r) PROVE TypeOK'
    <3>1. SharedOK'
      BY <2>31 DEF Respawn, Spawn, TypeOK, SharedOK, ReconsOK, WorkersOK
    <3>2. WorkersOK'
      BY <2>31
      DEF Respawn, Spawn, WorkerPC, Holding, TypeOK, SharedOK, ReconsOK,
          WorkersOK
    <3>3. ReconsOK'
      BY <2>31 DEF Respawn, ReconPC, TypeOK, SharedOK, ReconsOK, WorkersOK
    <3>4. CountsOK'
      BY <2>31 DEF Respawn, TypeOK, SharedOK, ReconsOK, WorkersOK, CountsOK
    <3>5. ReaperOK' /\ UserOK'
      BY <2>31 DEF Respawn, TypeOK, ReaperOK, UserOK
    <3> QED BY <3>1, <3>2, <3>3, <3>4, <3>5 DEF TypeOK
  <2>32. ASSUME NEW r \in Reconcilers, RespawnFails(r) PROVE TypeOK'
    <3>1. ReconsOK'
      BY <2>32 DEF RespawnFails, ReconPC, TypeOK, SharedOK, ReconsOK, WorkersOK
    <3>2. SharedOK' /\ WorkersOK' /\ ReaperOK' /\ UserOK' /\ CountsOK'
      BY <2>32
      DEF RespawnFails, TypeOK, SharedOK, WorkersOK, ReaperOK, UserOK,
          CountsOK
    <3> QED BY <3>1, <3>2 DEF TypeOK
  <2>33. ASSUME NEW r \in Reconcilers, Publish(r) PROVE TypeOK'
    <3>1. SharedOK'
      <4>1. row \in Row
        BY <2>33 DEF TypeOK, SharedOK
      <4>2. /\ rview[r] \in Row /\ rview[r].state \in State
            /\ rview[r].status \in Status
        BY <2>33, Listed, RowParts DEF Publish, TypeOK
      <4>3. Counted(r) \in State
        BY <2>33, CountedTyped DEF Publish, TypeOK
      <4>4. row' \in Row
        BY <2>33, <4>1, <4>2, <4>3, WriteStatus, StatusNames DEF Publish
      <4> QED BY <2>33, <4>4 DEF TypeOK, SharedOK, Publish
    <3>2. ReconsOK'
      BY <2>33, ReleaseTyped DEF Publish, TypeOK
    <3>3. WorkersOK' /\ ReaperOK' /\ UserOK' /\ CountsOK'
      BY <2>33 DEF Publish, TypeOK, WorkersOK, ReaperOK, UserOK, CountsOK
    <3> QED BY <3>1, <3>2, <3>3 DEF TypeOK
  <2>34. ASSUME NEW r \in Reconcilers, FailRun(r) PROVE TypeOK'
    <3>1. SharedOK'
      <4>1. row \in Row /\ Counted(r) \in State /\ plan[r].required \in BOOLEAN
        BY <2>34, CountedTyped, Listed DEF FailRun, TypeOK, SharedOK
      <4>2. Tidy(Counted(r), plan[r].required) \in State
        BY <4>1, TidyTyped
      <4>3. row' \in Row
        BY <2>34, <4>1, <4>2, ReconcileTyped DEF FailRun
      <4> QED BY <2>34, <4>3 DEF FailRun, ForgetDead, TypeOK, SharedOK
    <3>2. ReconsOK'
      BY <2>34, ReleaseTyped DEF FailRun, TypeOK
    <3>3. WorkersOK' /\ ReaperOK' /\ UserOK' /\ CountsOK'
      BY <2>34 DEF FailRun, TypeOK, WorkersOK, ReaperOK, UserOK, CountsOK
    <3> QED BY <3>1, <3>2, <3>3 DEF TypeOK
  <2>35. ASSUME NEW r \in Reconcilers, CrashReconciler(r) PROVE TypeOK'
    <3>1. ReconsOK'
      BY <2>35, ReleaseTyped DEF CrashReconciler, TypeOK
    <3>2. CountsOK'
      BY <2>35
      DEF CrashReconciler, Fault, TypeOK, SharedOK, ReconsOK, WorkersOK,
          CountsOK
    <3>3. SharedOK' /\ WorkersOK' /\ ReaperOK' /\ UserOK'
      BY <2>35
      DEF CrashReconciler, TypeOK, SharedOK, WorkersOK, ReaperOK, UserOK
    <3> QED BY <3>1, <3>2, <3>3 DEF TypeOK
  <2>36. ASSUME ReaperScan PROVE TypeOK'
    <3>1. ReaperOK'
      BY <2>36
      DEF ReaperScan, Health, SharedOK, TypeOK, ReaperOK, UserOK, WorkersOK
    <3>2. SharedOK' /\ WorkersOK' /\ ReconsOK' /\ UserOK' /\ CountsOK'
      BY <2>36
      DEF ReaperScan, TypeOK, SharedOK, WorkersOK, ReconsOK, UserOK, CountsOK
    <3> QED BY <3>1, <3>2 DEF TypeOK
  <2>37. ASSUME ReaperSignal PROVE TypeOK'
    <3>1. SharedOK'
      <4>1. exitInfo' \in ExitInfo
        BY <2>37, ExitTyped DEF ReaperSignal, TypeOK, SharedOK, ExitOrigin
      <4> QED BY <2>37, <4>1 DEF ReaperSignal, TypeOK, SharedOK
    <3>2. WorkersOK'
      BY <2>37
      DEF ReaperSignal, Alive, TypeOK, SharedOK, ReaperOK, UserOK, WorkersOK
    <3>3. ReaperOK'
      BY <2>37 DEF ReaperSignal, TypeOK, SharedOK, ReaperOK, UserOK, WorkersOK
    <3>4. ReconsOK' /\ UserOK' /\ CountsOK'
      BY <2>37 DEF ReaperSignal, TypeOK, ReconsOK, UserOK, CountsOK
    <3> QED BY <3>1, <3>2, <3>3, <3>4 DEF TypeOK
  <2>38. ASSUME ReaperKill PROVE TypeOK'
    <3>1. SharedOK'
      <4>1. exitInfo' \in ExitInfo
        BY <2>38, ExitTyped DEF ReaperKill, TypeOK, SharedOK, ExitOrigin
      <4> QED BY <2>38, <4>1 DEF ReaperKill, TypeOK, SharedOK
    <3>2. WorkersOK'
      <4>1. CASE Alive(jpid)
        <5>1. jpid \in Workers
          BY <2>38 DEF ReaperKill, TypeOK, ReaperOK, UserOK
        <5> QED BY <2>38, <4>1, <5>1, GoneTyped DEF ReaperKill, TypeOK
      <4>2. CASE ~Alive(jpid)
        BY <2>38, <4>2 DEF ReaperKill, TypeOK, WorkersOK
      <4> QED BY <4>1, <4>2
    <3>3. ReaperOK'
      BY <2>38 DEF ReaperKill, TypeOK, SharedOK, ReaperOK, UserOK, WorkersOK
    <3>4. ReconsOK' /\ UserOK' /\ CountsOK'
      BY <2>38 DEF ReaperKill, TypeOK, ReconsOK, UserOK, CountsOK
    <3> QED BY <3>1, <3>2, <3>3, <3>4 DEF TypeOK
  <2>39. ASSUME Ensure PROVE TypeOK'
    <3>1. SharedOK'
      BY <2>39 DEF Ensure, Spawn, TypeOK, SharedOK, ReaperOK, UserOK, WorkersOK
    <3>2. WorkersOK'
      BY <2>39
      DEF Ensure, Spawn, WorkerPC, Holding, TypeOK, SharedOK, ReaperOK,
          UserOK, WorkersOK
    <3>3. UserOK'
      BY <2>39
      DEF Ensure, UserPC, TypeOK, SharedOK, ReaperOK, UserOK, WorkersOK
    <3>4. ReconsOK' /\ ReaperOK' /\ CountsOK'
      BY <2>39 DEF Ensure, TypeOK, ReconsOK, ReaperOK, CountsOK
    <3> QED BY <3>1, <3>2, <3>3, <3>4 DEF TypeOK
  <2>40. ASSUME StopAsk PROVE TypeOK'
    <3>1. SharedOK'
      BY <2>40 DEF StopAsk, TypeOK, SharedOK, ReaperOK, UserOK, WorkersOK
    <3>2. WorkersOK'
      BY <2>40
      DEF StopAsk, Health, Alive, TypeOK, SharedOK, ReaperOK, UserOK,
          WorkersOK
    <3>3. UserOK'
      BY <2>40
      DEF StopAsk, UserPC, TypeOK, SharedOK, ReaperOK, UserOK, WorkersOK
    <3>4. ReconsOK' /\ ReaperOK' /\ CountsOK'
      BY <2>40 DEF StopAsk, TypeOK, ReconsOK, ReaperOK, CountsOK
    <3> QED BY <3>1, <3>2, <3>3, <3>4 DEF TypeOK
  <2>41. ASSUME StopRead PROVE TypeOK'
    <3>1. UserOK'
      BY <2>41
      DEF StopRead, UserPC, TypeOK, SharedOK, ReaperOK, UserOK, WorkersOK
    <3>2. SharedOK' /\ WorkersOK' /\ ReconsOK' /\ ReaperOK' /\ CountsOK'
      BY <2>41
      DEF StopRead, TypeOK, SharedOK, WorkersOK, ReconsOK, ReaperOK, CountsOK
    <3> QED BY <3>1, <3>2 DEF TypeOK
  <2>42. ASSUME StopSet PROVE TypeOK'
    <3>1. SharedOK'
      <4>1. row \in Row
        BY <2>42 DEF TypeOK, SharedOK
      <4>2. row' \in Row
        BY <2>42, <4>1, WriteStop DEF StopSet
      <4> QED BY <2>42, <4>2 DEF TypeOK, SharedOK, StopSet
    <3>2. UserOK'
      BY <2>42, <3>1
      DEF StopSet, UserPC, SharedOK, TypeOK, ReaperOK, UserOK, WorkersOK
    <3>3. WorkersOK' /\ ReconsOK' /\ ReaperOK' /\ CountsOK'
      BY <2>42 DEF StopSet, TypeOK, WorkersOK, ReconsOK, ReaperOK, CountsOK
    <3> QED BY <3>1, <3>2, <3>3 DEF TypeOK
  <2>43. ASSUME StopWrite PROVE TypeOK'
    <3>1. SharedOK'
      <4>1. row \in Row
        BY <2>43 DEF TypeOK, SharedOK
      <4>2. uview \in Row /\ uview.state \in State
        BY <2>43, RowParts DEF StopWrite, TypeOK, UserOK
      <4>3. row' \in Row
        BY <2>43, <4>1, <4>2, RuntimeTyped DEF StopWrite
      <4> QED BY <2>43, <4>3 DEF TypeOK, SharedOK, StopWrite
    <3>2. UserOK'
      BY <2>43
      DEF StopWrite, UserPC, TypeOK, SharedOK, ReaperOK, UserOK, WorkersOK
    <3>3. WorkersOK' /\ ReconsOK' /\ ReaperOK' /\ CountsOK'
      BY <2>43 DEF StopWrite, TypeOK, WorkersOK, ReconsOK, ReaperOK, CountsOK
    <3> QED BY <3>1, <3>2, <3>3 DEF TypeOK
  <2>44. ASSUME StopKill PROVE TypeOK'
    <3>1. SharedOK'
      <4>1. exitInfo' \in ExitInfo
        BY <2>44, ExitTyped DEF StopKill, TypeOK, SharedOK, ExitOrigin
      <4> QED BY <2>44, <4>1 DEF StopKill, TypeOK, SharedOK
    <3>2. WorkersOK'
      BY <2>44
      DEF StopKill, Health, Alive, TypeOK, SharedOK, ReaperOK, UserOK,
          WorkersOK
    <3>3. UserOK'
      BY <2>44
      DEF StopKill, UserPC, Health, SharedOK, TypeOK, ReaperOK, UserOK,
          WorkersOK
    <3>4. ReconsOK' /\ ReaperOK' /\ CountsOK'
      BY <2>44 DEF StopKill, TypeOK, ReconsOK, ReaperOK, CountsOK
    <3> QED BY <3>1, <3>2, <3>3, <3>4 DEF TypeOK
  <2>45. ASSUME StopGrace PROVE TypeOK'
    <3>1. SharedOK'
      <4>1. exitInfo' \in ExitInfo
        BY <2>45, ExitTyped DEF StopGrace, TypeOK, SharedOK, ExitOrigin
      <4> QED BY <2>45, <4>1 DEF StopGrace, TypeOK, SharedOK
    <3>2. WorkersOK'
      <4>1. CASE Alive(upid)
        <5>1. upid \in Workers
          BY <2>45 DEF StopGrace, TypeOK, ReaperOK, UserOK
        <5> QED BY <2>45, <4>1, <5>1, GoneTyped DEF StopGrace, TypeOK
      <4>2. CASE ~Alive(upid)
        BY <2>45, <4>2 DEF StopGrace, TypeOK, WorkersOK
      <4> QED BY <4>1, <4>2
    <3>3. UserOK'
      BY <2>45
      DEF StopGrace, UserPC, TypeOK, SharedOK, ReaperOK, UserOK, WorkersOK
    <3>4. ReconsOK' /\ ReaperOK' /\ CountsOK'
      BY <2>45 DEF StopGrace, TypeOK, ReconsOK, ReaperOK, CountsOK
    <3> QED BY <3>1, <3>2, <3>3, <3>4 DEF TypeOK
  <2>46. ASSUME ResumeRead PROVE TypeOK'
    <3>1. UserOK'
      <4>1. stops' \in 0..MaxStops /\ resumes' \in 0..MaxResumes
        BY <2>46 DEF ResumeRead, TypeOK, UserOK
      <4>2. /\ upc' \in UserPC /\ userStopped' \in BOOLEAN /\ forgot' \in BOOLEAN
            /\ uview' \in Row /\ upid' \in Workers \cup {NoWorker}
        BY <2>46 DEF ResumeRead, TypeOK, UserOK, UserPC, SharedOK
      <4>3. upc' = "resumeclear" /\ uview' # NoRow
        BY <2>46, <4>2, NoRowAssumption DEF ResumeRead
      <4> QED BY <4>1, <4>2, <4>3 DEF UserOK
    <3>2. SharedOK' /\ WorkersOK' /\ ReconsOK' /\ ReaperOK' /\ CountsOK'
      BY <2>46
      DEF ResumeRead, TypeOK, SharedOK, WorkersOK, ReconsOK, ReaperOK, CountsOK
    <3> QED BY <3>1, <3>2 DEF TypeOK
  <2>47. ASSUME ResumeRefused PROVE TypeOK'
    <3>1. UserOK'
      BY <2>47
      DEF ResumeRefused, UserPC, TypeOK, SharedOK, ReaperOK, UserOK, WorkersOK
    <3>2. SharedOK' /\ WorkersOK' /\ ReconsOK' /\ ReaperOK' /\ CountsOK'
      BY <2>47
      DEF ResumeRefused, TypeOK, SharedOK, WorkersOK, ReconsOK, ReaperOK,
          CountsOK
    <3> QED BY <3>1, <3>2 DEF TypeOK
  <2>48. ASSUME ResumeWrite PROVE TypeOK'
    <3>1. SharedOK'
      <4>1. row \in Row /\ uview \in Row /\ uview.state \in State
        BY <2>48, RowParts DEF ResumeWrite, TypeOK, SharedOK, UserOK
      <4> DEFINE e == IF uview.state.engine = "none" THEN "none" ELSE "running"
                 s == [uview.state EXCEPT !.engine = e]
      <4>2. e \in Engine
        BY DEF Engine
      <4>3. s \in State
        BY <4>1, <4>2, StateTyped DEF Commit
      <4>4. s = [uview.state EXCEPT !.engine = IF @ = "none" THEN @
                                               ELSE "running"]
        BY <4>1 DEF State
      <4> HIDE DEF s
      <4>5. row' \in Row
        BY <2>48, <4>1, <4>3, <4>4, WriteStatus, StatusNames DEF ResumeWrite
      <4> QED BY <2>48, <4>5 DEF ResumeWrite, TypeOK, SharedOK
    <3>2. UserOK'
      BY <2>48
      DEF ResumeWrite, UserPC, TypeOK, SharedOK, ReaperOK, UserOK, WorkersOK
    <3>3. WorkersOK' /\ ReconsOK' /\ ReaperOK' /\ CountsOK'
      BY <2>48 DEF ResumeWrite, TypeOK, WorkersOK, ReconsOK, ReaperOK, CountsOK
    <3> QED BY <3>1, <3>2, <3>3 DEF TypeOK
  <2>49. ASSUME Supersede PROVE TypeOK'
    <3>1. SharedOK'
      <4>1. row' \in Row
        BY <2>49, StatusNames DEF Supersede, TypeOK, SharedOK, Row
      <4> QED BY <2>49, <4>1 DEF Supersede, TypeOK, SharedOK
    <3>2. WorkersOK' /\ ReconsOK' /\ ReaperOK' /\ UserOK' /\ CountsOK'
      BY <2>49
      DEF Supersede, TypeOK, WorkersOK, ReconsOK, ReaperOK, UserOK, CountsOK
    <3> QED BY <3>1, <3>2 DEF TypeOK
  <2>50. ASSUME NEW r \in Reconcilers, Unstop(r) PROVE TypeOK'
    <3>1. SharedOK'
      <4>1. row' \in Row
        BY <2>50, WriteStop DEF Unstop, TypeOK, SharedOK
      <4> QED BY <2>50, <4>1 DEF TypeOK, SharedOK, Unstop
    <3>2. ReconsOK'
      BY <2>50 DEF Unstop, ReconPC, TypeOK, SharedOK, ReconsOK, WorkersOK
    <3>3. WorkersOK' /\ ReaperOK' /\ UserOK' /\ CountsOK'
      BY <2>50 DEF Unstop, TypeOK, WorkersOK, ReaperOK, UserOK, CountsOK
    <3> QED BY <3>1, <3>2, <3>3 DEF TypeOK
  <2>51. ASSUME ResumeClear PROVE TypeOK'
    <3>1. SharedOK'
      <4>1. row' \in Row
        BY <2>51, WriteStop DEF ResumeClear, TypeOK, SharedOK
      <4> QED BY <2>51, <4>1 DEF TypeOK, SharedOK, ResumeClear
    <3>2. UserOK'
      BY <2>51 DEF ResumeClear, TypeOK, UserOK, UserPC, SharedOK
    <3>3. WorkersOK' /\ ReconsOK' /\ ReaperOK' /\ CountsOK'
      BY <2>51 DEF ResumeClear, TypeOK, WorkersOK, ReconsOK, ReaperOK, CountsOK
    <3> QED BY <3>1, <3>2, <3>3 DEF TypeOK
  <2>52. ASSUME NEW w \in Workers, StepBegins(w) PROVE TypeOK'
    <3>1. WorkersOK'
      BY <2>52 DEF StepBegins, WorkerPC, Holding, TypeOK, SharedOK, WorkersOK
    <3>2. SharedOK' /\ ReconsOK' /\ ReaperOK' /\ UserOK' /\ CountsOK'
      BY <2>52
      DEF StepBegins, TypeOK, SharedOK, ReconsOK, ReaperOK, UserOK, CountsOK
    <3> QED BY <3>1, <3>2 DEF TypeOK
  <2>53. CASE UNCHANGED vars
    BY <2>53
    DEF TypeOK, SharedOK, WorkersOK, ReconsOK, ReaperOK, UserOK, CountsOK
  <2> QED
    BY <2>1, <2>2, <2>3, <2>4, <2>5, <2>6, <2>7, <2>8, <2>9, <2>10, <2>11,
        <2>12, <2>13, <2>14, <2>15, <2>16, <2>17, <2>18, <2>19, <2>20, <2>21,
        <2>22, <2>23, <2>24, <2>25, <2>26, <2>27, <2>28, <2>29, <2>30, <2>31,
        <2>32, <2>33, <2>34, <2>35, <2>36, <2>37, <2>38, <2>39, <2>40, <2>41,
        <2>42, <2>43, <2>44, <2>45, <2>46, <2>47, <2>48, <2>49, <2>50,
        <2>51, <2>52, <2>53
    DEF Next, UnattendedNext, WorkerStep, WorkerEvent, ReconcilerNext,
        ReconcileStep, ReaperNext, UserStep
<1> QED BY <1>1, <1>2, PTL DEF Spec
=============================================================================
