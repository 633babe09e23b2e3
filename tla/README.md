# codex-autorunner in TLA+

codex-autorunner runs coding agents over a queue of markdown tickets, lets a
hub, a web UI, a CLI and chat bots watch and steer these runs, and keeps every
decision in SQLite databases and JSON files that several processes share.  This
directory models the part of it where the shared state is hard to get right.
Paths below are relative to `src/codex_autorunner/` of the repository.

## Inventory

| Component | State | Operations | Interacts through |
| --- | --- | --- | --- |
| flow engine (`core/flows/`) | `flow_runs` row; `worker.json`, `worker.exit.json` | start, run, stop, resume, reconcile, reap | database, files, signals |
| ticket runner (`tickets/`) | `state.ticket_engine`, ticket files, worktree | select ticket, run turn, enforce commit, pause | called by the flow engine's one step |
| managed-thread deliveries (`core/orchestration/managed_thread_delivery*.py`) | one row per final answer: state, claim, attempts | register, claim, record result, sweep | database, chat adapters |
| managed-thread executions (`core/managed_thread_store*.py`, `core/orchestration/execution_lifecycle.py`) | queue of turns per thread | enqueue, claim, finish, interrupt, recover | database, agents |
| publish journal (`core/publish_journal.py`, `core/publish_executor.py`) | operation and attempt rows | create, claim, dispatch, succeed, fail, retry | database; GitHub, chat |
| PMA queue (`core/pma_queue.py`, `core/pma_lane_worker.py`) | rows per lane, JSONL mirror, in-memory queue | enqueue, dequeue, complete, cancel, replay, compact | database, asyncio |
| automation, SCM, chat operations, lifecycle events | tables with claims and retries of their own | see `PROJECT.json` | database |
| hub, read models, adapters, web, CLI, config | projections, presentation, transport | see `PROJECT.json` | the above |

What is hard, and what makes each right:

* **Flow engine.** A worker process, any number of reconcilers, a reaper and a
  user read the same row and overwrite it later; processes crash, stall and are
  killed.  A run should have one worker, be restarted a bounded number of times,
  keep its end once it ended, keep a user's stop, never be restarted over
  uncommitted work, and never be left running without a worker.
* **Deliveries.** Leases expire while the holder still sends.  Two senders
  should not hold one delivery, an ended delivery should stay ended, and an
  answer should be delivered or given up after a bounded number of attempts.
* **Publish journal.** The effect and its record are two steps.  An applied
  effect should not be replayed, a key should have one live operation, no
  operation should be stuck, and nothing merged into one should be lost.
* **PMA queue.** The same item lives in a table, a file and an asyncio queue.
  An item should run once, a cancelled one never.
* **Ticket runner.** A done ticket with a dirty worktree must not be passed over,
  and no loop of turns may be endless.

`PROJECT.json` lists all components and, under `hazards`, where the code is
exposed, with the properties that cover each place.

## Plan

| Step | Module | What for | State |
| --- | --- | --- | --- |
| 1 | `TicketStep`, `FlowLifecycle`, `FlowRecovery` | one run with its workers, reconcilers, reaper and user | checked; all its safety properties proved |
| 2 | `RunLifecycle` | what a run promises those who see only its status | checked; the refinement proved |
| 3 | `ThreadDelivery`, `OneReply` | claims and leases of one delivery, two senders, sweeps, crashes; the abstract promise of one reply | checked; all its safety properties and the refinement proved |
| 4 | `PublishJournal`, `OncePerKey` | deduplication, attempts, partial success, a crash between effect and record; the abstract promise the journal implements | checked; all its safety properties and the refinement proved |
| 5 | `ScmFeedback` | review comments batched into one managed turn, and its notice, over the journal of step 4 | checked; all its safety properties proved, with the journal's |
| 6 | `PmaQueue` | table and in-memory queue, stop against dequeue, replay, restart | checked; all its safety properties proved |
| 7 | `TicketRunner` | selection, turns, retries, replies and the commit barrier over a list of tickets; what a run assumes of a step | checked; all its safety properties proved, and that it keeps to `TicketStep` |
| 8 | managed-thread executions | queue and recovery of a thread's turns, and with them the reply that is finished and never registered | left |
| 9 | chat operation ledger, automation engine | their claims and leases | left |

Of the steps that are done this part is left: `ThreadDelivery` has one
service, and the unguarded read and write of `patch_delivery` by several
processes on one hub is not in it.  Every safety property that a run checks is
proved.  Next to prove is what two workers of one run may do to its `state` after
a resume: `RunLifecycle` says it of the status only.  No
module has a `RECURSIVE` operator, so every one of them can be proved about.

## Modules

**`TicketStep`** is what a step of the ticket flow may do to those who see only
its outcome, the stored commit state and the worktree (`StepResults`).  It stands
between two models: `FlowRecovery` assumes it of a step, and `TicketRunner` keeps to
it (`StepsAsAssumed`), so that what holds of a run holds with this runner in it.  A
step that fails the run is in `StepResults` only: `TicketRunner` leaves out the app
hooks and context files from which it comes.

**`FlowLifecycle`** is the row of `flow_runs` and the reducer of
`core/flows/lifecycle_reducer.py`, without a variable.  A row keeps the status,
`stop_requested`, whether there is an `error_message`, and of the JSON state what
decisions depend on: the status the ticket engine left, the commit state, the
restart count, and whether a commit barrier is recorded.  Each trigger is an operator of the row as it is now and of
the record it reduces, because the UPDATE overwrites only the columns that the
result sets.  `STOPPING` is left out since nothing writes it.

**`FlowRecovery`** is one run and everybody who touches it.  A step of the
model is the code between two points where another process can come in.

| Variables | Code |
| --- | --- |
| `row` | the `flow_runs` row (`core/flows/store.py`) |
| `tree` | the current ticket and the worktree: open, done over a dirty tree, done and clean |
| `meta`, `exitInfo` | `worker.json`, `worker.exit.json` (`core/flows/worker_process.py`) |
| `pc`, `view`, `out`, `sig`, `target` | the worker processes: where they are in `_run_worker`, `run_flow`, `_execute_step` and `stop_flow`, the record they hold, the outcome of the turn, a pending SIGTERM, the pid they terminate |
| `lock`, `rpc`, `rview`, `plan` | the reconcilers: the run's `flock`, where they are in `reconcile_flow_run`, the record they listed, what the supervisor decided |
| `jpc`, `jpid` | the reaper |
| `upc`, `uview`, `upid` | the user's start, stop or resume in progress |
| `stops`, `resumes`, `faults`, `reaps`, `autoSpawns`, `userStopped` | history and bounds, which no guard of the code reads |

Workers go through `Boot`, `Enter`, `ClearStop`, `Begin`, then `Loop`,
`StepBegins`, a turn (`AgentActs`, `TurnEnds` or `TurnRaises`) and
`WriteOutcome`, and end by `Cleanup`; on the way they may crash, raise, be
stopped by the watchdog, or get a SIGTERM, whose handler calls
`controller.stop_flow` on the worker's own run (`SelfStop` to `SelfStopDone`).
A reconcile pass is `List`, then `LockBusy` or `Decide`, then one of
`StoreObservation`, `BackoffWait`, `ApplyTrigger`, or `CountRestart`,
`SignalStale`, perhaps `GraceOver`, `Respawn`, `Unstop` and `Publish`, or on a
failure `FailRun`; it may crash anywhere.  A user stops (`StopAsk` to
`StopGrace`), resumes (`ResumeRead` to `ResumeWrite`) and ensures a worker.

Choices that stand for data: how healthy a live worker of a running record looks
(alive or stale), whether the restart backoff has passed, what a turn
returns (`StepResults`), whether a termination succeeds, whether a paused run is
blocked when it is resumed.  A worker is stale when the run had no event for half
an hour, whatever it is at: a run that was left alone for long is stale as soon as
its new worker boots.

**`RunLifecycle`** is the status as those see it who only see the status.
Records are read and dropped; a writer moves the status along a table (`Moves`)
from a status in a record it holds, however old; only the start of another run
looks and writes at once.  `FlowRecovery` implements it (`ImplementsLifecycle`):
`Known` collects the statuses in the records of workers, reconcilers and user.
So a completed or superseded run moves only for a record from before its end,
and a stop or a pause is overwritten only by what was possible before it.

**`MCFlowRecovery`** adds the symmetry of workers and of reconcilers, and the
constraints on states and on steps that the runs use.

**`ThreadDelivery`** is one row of the delivery ledger, from the end of the turn
that produces the reply, with the two tasks of the chat service that may send
it.  Both run on one event loop and every engine call is synchronous, so a call
is a step and what lies between two calls is an `await`.  Each engine call is an
operator of the row: `RegisterIntent`, `ClaimDelivery`, `ClaimNext`, `Recovered`
(the sweep), `EnsureDirect` and `Result` (`record_attempt_result`), over the
planner's `Plan` and the transition map `Allowed`.  A call commits more than
once, so `MidCall` names the rows that a crash or an error of SQLite inside it
may leave.

| Variables | Code |
| --- | --- |
| `row` | the record (`core/orchestration/managed_thread_delivery_ledger.py`): state, claim token, attempt count, whether `next_attempt_at` has come |
| `lapsed` | the attempts whose `claim_expires_at` has passed |
| `direct` | `retain_claim_for_direct_delivery` of the hand-off |
| `pc`, `held` | the delivery worker (`adapters/chat/managed_thread_delivery_worker.py`) and the task of the turn (`adapters/chat/managed_turn_runner.py` and the Discord and Telegram handlers it calls), and the claim token each holds |
| `seen` | the state of the record that the hand-off returned to the turn |
| `copies`, `cut` | history: sends the platform has confirmed, and those of them that the record heard of as a RETRY |
| `retries`, `crashes`, `faults` | bounds |

| Actions | Code |
| --- | --- |
| `PlatformConfirms` | the last part of a send is confirmed; the adapter goes on to its cleanup (`adapters/chat/managed_thread_delivery_support.py`) |
| `WorkerTick`, `WorkerSendEnds`, `WorkerCallFails` | a tick of the worker's loop, the adapter's answer or the worker's own timeout, an engine call that raises |
| `Handoff`, `HandoffFails` | `create_intent` and `claim_delivery` at the end of the turn |
| `TurnSendEnds`, `TurnRecordFails`, `TurnCancelled` | the adapter's answer to the turn, what it records, and a cancellation |
| `DirectBegin`, `DirectBeginFails`, `DirectEnds`, `DirectRecordFails`, `BareEnds` | the direct send of the turn's own surface, with a claim or, after an error, without one |
| `LeaseLapses`, `BackoffOver` | the clock |
| `Crash`, `Shutdown`, `Restart` | the service's process |

Choices that stand for data: what an adapter answers, which of a call's commits
were made when it raised, when a lease or a backoff ends.  A claim token is a
fresh uuid and every claim counts one attempt, so the number of the attempt
stands for the token.  Between the confirmation of a send and the adapter's answer
lies the cleanup, which is awaited under the same timeout and the same
cancellation as the send: a task that is cut off there records a RETRY of a reply
that has arrived (`Cuts`), and the reply is sent again.  A lease may end at any moment, although the worker's own
timeout (120 s) is shorter than its lease (5 min): an event loop that does not
run and a clock that is set do not keep to either, and the turn's own adapter
call has no timeout.

**`OneReply`** is what the ledger promises of the reply, without leases and
attempts: it is registered, stays open, and ends once, as lost or as delivered,
which needs a send that was confirmed before; sends are confirmed in steps of their
own, heard of later or never, and every copy but one has an excuse.
`ThreadDelivery` implements it (`ImplementsOneReply`): `Phase` maps the ten states
of a record to its four, and the excuses are the leases that lapsed, the
engine calls that raised and the confirmed sends that were cut off.

**`MCThreadDelivery`** is the instance of `ThreadDelivery`; the bounds are in the cfgs.

**`PublishJournal`** is the journal with any number of drains
(`drain_pending_publish_operations`).  Each call of the journal is one SQLite
transaction, so a call is a step, and between two calls other drains run, the
process dies or the next call raises.

| Variables | Code |
| --- | --- |
| `state`, `tries`, `due` | an operation: `state`, `attempt_count`, whether `next_attempt_at` has come (`core/publish_journal.py`) |
| `last` | the state of its latest row in `orch_publish_attempts` |
| `pc`, `todo`, `batch`, `hand`, `attempt`, `again` | a drain (`core/publish_executor.py`): where it is, what it listed, claimed and works on, the attempt it was told, whether the failure in hand is retried |
| `returned`, `waits`, `faults` | history and bounds |

| Actions | Code |
| --- | --- |
| `CreateOperation`, `BecomesDue` | a request for a key, and the clock |
| `StartDrain`, `Reconcile`, `Claim`, `MarkRunning` | the calls of a drain up to the dispatch |
| `DispatchReturns`, `DispatchRaises` | the executor: a plain error, a `TerminalPublishError`, or one with `retry_after_seconds` |
| `RecordSuccess`, `RecordEffect`, `RecordFailure` | `mark_succeeded`, `mark_effect_applied`, `mark_failed` |
| `Crash`, `SuccessRaises`, `EffectRaises`, `CallRaises` | the process dies, or a call raises before or after its commit |

Choices that stand for data: what an executor answers, whether a delay is zero,
which part of the due operations the query returns (the drain read its clock
before).  An operation is a slot with a fixed key, "absent" until it is created.

**`OncePerKey`** is what the journal promises of a key: one open request at a
time, a request that may be given up, work that is completed once and closes the
key for good.  `PublishJournal` implements it (`ImplementsPromise`): a key is
closed when a dispatch returned, open while an operation holds it, else free.

**`ScmFeedback`** extends the journal by what two of its operations mean.  The
payload of an `enqueue_managed_turn` operation gathers the review comments of a
batch window; `notify_chat` waits until the managed thread took the turn up.

| Variables | Code |
| --- | --- |
| `bundle`, `depends` | the payloads: the comments of a turn, the operation a notice waits for |
| `step`, `target`, `copy` | the ingestion of a comment (`core/scm_automation_service.py`): where it is, the operation it was given, the items it read there |
| `emitted` | the reaction state after `mark_reaction_emitted` |
| `turn`, `given` | the managed turn an executor created, and with which comments (`core/publish_operation_executors.py`) |
| `answer` | what a drain is about to tell the chat, with what it had read of the operation and the turn |
| `told`, `raced` | what the chat was told; comments another actor came in the way of (history) |

Its actions are `Ingest`, `Merge`, `CreateAgain`, `Emit`, `CreateNotice` and
`UpdateNotice` of a comment, the executor `DispatchTurn` of a turn, the two steps
`ResolveNotice` and `SendNotice` of the executor of a notice, which reads the
turn and then awaits the send, `RunTurn` for the managed thread, and `JournalStep`, every
other step of the journal.

**`PmaQueue`** is one lane in the hub process: the table, the in-memory queue and
their users.  The JSONL mirror is kept only as the change of its mtime, which
wakes a polling worker.

| Variables | Code |
| --- | --- |
| `rows` | the lane's rows of `orch_queue_items`, by rowid (`core/pma_queue.py`) |
| `lane` | `PmaLaneScheduler`: queue, known ids, whether it was replayed, and whether the mirror changed |
| `worker`, `registry` | the `PmaLaneWorker` objects (`core/pma_lane_worker.py`) and the one that is registered (`pma_routes/runtime_state.py`) |
| `chat`, `job`, `stop` | a chat request in `enqueue`, an automation job in `enqueue_sync`, a stop request |
| `runs`, `past` | history and bounds |

| Actions | Code |
| --- | --- |
| `ChatAsks`, `ChatAppends`, `ChatEnsures` | lookup of the key, row and put, `ensure_lane_worker` |
| `JobAsks`, `JobAppends`, `JobMirrors`, `JobEnsures` | the same from another thread, without memory |
| `ReplayBegins`, `ReplayResets`, `ReplayPuts` | `replay_pending` |
| `Refresh`, `Dequeue`, `Mark`, `MarkRefused`, `ExecutorEnds`, `Save`, `WorkerExits` | the worker's loop |
| `StopAsks`, `StopCancels`, `StopSignals`, `StopJoins` | `cancel_lane`, then `stop_lane_worker` |
| `ChatFails`, `JobFails`, `ReplayFails`, `MarkFails`, `SaveFails`, `StopFails`, `Crash` | a write that fails, before or after it reached the table; the hub dies and starts again |

**`TicketRunner`** is `TicketRunner.step` again and again, over the files it
shares with the agent and the user.  The engine state is in memory during a step
and is stored after it; files change at once, so a crash loses the one and
keeps the other.

| Variables | Code |
| --- | --- |
| `ticket`, `dirty`, `moved` | the ticket files as their frontmatter reads, the worktree, whether the repository changed since the pause |
| `outbox`, `inbox` | `DISPATCH.md` with `dispatch_history` (`tickets/outbox.py`), `USER_REPLY.md` with `reply_history` (`tickets/replies.py`) |
| `writer` | a surface that archives a reply |
| `status`, `saved` | the run and its `state["ticket_engine"]` |
| `work`, `pc`, `turn` | the step: its engine state, where it is, what it knows of its turn |
| `on` | history: the ticket the step is about |
| `seen`, `past` | history and bounds |

| Actions | Code |
| --- | --- |
| `Begin`, `BeginFails`, `Select` | the limit of turns and a waiting reply, whose archiving may fail (`tickets/runner.py`); `select_ticket` and `plan_pre_turn` (`tickets/runner_selection.py`) |
| `TurnSucceeds`, `TurnFails` | the agent's turn, the network retries, a failed commit turn (`tickets/runner_execution.py`) |
| `Archive`, `ArchiveFails`, `Finish` | `reconcile_post_turn` (`tickets/runner_post_turn.py`): dispatch, loop guard, frontmatter, hand-off, commit barrier |
| `Save`, `Crash` | the flow runtime stores the step, or the worker dies in it |
| `Resume`, `UserMarks`, `UserTouches`, `ReplyArrives`, `ReplyMakesDir`, `ReplyCopies` | the user and the surfaces |

Choices that stand for data: how the agent leaves its ticket, the worktree and
its dispatch, whether the dispatch parses, whether a ticket under lint retry can be
read and names an agent, and whether a crash was one restart too many.

**`MCPublishJournal`**, **`MCScmFeedback`**, **`MCPmaQueue`** and
**`MCTicketRunner`** are their instances.

## Runs

| Run | Bounds | Question |
| --- | --- | --- |
| `attended` | 2 workers, 1 reconciler, 1 ticket, 1 restart, 1 fault | Is there one worker, does a dirty done ticket block a restart, and is a running run that lost its worker always taken care of? |
| `two_reconcilers` | 2 workers, 2 reconcilers, 1 restart, 1 reap or fault, ticket stays open, no step fails | Does the lock exclude, which worker does `worker.json` name (`WorkerKnown`), and is a replacement undisturbed? |
| `stop` | 3 workers, 1 stop, 2 restarts, no fault, ticket stays open, no step fails | When does a stop lead to a second worker (`OneWorkerUnlessForgot`), and whose step can undo it? |
| `user` | 1 stop, 1 resume, 1 reap, no reconciler, clean worktree | Where the user, a late worker and the reaper meet: does anybody but a step that raises write from a record of an ended run, and does every write of the status keep to `RunLifecycle`? |
| `restart_budget` | 3 workers, 1 reconciler | refutes a test's claim, below |
| `delivery` | 3 attempts, 2 retries, 2 crashes, 2 calls that raise | Who sends, how many copies are there, how often is it tried, does its end last, does it keep `OneReply`, and does a registered delivery end? |
| `publishing` | 2 drains, 3 operations under 2 keys, a claim of at most 2, 1 retry, 1 wait, 2 faults | Is the record true, who holds an operation, how often is it tried, does it end, and does the journal keep `OncePerKey`? |
| `feedback` | 2 turns under one key and 1 notice, 1 drain, 2 comments, 1 retry, 1 wait, 1 fault | When is a comment lost, and is the chat told the truth? |
| `pma_queue` | 2 keys, 2 rows, 2 workers, 1 stop, 1 failed write, 1 crash | Is an item run twice, forgotten, run beside another, brought back after its end, and is the lane served until it is empty? |
| `stop_clears` | the same without failed writes | refutes a module's sentence, below |
| `tickets` | 2 tickets, the second the user's, 2 turns, 1 retry of each kind, 1 act of the user, 1 resume, 1 fault | Is a reply read, a dirty done ticket kept, a hand-off obeyed, does a step keep to `TicketStep`, and does the run come to rest within its turns? |
| `barrier_lost` | 2 tickets, 1 fault | refutes a guide's sentence, below |

Deadlock is checked in `publishing`, where a drain can always start again.  A
run, a delivery and a lane of which nobody asks anything any more do
stop; in `feedback` a notice may use up the bound on waits.

*Why the bounds are enough.*  Each hazard is between two actors, or between an
actor and its successor, and each bound leaves room for both.

* Run: two workers and one restart are what it takes for a successor to exist;
  `restart_budget` has three because it needs a second restart, and `stop`
  because a stop's wait must outlast a worker and its successor before a third
  can be spawned beside it.  `TicketOpen` removes the agent's commits where
  nothing is asked about them, and `WorktreeClean` its uncommitted changes from
  `user`, where no reconciler looks at them.  `OneTicket` ends the run of
  `attended` with its first ticket: a dirty done ticket, a crash over it and a
  restart all fall within one, and `barrier_lost` and `tickets` go on to a second.
  `NoStepFails` leaves failed steps out of `two_reconcilers` and `stop`: nobody
  replaces the worker of a failed run or stops it, and a late write meets a new
  owner of the row with any other outcome too.  `OneMishap` keeps a reap and a
  fault out of one behaviour of `two_reconcilers`.  `UsualSteps`
  leaves out of `attended`, `two_reconcilers`, `stop` and `user` the turns that end
  with a commit state that does not belong to their tree (a network error after the
  ticket was done, a hand-off over a dirty worktree) and agents that open a ticket
  again: with them there are several times as many states.  The theorems have no
  such bound.
* Delivery: three attempts are one by the turn, one by the worker and one that
  exhausts the budget; two retries or two errors show what each adds.
* Journal: two operations under one key are a request and its repetition after
  a failure, the third makes a claim of two; two faults allow a call that raises
  and the answer to it that raises too.
* Feedback: of two comments one is the bundle and the other is merged into it; a
  second turn operation takes the comment that comes after the first has failed.
* Queue: two rows are a key and its duplicate, or two items that run at once;
  a second worker is what a stop or a crash brings.
* Tickets: one ticket to leave behind and one to go on to; one retry of a kind
  is spent and refused within two turns.

The theorems below hold for all bounds.

*Fairness* (`attended`).  Each process that is scheduled takes
its next step, which is what an operating system gives (`WF` on `WorkerStep`,
`ReconcileStep` and `UserStep`); a turn need not end, since that is the agent's
doing.  The hub calls `reconcile_flow_runs` again and again (`WF` on `List`).
Such a pass may skip everything only while the database is unchanged and no run
is running or paused, so a running run is listed.  A pass that comes again and
again sometimes finds the lock free and the backoff over (`SF` on
`DecideReady`): the lock is held for one pass and the backoff is a finite time
after the last attempt.  `DecideReady` says no more than that.

*Fairness* (`delivery`).  The worker's loop comes round every few seconds
and catches what a tick raises, its adapter call is bounded by `wait_for`, time
passes, and the service manager starts the service again: `WF` on the worker's
two steps, `LeaseLapses`, `BackoffOver` and `Restart`.  Nothing is assumed of the
turn, whose adapter may hang for ever.  `Settles` needs that RETRY outcomes come
to an end (`MaxRetries`); the code has no bound on them.

*Fairness* (`publishing`).  Time passes (`BecomesDue`), the hub polls, so a drain
that has ended starts again (`StartDrain`), and one that has started goes on
(`Work`).  An operation whose drain died on it is excepted in `Settles`: nothing
in the code looks for it.

*Fairness* (`pma_queue`).  A request, a stop and a worker that can go on do go on
(`WF` on `Requests`, `Stopping` and each worker's `Work`): they are coroutines of
one loop, and the job's thread.  An executor ends, since a turn has an idle
timeout.  Nobody has to ask, stop or crash.

*Fairness* (`tickets`).  The worker goes on and a turn ends (`WF` on `Step`).
The user need do nothing.

## What the runs found

* `RestartBudget`: a test asserts that a run whose attempts are used up is not
  restarted.  The count is overwritten by a worker that was judged stale and
  writes its outcome after the attempt was counted.  The reconciler writes its own
  record back when it publishes the restart, but the new worker has read the row
  before and resumes from that record.
* `StopClears`: `/stop` is to clear the lane's queue.  It cancels the rows and
  ends the worker, but leaves the copies in the lane's queue in memory: the worker
  that the next request starts marks such a copy running again and executes it.
* `BarrierPreserves`: the setup guide says that a done ticket over a dirty
  worktree is kept.  When the worker dies after the agent finished the ticket in
  the step that chose it, the stored state does not name the ticket, and the run
  goes on to the next one.

These show in the models too, and the properties make room for them; no run is
spent on them:

* The reaper's SIGTERM makes a worker call `controller.stop_flow`, so that the
  run ends `stopped`, although the architecture map says that the reaper never
  claims user intent (`docs/car_constitution/20_ARCHITECTURE_MAP.md:81`).
* `stop_flow` waits for the worker it terminated and then removes `worker.json`,
  whoever's it is by then (`controller.py:346`).  When a reconciler has replaced
  the worker meanwhile, the next pass finds no worker and spawns one beside the
  live one.  The history variable `forgot` marks such a stop.
* A worker that dies before it stores `FLOW_START` leaves a pending run that
  nothing restarts or fails (`:68` there).
* When `create_intent` raises, the turn runner drops the error and the surface
  sends the reply without a record, against `docs/ARCHITECTURE_BOUNDARIES.md:128`.
* A RETRY outcome reschedules a delivery without a look at its attempts.
* A send that is timed out or cancelled in the cleanup after its confirmation is
  recorded as a RETRY, and the reply is sent a second time (`cut`).
* A notice says that the turn has not started of a turn that starts while the
  notice is on its way (`NoticesTrue`).
* An operation whose drain dies in it stays `running` and holds its key.
  A notice waits for its turn without a bound.
* A comment that is merged while a drain claims the operation, or while another
  ingestion merges, is lost (`KeptUnlessRaced` says that nothing else loses one).
* A second active item of a key, stored as deduped, is still queued in memory;
  marking it running is refused by the index, and the lane's worker ends with it
  (`MarkRefused`).
* A user's ticket that is done over a dirty worktree makes every step continue
  and none advance (`Spinning` in `ComesToRest`).
* A crash after a dispatch was archived takes back its number: the next one finds
  its directory there and pauses the run, again after each resume
  (`tickets/outbox.py:229`).

## Proofs

| Theorem | Module | For every |
| --- | --- | --- |
| `TypeCorrect` | `FlowRecovery_proofs` | instance, under `Spec` |
| `LockSafe` | `FlowWorkers_proofs` | instance, under `Spec` |
| `StoppedWorkerKnown`, `StoppedOneWorker`, `StoppedBarrier` | `FlowWorkers_proofs` | instance, under `Spec`: until a resume, or a stop that forgets a worker |
| `WorkerKnownAlways`, `OneWorkerAlways`, `ReplacementUndisturbedAlways`, `BarrierAlways` | `FlowWorkers_proofs` | instance, under `Unattended`: no stop or resume by a user |
| `UnfinishedAlways`, `FinishedStaysAlways`, `StopSticksAlways`, `TriggersFitAlways` | `FlowEnds_proofs` | instance, under `Spec` |
| `ImplementsLifecycleAlways` | `FlowEnds_proofs` | the same: `Spec` implements `RunLifecycle` |
| `DeliveryTyped`, `EndedStaysAlways`, `DeliveredWasSentAlways`, `FailuresBoundedAlways`, `OneSenderAlways`, `CopiesPaidForAlways` | `ThreadDelivery_proofs` | bounds, under `Spec` |
| `ImplementsOneReplyAlways` | `ThreadDelivery_proofs` | the same: `Spec` implements `OneReply` |
| `JournalTyped`, `NoReplayAlways`, `RecordsTruthAlways`, `OneHolderAlways`, `AttemptBudgetAlways` | `PublishJournal_proofs` | sets of operations, keys and drains, all bounds, under `Spec` |
| `ImplementsPromiseAlways` | `PublishJournal_proofs` | the same: `Spec` implements `OncePerKey` |
| `FeedbackTyped`, `NoticesTrueAlways`, `OneTurnAlways`, `KeptUnlessRacedAlways` | `ScmFeedback_proofs` | sets of comments, turn operations, notices and drains, all bounds, under `FeedbackSpec` |
| `FeedbackKeepsJournal`, `FeedbackKeepsPromise` | `ScmFeedback_proofs` | the same: the journal's invariants and `OncePerKey` hold of the composition |
| `RunnerTyped`, `RepliesHeardAlways`, `BarrierPinsAlways`, `HandoffYieldsAlways`, `TurnsBoundedAlways`, `StepsAsAssumedAlways` | `TicketRunner_proofs` | number of tickets, all limits, under `Spec` |
| `QueueTyped`, `OncePerLifeAlways`, `NothingStrandedAlways`, `SerialAlways`, `EndedNeverActiveAlways` | `PmaQueue_proofs` | sets of keys and workers, all bounds, under `Spec` |

They assume what the modules state of their constants: the bounds are naturals, there is
at least one attempt, a drain claims at least one operation, each operation has a key,
the operations of `ScmFeedback` that create a turn are some, have one key and share it
with no notice,
there is at least one ticket and one turn, there is an idempotency key, the user's
tickets are tickets, a dispatch notifies or pauses, and `NoWorker`, `NoRow` and `None`
are none of the values they stand beside.

### Runs

`TypeOK` says more than types: an actor holds a record or a pid whenever it is
about to use one.  It is inductive, and every other proof rests on it.

`OneWorker` is not inductive: a reconciler spawns because of a health it checked
several steps ago.  `WorkerKnown` adds why that is still true: the live worker
is the one `worker.json` names (`KnownWorker`); a reconciler that decided to act
on a dead or absent worker still finds none, and one that acts on a stale worker
finds at most that one (`StillDead`), because it holds the lock, and nobody but
the holder of the lock spawns once the run was started (`EnsureFirst`); a
restart is planned whenever a reconciler is past the count (`RestartPlanned`).
The lock's invariant `LockHeld` is proved by itself first.  `two_reconcilers`
checks `WorkerKnown` on an instance.

`WorkerKnown` is proved of a run that its user may stop, as long as it is
`Watched`: nobody resumed it, and no stop removed a live worker's `worker.json`.
A step after which the run is watched is a step of the machinery or of a stop
(`WatchedMoves`), and of those the stops keep the invariant because they start no
worker.  `StoppedOneWorker` is `OneWorkerUnlessForgot`; `OneWorkerAlways` follows,
since the machinery alone neither resumes nor forgets.

`ReplacementUndisturbed` and `BarrierBlocksRestart` rest on one fact: a
reconciler that acts on a worker it found dead is alone with the run
(`ActsAlone`, from `StillDead`).  So no worker writes the row or touches the tree
until the replacement is there, and the lock keeps other reconcilers out.  Two
invariants carry what was seen at the decision to the spawn: `GraceForStale`,
that only a stale worker's termination is waited for, and `RestartsClear`, that
the tree is still one over which the supervisor restarts.  A stop does not touch
the tree, so that `StoppedBarrier` holds for one; it does write the row, so that
`ReplacementUndisturbed` is a matter of unattended runs.

`FinishedStays` and `StopSticks` are about steps: who may take the status away.
The excuse is tied to the actor whose step it is, the one that moves on
(`LateWorker`, `LateReconciler`, `LateUser`): its own record has another status
than the row.  `SomeoneWrites` sorts every step that writes the status by its
actor, and `RecordsUnfinished`, that no actor writes from a record in which the run
has ended except a step that raises, gives that a writer whose record agrees with
the row leaves the status.  `user` checks `RecordsUnfinished`; a resume beside a reconciler is left to
the theorems.

`ImplementsLifecycle` needs two invariants.  `RecordsUnfinished` says which
records the writers hold; `TriggersFit`, that what they are about to write fits
them: a reconcile pass decides under the lock and writes later, but from the
record it decided on, and the reducer would refuse no trigger for it
(`DecisionFits`).  `WorkerMoves`, `ReconcilerMoves` and `UserMoves` then give for
each write the record and the move; `KnownGrows` says that nobody comes to hold a
status other than the row's.  `FinishedStays`, which the refinement implies, is a
theorem of its own that no run repeats.

### Deliveries

The proofs do not go through the engine's calls for every action.  Lemmas first
say once what a call may do to the record (`Called`: it moves it within the same
lease or registers it, gives up a lease that ran out, or takes a record that is
free under a fresh token) and what an answer does (`Answered`: it ends or reschedules the
record of the token it carries).  `StepMoves` says that every step is one of
these or leaves the record alone; `EndedStays` follows because neither touches a
record that has ended.

* `FailuresBounded` is not inductive: a record that is rescheduled at the limit
  would be claimed beyond it.  `Budget` adds how many attempts an open record may
  have, given the RETRY outcomes so far.
* `OneSender` needs `Holders`: no token is held twice, and a task that sends
  holds the record's token unless its lease has run out.
* `CopiesPaidFor` needs `Paid`, which counts the sends that may still be
  confirmed: one for a record that can be claimed (`Open`), one for each task
  that sends or has a live lease to send under (`Live`).  Together with the
  copies they stay within what leases that ran out, failed calls and sends that
  were cut off have paid for.  A claim moves the unit of `Open` to the task; the
  confirmation turns it into a copy, and an answer without one gives it back.
* `ImplementsOneReply` is proved step by step.  `StepReply` sorts the steps: a call
  that delivers nothing (`Silent`), a send that is confirmed (`Confirming`),
  an answer (`Heard`), and the lapse of a lease, which is an excuse.
  `CalledPhase` and `AnsweredPhase` map the first and third; that the copies
  stay excused is `CopiesPaidFor` after the step.  `DeliveredWasSent`, which the
  refinement implies, is a theorem of its own that no run repeats.

### Journal

`NoReplay`, which `ImplementsPromise` implies, is a theorem that no run repeats.
No property of the journal is inductive alone.  `NoReplay` fails when an
operation is dispatched twice, which `OneHolder` excludes; that fails when a
claimed operation is claimed again, which only its state excludes; and a record
is true only if nobody but the holder writes it.  `IInv` puts these together:

* `Drainers`: what a drain has at each place of its loop, among it that the
  operation in hand is running, and whether its dispatch has returned;
* `Operations`: of each operation by itself, how its state, its latest attempt,
  its dispatches and its attempts go together, `AttemptBudget` among it;
* `Unique`: of two operations with one key at most one is active, which the
  lookup of `CreateOperation` gives;
* `Apart`: no operation is held by two drains, since a claim takes only pending
  operations and a held one is not pending.

The refinement maps a key to "closed" once a dispatch returned for it, else to
"open" while an operation holds it.  `CreateOperation` is then `Request`,
`RecordFailure` and `CallRaises` that end an operation are `GiveUp`,
`DispatchReturns` is `Complete`, and every other step leaves the key as it is:
that a completed key is not opened again is `Unique` and `Operations`.

### Feedback

`ScmFeedback` does to the journal what the journal's own actions do not: an
ingestion rewrites a pending operation and puts its time off, and an executor
raises after it created the turn.  `JournalMoves` names these two beside `Next`,
`MovesKeep` proves that they keep `IInv`, and `FeedbackMoves` that every step of
the composition is one of the three.  So the guarantees of the journal and its
refinement of `OncePerKey` hold of the composition too.

* `FeedbackTypeOK` needs `Targets`: an ingestion past its first call has a turn
  operation.
* `NoticesTrue` needs two facts about a drain between its look and its send:
  `Answering`, that it still holds the notice, and `Heard`, that a turn it found
  started is so still, and that one it is about to call not started was queued at
  the look, has ended without running, or has an operation that failed, and stays
  failed, or whose success could not be written.
* `Quiet` says that while no write failed a turn was created by a dispatch that
  returned: so an operation that failed has no turn, which `NoticesTrue` needs, and
  `NoReplay` leaves one turn for the key, which is `OneTurn`.
* `KeptUnlessRaced` is not inductive: an operation that is dispatched must put
  its whole bundle into the turn.  `Kept` says so of each dispatch that returned,
  and that a comment is carried from the call that placed it; `Spared` is what a
  step may do to the comments nobody raced for, and every step, a merge among
  them, does no more.

### Ticket runner

A step works on its own copy of the engine state (`work`) and stores it at its
end (`saved`).  Lemmas first say what each way of ending, starting or going on
with a step does to the copy: `Closes`, `Starts` and `Carries`, the last of which
says that neither the counters nor a ticket finished over a dirty worktree is
touched.  The invariant is proved from these.  It has one part for each property
and relates the copy, the stored state and the history:

* `Counted` for `TurnsBounded`: the turns since the last resume are the stored
  ones and those of lost steps, and the copy is at most one turn ahead.  Without
  it, a step that begins at the limit could add a turn.
* `Heard` for `RepliesHeard`, of the copy and of the stored state, since a crash
  falls back to the latter.
* `Yields` for `HandoffYields`: from the archiving of the dispatch to the save of
  the step, a hand-off that is due is on its way to a pause.
* `Pinned` for `BarrierPins`: the unsettled ticket is the current one, of the
  stored state between steps and of the copy during one, so that the next
  selection finds it.
* `Underway`: a step is under way only while the run is running.

`StepsAsAssumed` speaks of the end of a step, of the state stored at its
beginning, and of the tree as it is by then under the ticket of the step (`on`).
`Stepping` adds that a ticket is selected for just that state, and that what is
not yet settled is about `on`.  The rest
is one fact on each way to end: a pause before a ticket is chosen keeps the commit
state (`PauseFits`); what ends with a ticket fits by its name (`NamedFits`); only a
ticket that is done in a clean worktree is let go of (`FreshFits`); and when nothing
is left to choose, the current ticket is such a one or there is none
(`CompleteFits`).

### PMA queue

A row that is executed once in a life passes from "not known to memory" to the
queue, from there into a worker's hands, and is executed when it is marked.
The invariant says that it is in one of these places only:

* `Memory`: the queue lists known rows, each once, and nobody works before the
  replay;
* `Replays`: what a replay has read stays unknown until it is put into memory,
  because no other worker is past its start meanwhile and the queue's lock keeps
  the chat out;
* `Held`: an item in a worker's hands is known, has left the queue, and is in no
  other hands.

`Fresh` then carries `OncePerLife`, which is not inductive alone: a row that is
still on this way was not executed in this life.  `Ended` says that a row that
has ended is not on it, and gives `EndedNeverActive`.  `Serial` is that, before
the first stop request, the registry names the only live worker.  `Kept` adds to
`NothingStranded` that before the replay memory knows no running row;
`OneActive`, the partial unique index, is why a mark that the index refuses
strands nothing: the refused row is not active.

All steps of a worker with an item in its hands are instances of one lemma
(`HandsKeep`), those of a caller of two (`AppendKeeps`, `RequestKeeps`), those of
a stop request of one (`StopHolds`).  `Listed` shows once that reading rows in
order gives each of a finite set once, by counting how many are not above each.

*Only model-checked:* liveness (`RunningAttended`, the two `Settles`, `Drains`,
`ComesToRest`), which is out of this prover's reach, and the counterexamples.

## Not modelled

Of runs: two live ones at once (each has its own row, files and lock; `Supersede` stands
for what another run's start does), a crash between `Popen` and the write of
`worker.json`, a store that fails in the write of an outcome, process-id reuse,
crash dispatch files, telemetry and lifecycle events, and the skip of unchanged
databases.  A spawn that fails because all workers of the model are used is not
distinguished from one that blocks.

Of deliveries: the parts of a reply that is sent in several messages, of which
some may arrive and the rest not; the outbox of the Discord service, which sends
on its own what a direct send could not; a cancellation whose RETRY cannot be
recorded; how the surfaces show a turn that failed; the fresh hand-off that
startup recovery makes for an execution that was still running when the service
died; several services on one hub that poll the same `adapter_key`; and sends
that the platform made and never confirmed, which `copies` does not count.  A
turn that is recorded as finished and dies before `create_intent` leaves no
record, and startup recovery looks at running executions only, so the model does
not bring it back.  An `expired` record is in the
transition map, but no code path writes one.

Of the journal: the payload's redaction and the events of GitHub and chat.  Of
feedback: the CI batch, escalations, the dedupe of the reaction state, the
rebinding of threads, and the merge into a turn that is queued already
(`_merge_into_existing_queued_scm_turn`).

Of the queue: the compaction of terminal rows, which deletes what nobody reads
again; several lanes, which share nothing; the interruption of the running
turn by a stop; and several hub processes.

Of the ticket runner: the user's edits, commits and replies other than through the
surfaces while the run works (they come when it rests); the surface's own failing
copy of a reply; the missing summary of a turn without output; automatic commits,
app hooks, thread bindings, missing
context files, errors of git, tickets that are added or renamed during a run,
a forced resume, and the text of the prompt.

The components without a module are listed
with the reason in `PROJECT.json`.
