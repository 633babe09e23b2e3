------------------------------ MODULE PmaQueue ------------------------------
(***************************************************************************)
(* One lane of the PMA queue: the rows of orch_queue_items, the in-memory  *)
(* queue of the hub process, the workers that drain it, and the callers.   *)
(*                                                                         *)
(*   core/pma_queue.py            PmaQueue, PmaLaneScheduler               *)
(*   core/pma_lane_worker.py      PmaLaneWorker                            *)
(*   pma_routes/runtime_state.py  ensure_lane_worker, stop_lane_worker     *)
(*   pma_routes/chat_runtime.py   the chat and the stop request            *)
(*                                                                         *)
(* A row is identified by its rowid, its place in rows.  The JSONL mirror  *)
(* is kept only as the change of its mtime that wakes a polling worker.    *)
(***************************************************************************)
EXTENDS Integers, Sequences, FiniteSets, SequencesExt

CONSTANTS
    Keys,        \* idempotency keys
    Workers,     \* PmaLaneWorker objects that can be around at once
    NoWorker,    \* the lane has no worker
    MaxRows,     \* bound on the rows of the lane
    MaxStops,    \* bound on the stop requests
    MaxFaults,   \* bound on writes that fail
    MaxCrashes   \* bound on the crashes of the hub process

ASSUME NoWorkerAssumption == NoWorker \notin Workers
ASSUME KeysAssumption == Keys # {}
ASSUME BoundsAssumption ==
    MaxRows \in Nat /\ MaxStops \in Nat /\ MaxFaults \in Nat /\ MaxCrashes \in Nat

VARIABLES
    rows,      \* the lane's rows, by rowid: [key, state]
    lane,      \* PmaLaneScheduler: [queue, known, replayed, touched]
    worker,    \* the PmaLaneWorker objects: [pc, item, verdict, todo, cancel]
    registry,  \* PmaRuntimeState.lane_workers[lane_id]
    chat,      \* the chat request inside PmaQueue.enqueue: [pc, key]
    job,       \* the automation job inside enqueue_sync: [pc, key]
    stop,      \* the stop request: [pc, todo, worker]
    runs,      \* history: how often the executor was called for a row
    past       \* history: [stops, faults, crashes, deaths]

vars == <<rows, lane, worker, registry, chat, job, stop, runs, past>>

Active == {"pending", "running"}
States == Active \cup {"completed", "failed", "cancelled", "deduped"}
Ids == DOMAIN rows

Free == [pc |-> "idle", key |-> CHOOSE k \in Keys : TRUE]
Absent == [pc |-> "off", item |-> 0, verdict |-> "completed", todo |-> <<>>,
           cancel |-> FALSE]
Started == [Absent EXCEPT !.pc = "start"]
NoStop == [pc |-> "idle", todo |-> <<>>, worker |-> NoWorker]
EmptyLane == [queue |-> <<>>, known |-> {}, replayed |-> FALSE, touched |-> TRUE]

-----------------------------------------------------------------------------
(* The rows.  The partial unique index of migration 27 allows one active   *)
(* row per key.                                                            *)

ActiveOn(k) == {i \in Ids : rows[i].key = k /\ rows[i].state \in Active}

Conflicts(i, s) == s \in Active /\ ActiveOn(rows[i].key) \ {i} # {}

SetRow(i, s) == rows' = [rows EXCEPT ![i].state = s]

(* A list of rows is read in the order of their rowids.                    *)
InOrder(S) ==
    CHOOSE q \in [1 .. Cardinality(S) -> S] :
        \A m, n \in DOMAIN q : m < n => q[m] < q[n]

(* _append_to_file_sync: an insert that meets an active row of its key is  *)
(* stored as deduped instead.                                              *)
Inserted(k, s) ==
    [key |-> k, state |-> IF ActiveOn(k) = {} THEN s ELSE "deduped"]

Append1(k, s) ==
    /\ rows' = Append(rows, Inserted(k, s))
    /\ runs' = Append(runs, 0)

Touch == lane' = [lane EXCEPT !.touched = TRUE]

Fault == past.faults < MaxFaults /\ past' = [past EXCEPT !.faults = @ + 1]

(* A caller begins only when the bound leaves a row for it.                *)
Room ==
    LET waiting == {c \in {<<1, chat.pc>>, <<2, job.pc>>} : c[2] = "append"}
    IN  Len(rows) + Cardinality(waiting) < MaxRows

-----------------------------------------------------------------------------
(* ensure_lane_worker: a new worker unless the registered one runs.        *)

Over(w) == worker[w].pc \in {"off", "done"}

Spare(w) == Over(w) /\ w # stop.worker

(* Mutant of EnsureWorker: a worker is started for every caller.           *)
EnsureWorkerAlways ==
    \E w \in Workers :
        /\ Spare(w)
        /\ worker' = [worker EXCEPT ![w] = Started]
        /\ registry' = w

EnsureWorker ==
    IF registry # NoWorker /\ ~Over(registry)
    THEN UNCHANGED <<worker, registry>>
    ELSE \E w \in Workers :
            /\ Spare(w)
            /\ worker' = [worker EXCEPT ![w] = Started]
            /\ registry' = w

-----------------------------------------------------------------------------
(* The chat request: enqueue, then ensure_lane_worker.  The queue's lock   *)
(* is held from the lookup to the put, and by replay_pending.              *)

Replaying == \E w \in Workers : worker[w].pc = "replay"

ChatAsks ==
    /\ chat.pc = "idle" /\ ~Replaying /\ Room
    /\ \E k \in Keys :
         IF ActiveOn(k) = {}
         THEN chat' = [pc |-> "append", key |-> k] /\ UNCHANGED <<rows, lane, runs>>
         ELSE Append1(k, "deduped") /\ Touch /\ UNCHANGED chat
    /\ UNCHANGED <<worker, registry, job, stop, past>>

(* The appended item is put in memory whatever its row became; only a      *)
(* request that was not deduped goes on to ensure a worker.                *)
ChatAppends ==
    /\ chat.pc = "append"
    /\ Append1(chat.key, "pending")
    /\ lane' = [lane EXCEPT !.queue = Append(@, Len(rows) + 1),
                            !.known = @ \cup {Len(rows) + 1},
                            !.touched = TRUE]
    /\ chat' = [chat EXCEPT
                  !.pc = IF ActiveOn(chat.key) = {} THEN "ensure" ELSE "idle"]
    /\ UNCHANGED <<worker, registry, job, stop, past>>

(* The row is committed, the mirror is not written: enqueue raises.        *)
ChatFails ==
    /\ chat.pc = "append"
    /\ Append1(chat.key, "pending")
    /\ Fault
    /\ chat' = [chat EXCEPT !.pc = "idle"]
    /\ UNCHANGED <<lane, worker, registry, job, stop>>

ChatEnsures ==
    /\ chat.pc = "ensure"
    /\ EnsureWorker
    /\ chat' = [chat EXCEPT !.pc = "idle"]
    /\ UNCHANGED <<rows, lane, job, stop, runs, past>>

-----------------------------------------------------------------------------
(* The automation job: enqueue_sync on a PmaQueue of its own, so nothing   *)
(* is put in memory; then the lane's worker is asked for.                  *)

JobAsks ==
    /\ job.pc = "idle" /\ Room
    /\ \E k \in Keys :
         IF ActiveOn(k) = {}
         THEN job' = [pc |-> "append", key |-> k] /\ UNCHANGED <<rows, runs>>
         ELSE Append1(k, "deduped") /\ job' = [pc |-> "mirror", key |-> k]
    /\ UNCHANGED <<lane, worker, registry, chat, stop, past>>

JobAppends ==
    /\ job.pc = "append"
    /\ Append1(job.key, "pending")
    /\ job' = [job EXCEPT !.pc = "mirror"]
    /\ UNCHANGED <<lane, worker, registry, chat, stop, past>>

(* Mutant of JobMirrors: the mirror is left as it was.                     *)
JobMirrorsNothing ==
    /\ job.pc = "mirror"
    /\ job' = [job EXCEPT !.pc = "ensure"]
    /\ UNCHANGED <<rows, lane, worker, registry, chat, stop, runs, past>>

JobMirrors ==
    /\ job.pc = "mirror"
    /\ Touch
    /\ job' = [job EXCEPT !.pc = "ensure"]
    /\ UNCHANGED <<rows, worker, registry, chat, stop, runs, past>>

JobFails ==
    /\ job.pc = "mirror"
    /\ Fault
    /\ job' = [job EXCEPT !.pc = "idle"]
    /\ UNCHANGED <<rows, lane, worker, registry, chat, stop, runs>>

JobEnsures ==
    /\ job.pc = "ensure"
    /\ EnsureWorker
    /\ job' = [job EXCEPT !.pc = "idle"]
    /\ UNCHANGED <<rows, lane, chat, stop, runs, past>>

-----------------------------------------------------------------------------
(* PmaLaneWorker._run.  replay_pending works once per PmaQueue: it takes   *)
(* the unknown active rows, makes the running ones pending and puts all of *)
(* them in memory.                                                         *)

(* Mutant of Unknown: rows that memory knows are taken again.              *)
UnknownOrNot(S) == InOrder({i \in Ids : rows[i].state \in S})

Unknown(S) == InOrder({i \in Ids \ lane.known : rows[i].state \in S})

(* Mutant of ReplayBegins: the running rows are left out.                  *)
ReplayBeginsPending(w) ==
    /\ worker[w].pc = "start" /\ chat.pc # "append" /\ ~Replaying
    /\ IF lane.replayed
       THEN worker' = [worker EXCEPT ![w].pc = "loop"] /\ UNCHANGED lane
       ELSE /\ worker' = [worker EXCEPT ![w].pc = "replay",
                                        ![w].todo = Unknown({"pending"})]
            /\ lane' = [lane EXCEPT !.replayed = TRUE]
    /\ UNCHANGED <<rows, registry, chat, job, stop, runs, past>>

ReplayBegins(w) ==
    /\ worker[w].pc = "start" /\ chat.pc # "append" /\ ~Replaying
    /\ IF lane.replayed
       THEN worker' = [worker EXCEPT ![w].pc = "loop"] /\ UNCHANGED lane
       ELSE /\ worker' = [worker EXCEPT ![w].pc = "replay",
                                        ![w].todo = Unknown(Active)]
            /\ lane' = [lane EXCEPT !.replayed = TRUE]
    /\ UNCHANGED <<rows, registry, chat, job, stop, runs, past>>

(* The next running row of the snapshot becomes pending again.             *)
Interrupted(w) == {i \in ToSet(worker[w].todo) : rows[i].state = "running"}

ReplayResets(w) ==
    /\ worker[w].pc = "replay" /\ Interrupted(w) # {}
    /\ SetRow(Min(Interrupted(w)), "pending")
    /\ Touch
    /\ UNCHANGED <<worker, registry, chat, job, stop, runs, past>>

ReplayPuts(w) ==
    /\ worker[w].pc = "replay" /\ Interrupted(w) = {}
    /\ lane' = [lane EXCEPT !.queue = @ \o worker[w].todo,
                            !.known = @ \cup ToSet(worker[w].todo)]
    /\ worker' = [worker EXCEPT ![w].pc = "loop", ![w].todo = <<>>]
    /\ UNCHANGED <<rows, registry, chat, job, stop, runs, past>>

(* A reset that fails ends the worker; the rows it had come to are known,  *)
(* and not in the queue.                                                   *)
ReplayFails(w) ==
    /\ worker[w].pc = "replay" /\ Interrupted(w) # {}
    /\ Fault
    /\ LET failed == Min(Interrupted(w))
       IN  /\ UNCHANGED rows \/ SetRow(failed, "pending")
           /\ lane' = [lane EXCEPT !.known =
                         @ \cup {i \in ToSet(worker[w].todo) : i <= failed}]
    /\ worker' = [worker EXCEPT ![w] = [Absent EXCEPT !.pc = "done"]]
    /\ UNCHANGED <<registry, chat, job, stop, runs>>

(* dequeue: the item leaves the queue before its row is written.           *)
Dequeue(w) ==
    /\ worker[w].pc = "loop" /\ ~worker[w].cancel /\ lane.queue # <<>>
    /\ worker' = [worker EXCEPT ![w].pc = "mark", ![w].item = Head(lane.queue)]
    /\ lane' = [lane EXCEPT !.queue = Tail(@)]
    /\ UNCHANGED <<rows, registry, chat, job, stop, runs, past>>

(* wait_for_lane_item: when the mirror has changed, the unknown pending    *)
(* rows are put in memory; the new mtime is kept when there was none.      *)
Refresh(w) ==
    /\ worker[w].pc = "loop" /\ ~worker[w].cancel
    /\ lane.queue = <<>> /\ lane.touched
    /\ lane' = [lane EXCEPT !.queue = Unknown({"pending"}),
                            !.known = @ \cup Ids,
                            !.touched = Unknown({"pending"}) # <<>>]
    /\ UNCHANGED <<rows, worker, registry, chat, job, stop, runs, past>>

(* Mutant of Mark: an item met after the stop signal is given the verdict  *)
(* "cancelled", which no caller of the worker knows.                       *)
MarkCancelled(w) ==
    LET i == worker[w].item IN
    /\ worker[w].pc = "mark" /\ ~Conflicts(i, "running")
    /\ SetRow(i, "running")
    /\ Touch
    /\ IF worker[w].cancel
       THEN /\ worker' = [worker EXCEPT ![w].pc = "save", ![w].verdict = "cancelled"]
            /\ UNCHANGED runs
       ELSE /\ worker' = [worker EXCEPT ![w].pc = "run"]
            /\ runs' = [runs EXCEPT ![i] = @ + 1]
    /\ UNCHANGED <<registry, chat, job, stop, past>>

(* The row is written as running whatever it holds, and the executor is    *)
(* called unless the worker was told to stop.                              *)
Mark(w) ==
    LET i == worker[w].item IN
    /\ worker[w].pc = "mark" /\ ~Conflicts(i, "running")
    /\ SetRow(i, "running")
    /\ Touch
    /\ IF worker[w].cancel
       THEN /\ worker' = [worker EXCEPT ![w].pc = "save", ![w].verdict = "failed"]
            /\ UNCHANGED runs
       ELSE /\ worker' = [worker EXCEPT ![w].pc = "run"]
            /\ runs' = [runs EXCEPT ![i] = @ + 1]
    /\ UNCHANGED <<registry, chat, job, stop, past>>

(* The write is refused by the index: dequeue raises, and _run with it.    *)
MarkRefused(w) ==
    /\ worker[w].pc = "mark" /\ Conflicts(worker[w].item, "running")
    /\ worker' = [worker EXCEPT ![w] = [Absent EXCEPT !.pc = "done"]]
    /\ past' = [past EXCEPT !.deaths = 1]
    /\ UNCHANGED <<rows, lane, registry, chat, job, stop, runs>>

MarkFails(w) ==
    /\ worker[w].pc = "mark" /\ ~Conflicts(worker[w].item, "running")
    /\ Fault
    /\ \/ UNCHANGED rows
       \/ SetRow(worker[w].item, "running")
    /\ worker' = [worker EXCEPT ![w] = [Absent EXCEPT !.pc = "done"]]
    /\ UNCHANGED <<lane, registry, chat, job, stop, runs>>

(* The executor returns or raises.                                         *)
ExecutorEnds(w) ==
    /\ worker[w].pc = "run"
    /\ \E v \in {"completed", "failed"} :
         worker' = [worker EXCEPT ![w].pc = "save", ![w].verdict = v]
    /\ UNCHANGED <<rows, lane, registry, chat, job, stop, runs, past>>

(* complete_item or fail_item.                                             *)
Save(w) ==
    /\ worker[w].pc = "save"
    /\ SetRow(worker[w].item, worker[w].verdict)
    /\ Touch
    /\ worker' = [worker EXCEPT ![w] =
                    [Absent EXCEPT !.pc = "loop", !.cancel = worker[w].cancel]]
    /\ UNCHANGED <<registry, chat, job, stop, runs, past>>

(* A complete_item that raises, before or after its write, is followed by  *)
(* fail_item; a fail_item that raises is logged.                           *)
SaveFails(w) ==
    /\ worker[w].pc = "save"
    /\ Fault
    /\ \/ UNCHANGED rows
       \/ SetRow(worker[w].item, worker[w].verdict)
    /\ worker' = [worker EXCEPT ![w] =
         IF worker[w].verdict = "completed" THEN [@ EXCEPT !.verdict = "failed"]
         ELSE [Absent EXCEPT !.pc = "loop", !.cancel = worker[w].cancel]]
    /\ UNCHANGED <<lane, registry, chat, job, stop, runs>>

WorkerExits(w) ==
    /\ worker[w].pc = "loop" /\ worker[w].cancel
    /\ worker' = [worker EXCEPT ![w] = [Absent EXCEPT !.pc = "done"]]
    /\ UNCHANGED <<rows, lane, registry, chat, job, stop, runs, past>>

-----------------------------------------------------------------------------
(* The stop request: cancel_lane on a PmaQueue of its own, whose in-memory *)
(* queue is empty; then stop_lane_worker.                                  *)

StopAsks ==
    /\ stop.pc = "idle" /\ past.stops < MaxStops
    /\ stop' = [NoStop EXCEPT !.pc = "cancel",
                  !.todo = InOrder({i \in Ids : rows[i].state = "pending"})]
    /\ past' = [past EXCEPT !.stops = @ + 1]
    /\ UNCHANGED <<rows, lane, worker, registry, chat, job, runs>>

StopCancels ==
    /\ stop.pc = "cancel" /\ stop.todo # <<>>
    /\ SetRow(Head(stop.todo), "cancelled")
    /\ Touch
    /\ stop' = [stop EXCEPT !.todo = Tail(@)]
    /\ UNCHANGED <<worker, registry, chat, job, runs, past>>

StopSignals ==
    /\ stop.pc = "cancel" /\ stop.todo = <<>>
    /\ IF registry = NoWorker
       THEN stop' = NoStop /\ UNCHANGED worker
       ELSE /\ stop' = [stop EXCEPT !.pc = "join", !.worker = registry]
            /\ worker' = [worker EXCEPT ![registry].cancel = TRUE]
    /\ UNCHANGED <<rows, lane, registry, chat, job, runs, past>>

StopFails ==
    /\ stop.pc = "cancel" /\ stop.todo # <<>>
    /\ Fault
    /\ stop' = NoStop
    /\ UNCHANGED <<rows, lane, worker, registry, chat, job, runs>>

(* The worker it waited for is over: the lane's entry is removed, whoever  *)
(* it holds by now.                                                        *)
StopJoins ==
    /\ stop.pc = "join" /\ Over(stop.worker)
    /\ registry' = NoWorker
    /\ stop' = NoStop
    /\ UNCHANGED <<rows, lane, worker, chat, job, runs, past>>

-----------------------------------------------------------------------------
(* The hub process dies and is started again: memory is lost, and          *)
(* start_replayable_pma_lane_workers starts the lane.                      *)

Booted(w) ==
    /\ registry' = w
    /\ worker' = [v \in Workers |-> IF v = w THEN Started ELSE Absent]

Crash ==
    /\ past.crashes < MaxCrashes
    /\ past' = [past EXCEPT !.crashes = @ + 1]
    /\ \E w \in Workers : Booted(w)
    /\ lane' = EmptyLane
    /\ chat' = Free /\ job' = Free /\ stop' = NoStop
    /\ UNCHANGED <<rows, runs>>

-----------------------------------------------------------------------------
Init ==
    /\ rows = <<>> /\ runs = <<>>
    /\ lane = EmptyLane
    /\ \E w \in Workers :
         /\ registry = w
         /\ worker = [v \in Workers |-> IF v = w THEN Started ELSE Absent]
    /\ chat = Free /\ job = Free /\ stop = NoStop
    /\ past = [stops |-> 0, faults |-> 0, crashes |-> 0, deaths |-> 0]

Requests == ChatAppends \/ ChatEnsures \/ JobAppends \/ JobMirrors \/ JobEnsures

Work(w) ==
    \/ ReplayBegins(w) \/ ReplayResets(w) \/ ReplayPuts(w)
    \/ Dequeue(w) \/ Refresh(w) \/ Mark(w) \/ MarkRefused(w)
    \/ ExecutorEnds(w) \/ Save(w) \/ WorkerExits(w)

Stopping == StopCancels \/ StopSignals \/ StopJoins

Faults ==
    \/ ChatFails \/ JobFails \/ StopFails
    \/ \E w \in Workers : ReplayFails(w) \/ MarkFails(w) \/ SaveFails(w)

Next ==
    \/ ChatAsks \/ JobAsks \/ Requests
    \/ \E w \in Workers : Work(w)
    \/ StopAsks \/ Stopping
    \/ Crash \/ Faults

Spec == Init /\ [][Next]_vars

(* Coroutines and threads that can run do run, and an executor ends: a     *)
(* turn has an idle timeout.  Nobody has to ask, stop, crash or fail.      *)
Fairness ==
    /\ WF_vars(Requests)
    /\ WF_vars(Stopping)
    /\ \A w \in Workers : WF_vars(Work(w))

FairSpec == Spec /\ Fairness

-----------------------------------------------------------------------------
(* Every variable keeps its type (core/pma_queue.py:31, the states).       *)
QueueTypeOK ==
    /\ rows \in Seq([key : Keys, state : States]) /\ Len(rows) <= MaxRows
    /\ runs \in [Ids -> Nat]
    /\ lane.queue \in Seq(Ids) /\ lane.known \subseteq Ids
    /\ lane.replayed \in BOOLEAN /\ lane.touched \in BOOLEAN
    /\ worker \in [Workers ->
         [pc : {"off", "start", "replay", "loop", "mark", "run", "save", "done"},
          item : 0 .. MaxRows, verdict : {"completed", "failed"},
          todo : Seq(Ids), cancel : BOOLEAN]]
    /\ registry \in Workers \cup {NoWorker}
    /\ chat \in [pc : {"idle", "append", "ensure"}, key : Keys]
    /\ job \in [pc : {"idle", "append", "mirror", "ensure"}, key : Keys]
    /\ stop \in [pc : {"idle", "cancel", "join"}, todo : Seq(Ids),
                 worker : Workers \cup {NoWorker}]

(* A row is executed at most once in the life of a hub process, however    *)
(* enqueue, replay and refresh meet (core/pma_queue.py:616, known ids).    *)
OncePerLife == \A i \in Ids : runs[i] <= 1 + past.crashes

Holds(w, i) == worker[w].item = i /\ worker[w].pc \in {"mark", "run", "save"}

Reading(w, i) == worker[w].pc = "replay" /\ i \in ToSet(worker[w].todo)

(* Somebody will still look for a row that memory does not know.           *)
Noticeable(i) ==
    i \notin lane.known /\ (~lane.replayed \/ lane.touched \/ job.pc = "mirror")

(* As long as no write failed, a pending row is queued in memory, in a     *)
(* worker's hands, or will be noticed; a running row is in the hands of    *)
(* a worker or is left from before a crash and will be replayed            *)
(* (core/pma_queue.py:590, :623, :701).                                    *)
NothingStranded ==
    past.faults = 0 =>
        \A i \in Ids :
            /\ rows[i].state = "pending" =>
                 \/ i \in ToSet(lane.queue) \/ Noticeable(i)
                 \/ \E w \in Workers : Holds(w, i) \/ Reading(w, i)
            /\ rows[i].state = "running" =>
                 \/ \E w \in Workers : Holds(w, i) \/ Reading(w, i)
                 \/ ~lane.replayed

(* Two items of a lane are executed at the same time only after a stop     *)
(* request removed a running worker from the registry                      *)
(* (pma_routes/runtime_state.py:232, :258).                                *)
SerialUnlessStopped ==
    past.stops = 0 =>
        \A v, w \in Workers : worker[v].pc = "run" /\ worker[w].pc = "run" => v = w

(* A row that has ended with an execution is never pending or running      *)
(* again: neither a replay nor a stale copy in memory brings it back.      *)
EndedNeverActive ==
    [][\A i \in Ids : rows[i].state \in {"completed", "failed"}
                         => rows'[i].state \notin Active]_vars

Undisturbed == past.stops = 0 /\ past.faults = 0 /\ past.deaths = 0

(* Left to itself, with crashes and restarts but without stop requests,    *)
(* failed writes and workers killed by the index, every pending row is     *)
(* executed to an end.                                                     *)
Drains ==
    \A i \in 1 .. MaxRows :
        (i \in Ids /\ rows[i].state = "pending")
            ~> (~Undisturbed \/ (i \in Ids /\ rows[i].state \notin Active))

(* What the module docstring of core/pma_lifecycle.py says of /stop:       *)
(* "clear queue for current lane".  What a stop request cancelled is not   *)
(* executed after it was answered.                                         *)
StopClears ==
    [][\A i \in Ids :
         rows[i].state = "cancelled" /\ stop.pc = "idle" => runs'[i] = runs[i]]_vars
=============================================================================
