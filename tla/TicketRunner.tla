---------------------------- MODULE TicketRunner ----------------------------
(***************************************************************************)
(* The ticket runner: one step after the other of a ticket_flow run, each  *)
(* with at most one agent turn, over the files it shares with the agent    *)
(* and the user.                                                           *)
(*                                                                         *)
(*   tickets/runner.py             TicketRunner.step                       *)
(*   tickets/runner_selection.py   select_ticket, plan_pre_turn            *)
(*   tickets/runner_execution.py   execute_turn, the loop guard            *)
(*   tickets/runner_post_turn.py   reconcile_post_turn                     *)
(*   tickets/runner_commit.py      the commit barrier                      *)
(*   tickets/outbox.py, replies.py dispatches and replies                  *)
(*                                                                         *)
(* The engine state lives in memory during a step and is stored by the     *)
(* flow runtime after it; files change at once.  A crash loses the memory. *)
(***************************************************************************)
EXTENDS Integers, Sequences, FiniteSets, FiniteSetsExt, TicketStep

CONSTANTS
    Tickets,        \* number of ticket files, in their order
    UserTickets,    \* those whose agent is "user"
    Modes,          \* modes of the dispatches the agent writes
    MaxTurns,       \* max_total_turns
    MaxLint,        \* max_lint_retries
    MaxCommit,      \* max_commit_retries
    MaxNetwork,     \* max_network_retries
    MaxActs,        \* bound on the user's replies and edits together
    MaxResumes,     \* bound on resumes
    MaxFaults       \* bound on crashes and failed copies together

ASSUME TicketsAssumption == Tickets \in Nat \ {0} /\ UserTickets \subseteq 1 .. Tickets
ASSUME ModesAssumption == Modes \subseteq {"notify", "pause"}
ASSUME LimitsAssumption ==
    /\ MaxTurns \in Nat \ {0} /\ MaxLint \in Nat /\ MaxCommit \in Nat
    /\ MaxNetwork \in Nat

VARIABLES
    ticket,     \* the files: "open", "done" or "broken" frontmatter
    dirty,      \* git status --porcelain says something
    moved,      \* the repository changed since the run was paused
    outbox,     \* [letter: DISPATCH.md, dirs: the numbers in dispatch_history]
    inbox,      \* [letter: USER_REPLY.md, dirs: reply_history, each "empty"
                \* until it is "full", or for good: "failed"]
    writer,     \* a surface that takes a reply: "idle", "written" or "made"
    status,     \* the status of the run
    saved,      \* state["ticket_engine"] in the database
    work,       \* the engine state of the step
    pc,         \* where the step is
    turn,       \* what the step knows of its turn
    on,         \* history: the ticket the step is about
    seen,       \* history: [heard, torn, unsettled, unpinned, owed, ran]
    past        \* history: how often the bounded things happened

vars == <<ticket, dirty, moved, outbox, inbox, writer, status, saved, work, pc,
          turn, on, seen, past>>
files == <<ticket, dirty, moved, outbox, inbox, writer>>

NoBarrier == [pending |-> FALSE, retries |-> 0, exhausted |-> FALSE]
NoGuard == [ticket |-> 0, count |-> 0]
NewRun == [current |-> 0, turns |-> 0, lint |-> 0, network |-> 0,
           commit |-> NoBarrier, guard |-> NoGuard,
           reply_seq |-> 0, dispatch_seq |-> 0, reason |-> "none"]
NoTurn == [upto |-> 0, changed |-> FALSE, mode |-> "none",
           verdict |-> "continue"]

Done(t) == t # 0 /\ ticket[t] = "done"

Spend(what) == past' = [past EXCEPT ![what] = @ + 1]

-----------------------------------------------------------------------------
(* How a step ends: paused for a reason, completed, or to be continued.    *)

Ends(verdict, state) ==
    /\ pc' = "save"
    /\ work' = state
    /\ turn' = [NoTurn EXCEPT !.verdict = verdict]

Pause(reason, state) == Ends("paused", [state EXCEPT !.reason = reason])

(* The beginning of step: the limit of turns, then a reply that lies in    *)
(* USER_REPLY.md is archived under the next number.                        *)
Begin ==
    /\ pc = "idle" /\ status = "running"
    /\ IF saved.turns >= MaxTurns
       THEN Pause("max_turns", saved) /\ UNCHANGED inbox
       ELSE /\ pc' = "select"
            /\ work' = saved
            /\ UNCHANGED turn
            /\ inbox' = IF inbox.letter
                        THEN [letter |-> FALSE, dirs |-> Append(inbox.dirs, "full")]
                        ELSE inbox
    /\ on' = saved.current
    /\ UNCHANGED <<ticket, dirty, moved, outbox, writer, status, saved, seen, past>>

(* The reply does not parse, or its directory cannot be made or filled.    *)
BeginFails ==
    /\ pc = "idle" /\ status = "running" /\ saved.turns < MaxTurns
    /\ inbox.letter /\ past.faults < MaxFaults
    /\ \/ UNCHANGED inbox
       \/ inbox' = [inbox EXCEPT !.dirs = Append(@, "failed")]
    /\ Pause("needs_user_fix", saved)
    /\ on' = saved.current
    /\ Spend("faults")
    /\ UNCHANGED <<ticket, dirty, moved, outbox, writer, status, saved, seen>>

-----------------------------------------------------------------------------
(* The commit barrier (_commit_barrier_state).                             *)

Barrier(retries) ==
    [pending |-> TRUE, retries |-> retries, exhausted |-> retries >= MaxCommit]

Fresh(state) == [state EXCEPT !.current = 0, !.lint = 0, !.commit = NoBarrier]

NextTicket == {t \in 1 .. Tickets : ticket[t] # "done"}

(* Mutant: a done ticket without a pending barrier is left behind.         *)
ReviewedOnlyPending(state) ==
    LET t == state.current
        keep == state.commit.pending
    IN  CASE ~Done(t) /\ keep -> [state EXCEPT !.commit = NoBarrier]
          [] Done(t) /\ (~dirty \/ ~keep) -> Fresh(state)
          [] OTHER -> state

(* select_ticket, for a current ticket that is looked at again: the state  *)
(* with the barrier raised, kept or dropped, or without a current ticket.  *)
Reviewed(state) ==
    LET t == state.current
        keep == state.commit.pending
    IN  CASE ~Done(t) /\ keep -> [state EXCEPT !.commit = NoBarrier]
          [] Done(t) /\ ~dirty -> Fresh(state)
          [] Done(t) /\ dirty /\ ~keep -> [state EXCEPT !.commit = Barrier(0)]
          [] OTHER -> state

Chosen(state) ==
    IF state.current # 0 \/ NextTicket = {} THEN state
    ELSE [Fresh(state) EXCEPT !.current = Min(NextTicket), !.guard = NoGuard]

(* The replies that are new to the run: they go into the prompt of the     *)
(* turn, one whose directory is made but not yet filled without its text.  *)
Rendered == {i \in 1 .. Len(inbox.dirs) : i > work.reply_seq}

(* Mutant: the turn is not counted.                                        *)
StartUncounted(state) ==
    /\ pc' = "turn"
    /\ work' = state
    /\ turn' = [NoTurn EXCEPT !.upto = Len(inbox.dirs)]
    /\ seen' = [seen EXCEPT
                  !.torn = @ \cup {i \in Rendered : inbox.dirs[i] = "empty"},
                  !.ran = @ + 1]

(* increment_turn_counters, render_reply_context, then the turn.           *)
Start(state) ==
    /\ pc' = "turn"
    /\ work' = [state EXCEPT !.turns = @ + 1]
    /\ turn' = [NoTurn EXCEPT !.upto = Len(inbox.dirs)]
    /\ seen' = [seen EXCEPT
                  !.torn = @ \cup {i \in Rendered : inbox.dirs[i] = "empty"},
                  !.ran = @ + 1]

(* Mutant: a user's ticket is passed over before the user is done with it. *)
UserTicketSkipped(state) == Ends("continue", state)

(* validate_ticket_for_execution: a user's ticket is never run.            *)
UserTicket(state) ==
    IF Done(state.current) THEN Ends("continue", state) ELSE Pause("user_pause", state)

Exhausted(state) ==
    Done(state.current) /\ dirty /\ state.commit.pending /\ state.commit.exhausted

(* With lint errors at hand the agent gets its ticket whatever the         *)
(* frontmatter says, as long as it can be read and names an agent.         *)
Plan(state) ==
    LET t == state.current
        unread == ticket[t] = "broken" /\ state.lint = 0
    IN  \/ unread /\ Pause("needs_user_fix", state) /\ UNCHANGED seen
        \/ /\ ticket[t] = "broken" /\ ~unread
           /\ \E reason \in {"needs_user_fix", "infra_error"} : Pause(reason, state)
           /\ UNCHANGED seen
        \/ ~unread /\ t \in UserTickets /\ UserTicket(state) /\ UNCHANGED seen
        \/ ~unread /\ t \notin UserTickets /\ Start(state)

(* select_ticket, then plan_pre_turn                                       *)
Select ==
    /\ pc = "select"
    /\ IF Exhausted(work)
       THEN Pause("needs_user_fix", work) /\ UNCHANGED <<on, seen>>
       ELSE LET state == Chosen(Reviewed(work))
            IN  IF state.current = 0
                THEN Ends("completed", work) /\ UNCHANGED <<on, seen>>
                ELSE Plan(state) /\ on' = state.current
    /\ UNCHANGED <<files, status, saved, past>>

-----------------------------------------------------------------------------
(* The agent works: it leaves its ticket, the worktree and DISPATCH.md in  *)
(* any shape, and its turn succeeds or fails.  A ticket that was finished  *)
(* over a dirty worktree is noted as unsettled until the worktree is clean *)
(* or the ticket is open again.                                            *)
Works(outcome, changed) ==
    \E file \in {"open", "done", "broken"}, isDirty \in BOOLEAN,
       letter \in Modes \cup {outbox.letter} :
         /\ isDirty # dirty => changed
         /\ ticket' = [ticket EXCEPT ![work.current] = file]
         /\ dirty' = isDirty
         /\ outbox' = [outbox EXCEPT !.letter = letter]
         /\ seen' = [seen EXCEPT
                !.unsettled = CASE ~isDirty -> 0
                                [] isDirty /\ file = "done" -> work.current
                                [] OTHER -> IF @ = work.current THEN 0 ELSE @,
                !.unpinned = @ /\ isDirty /\ file # "done",
                !.heard = @ \cup IF outcome # "ok" THEN {}
                            ELSE (work.reply_seq + 1 .. turn.upto) \ seen.torn]

(* Mutant: every reply that is there by now counts as read.                *)
ReadByNow == Len(inbox.dirs)

(* record_successful_turn_state: the replies rendered before the turn are  *)
(* the ones the agent has read.                                            *)
Read == turn.upto

TurnSucceeds ==
    /\ pc = "turn"
    /\ \E changed \in BOOLEAN :
         /\ Works("ok", changed)
         /\ turn' = [NoTurn EXCEPT !.changed = changed]
    /\ pc' = "archive"
    /\ work' = [work EXCEPT !.reply_seq = IF Read > @ THEN Read ELSE @, !.network = 0]
    /\ UNCHANGED <<moved, inbox, writer, status, saved, on, past>>

(* Mutant: one retry more than configured.                                 *)
RetriesOnceMore(outcome) == outcome = "network" /\ work.network <= MaxNetwork

Retries(outcome) == outcome = "network" /\ work.network < MaxNetwork

(* _handle_failed_turn, handle_failed_commit_turn: a network error is      *)
(* tried again as long as its retries last; else a turn of a ticket whose  *)
(* commit is pending counts as an attempt, and any other one pauses the    *)
(* run.                                                                    *)
Failed(outcome) ==
    LET retries == work.commit.retries + 1
        settled == [work EXCEPT !.network = 0]
        counted == [settled EXCEPT !.commit = Barrier(retries)]
    IN  IF Retries(outcome)
        THEN Ends("continue", [work EXCEPT !.network = @ + 1])
        ELSE IF ~(work.commit.pending /\ dirty') THEN Pause("infra_error", settled)
        ELSE IF retries >= MaxCommit THEN Pause("needs_user_fix", counted)
        ELSE Ends("continue", counted)

(* A failed turn leaves the loop guard alone, so its changes need no name. *)
TurnFails ==
    /\ pc = "turn"
    /\ \E outcome \in {"network", "error"} :
         Works(outcome, TRUE) /\ Failed(outcome)
    /\ UNCHANGED <<moved, inbox, writer, status, saved, on, past>>

-----------------------------------------------------------------------------
(* create_turn_summary: a summary whose directory exists already is        *)
(* dropped without a word, and so is its number.                           *)
Summarised(dirs, seq) ==
    [dirs |-> dirs \cup {seq + 1}, seq |-> IF seq + 1 \in dirs THEN seq ELSE seq + 1]

(* archive_dispatch_and_create_summary: DISPATCH.md goes to a directory of *)
(* the next number.  The run is paused when that exists, or when           *)
(* DISPATCH.md does not parse: decided here, as the user may have mended   *)
(* it since it was written.                                                *)
Archive ==
    /\ pc = "archive"
    /\ LET n == work.dispatch_seq + 1
           new == outbox.letter # "none"
           filed == IF new THEN Summarised(outbox.dirs \cup {n}, n)
                    ELSE Summarised(outbox.dirs, work.dispatch_seq)
       IN  \/ new /\ Pause("needs_user_fix", work) /\ UNCHANGED <<outbox, seen>>
           \/ /\ new => n \notin outbox.dirs
              /\ outbox' = [letter |-> "none", dirs |-> filed.dirs]
              /\ work' = [work EXCEPT !.dispatch_seq = filed.seq]
              /\ turn' = [turn EXCEPT !.mode = outbox.letter]
              /\ pc' = "finish"
              /\ seen' = [seen EXCEPT !.owed =
                            IF outbox.letter = "pause" THEN "due" ELSE @]
    /\ UNCHANGED <<ticket, dirty, moved, inbox, writer, status, saved, on, past>>

(* The copy into the new directory fails.                                  *)
ArchiveFails ==
    /\ pc = "archive" /\ past.faults < MaxFaults
    /\ outbox.letter # "none"
    /\ work.dispatch_seq + 1 \notin outbox.dirs
    /\ outbox' = [outbox EXCEPT !.dirs = @ \cup {work.dispatch_seq + 1}]
    /\ Pause("needs_user_fix", work)
    /\ Spend("faults")
    /\ UNCHANGED <<ticket, dirty, moved, inbox, writer, status, saved, on, seen>>

-----------------------------------------------------------------------------
(* reconcile_post_turn after the archive: the loop guard, the frontmatter, *)
(* the dispatch, the commit barrier.                                       *)

Guard(state) ==
    IF state.lint > 0 THEN NoGuard
    ELSE [ticket |-> state.current,
          count |-> IF turn.changed THEN 0
                    ELSE IF state.guard.ticket = state.current
                    THEN state.guard.count + 1 ELSE 1]

Stuck(state) == Guard(state).count >= 2

(* create_runner_pause_dispatch: DISPATCH.md is written; it stays when its *)
(* directory exists already.                                               *)
PauseForLoop(state) ==
    LET n == state.dispatch_seq + 1
    IN  IF n \in outbox.dirs
        THEN /\ outbox' = [outbox EXCEPT !.letter = "pause"]
             /\ Pause("loop_no_diff", state)
        ELSE /\ outbox' = [letter |-> "none", dirs |-> outbox.dirs \cup {n}]
             /\ Pause("loop_no_diff", [state EXCEPT !.dispatch_seq = n])

(* Mutant: only the barrier that is up already looks at the worktree.      *)
CompletedUnbarred(state) ==
    LET retries == state.commit.retries + 1
        barred == [state EXCEPT !.commit = Barrier(retries)]
    IN  \/ /\ ~dirty \/ ~state.commit.pending
           /\ Ends("continue", Fresh(state))
        \/ /\ dirty /\ state.commit.pending
           /\ IF retries >= MaxCommit
              THEN Pause("needs_user_fix", barred)
              ELSE Ends("continue", barred)

(* A done ticket: process_commit_required over a dirty worktree, or the    *)
(* cleanup for the next one.                                               *)
Completed(state) ==
    LET retries == IF state.commit.pending THEN state.commit.retries + 1 ELSE 0
        barred == [state EXCEPT !.commit = Barrier(retries)]
    IN  \/ /\ ~dirty
           /\ Ends("continue", Fresh(state))
        \/ /\ dirty
           /\ IF state.commit.pending /\ retries >= MaxCommit
              THEN Pause("needs_user_fix", barred)
              ELSE Ends("continue", barred)

(* Mutant: the commit barrier comes before the handoff.                    *)
SettleBarrierFirst(state) ==
    \/ Done(state.current) /\ Completed(state)
    \/ turn.mode = "pause" /\ ~Done(state.current) /\ Pause("user_pause", state)
    \/ /\ turn.mode # "pause" /\ ~Done(state.current)
       /\ Ends("continue", [state EXCEPT !.commit = NoBarrier])

(* The ticket file reads well: a handoff comes before everything else.     *)
Settle(state) ==
    \/ turn.mode = "pause" /\ Pause("user_pause", state)
    \/ turn.mode # "pause" /\ Done(state.current) /\ Completed(state)
    \/ /\ turn.mode # "pause" /\ ~Done(state.current)
       /\ Ends("continue", [state EXCEPT !.commit = NoBarrier])

Finish ==
    /\ pc = "finish"
    /\ LET state == [work EXCEPT !.guard = Guard(work)]
       IN  \/ /\ Stuck(work)
              /\ PauseForLoop(state)
              /\ UNCHANGED seen
           \/ /\ ~Stuck(work) /\ ticket[work.current] = "broken"
              /\ UNCHANGED outbox
              /\ IF work.lint + 1 > MaxLint
                 THEN Pause("needs_user_fix", state) /\ UNCHANGED seen
                 ELSE /\ Ends("continue", [state EXCEPT !.lint = @ + 1])
                      /\ seen' = [seen EXCEPT !.owed =
                                    IF @ = "due" THEN "waived" ELSE @]
           \/ /\ ~Stuck(work) /\ ticket[work.current] # "broken"
              /\ Settle([state EXCEPT !.lint = 0])
              /\ UNCHANGED <<outbox, seen>>
    /\ UNCHANGED <<ticket, dirty, moved, inbox, writer, status, saved, on, past>>

(* FlowRuntime stores the outcome of the step.                             *)
Save ==
    /\ pc = "save"
    /\ saved' = work
    /\ status' = IF turn.verdict = "continue" THEN "running" ELSE turn.verdict
    /\ moved' = IF turn.verdict = "paused" THEN FALSE ELSE moved
    /\ pc' = "idle" /\ work' = NewRun /\ turn' = NoTurn /\ on' = 0
    /\ UNCHANGED <<ticket, dirty, outbox, inbox, writer, seen, past>>

-----------------------------------------------------------------------------
(* The worker dies in a step.  The reconciler starts another one, or fails *)
(* the run: always when the stored state names a done ticket over a dirty  *)
(* worktree (CommitBarrierObservation.required), else when the restart     *)
(* attempts are used up.                                                   *)
BarrierRequired ==
    /\ saved.current # 0
    /\ IF Done(saved.current) THEN dirty ELSE saved.commit.pending

Crash ==
    /\ pc # "idle" /\ past.faults < MaxFaults
    /\ pc' = "idle" /\ work' = NewRun /\ turn' = NoTurn /\ on' = 0
    /\ status' \in IF BarrierRequired THEN {"failed"} ELSE {"running", "failed"}
    /\ seen' = [seen EXCEPT
                  !.unpinned = seen.unsettled # 0 /\ saved.current # seen.unsettled,
                  !.owed = IF @ = "due" THEN "waived" ELSE @]
    /\ Spend("faults")
    /\ UNCHANGED <<files, saved>>

-----------------------------------------------------------------------------
(* The user, while no step runs.                                           *)

(* FlowController.resume_flow without force: a blocking reason asks for a  *)
(* reply in USER_REPLY.md or a change of the repository.                   *)
Blocking == {"needs_user_fix", "infra_error", "loop_no_diff"}

Resume ==
    /\ status \in {"paused", "failed"} /\ pc = "idle"
    /\ past.resumes < MaxResumes
    /\ saved.reason \in Blocking => inbox.letter \/ moved
    /\ status' = "running"
    /\ saved' = [saved EXCEPT
                   !.turns = IF saved.reason = "max_turns" THEN 0 ELSE @,
                   !.reason = "none"]
    /\ seen' = [seen EXCEPT
                  !.owed = "none",
                  !.ran = IF saved.reason = "max_turns" THEN 0 ELSE @]
    /\ Spend("resumes")
    /\ UNCHANGED <<files, work, pc, turn, on>>

Resting == status \in {"paused", "failed"} /\ pc = "idle"

(* The user sets a ticket by hand.                                         *)
UserMarks ==
    /\ Resting /\ past.acts < MaxActs
    /\ \E t \in 1 .. Tickets, file \in {"open", "done"} :
         /\ ticket[t] # file
         /\ ticket' = [ticket EXCEPT ![t] = file]
         /\ seen' = [seen EXCEPT !.unsettled = IF @ = t THEN 0 ELSE @]
    /\ Spend("acts")
    /\ UNCHANGED <<dirty, moved, outbox, inbox, writer, status, saved, work, pc,
                   turn, on>>

(* The user commits, or leaves work in the worktree.                       *)
UserTouches ==
    /\ Resting /\ past.acts < MaxActs
    /\ dirty' = ~dirty
    /\ moved' = TRUE
    /\ seen' = [seen EXCEPT !.unsettled = IF dirty THEN 0 ELSE @]
    /\ Spend("acts")
    /\ UNCHANGED <<ticket, outbox, inbox, writer, status, saved, work, pc,
                   turn, on>>

(* A surface takes a reply at any time, one at a time.  reply-and-resume   *)
(* leaves it in USER_REPLY.md; the reply endpoint and Telegram archive it  *)
(* themselves: a directory first, then the files.                          *)
ReplyArrives ==
    /\ writer = "idle" /\ ~inbox.letter /\ past.acts < MaxActs
    /\ inbox' = [inbox EXCEPT !.letter = TRUE]
    /\ writer' \in {"idle", "written"}
    /\ Spend("acts")
    /\ UNCHANGED <<ticket, dirty, moved, outbox, status, saved, work, pc, turn,
                   on, seen>>

ReplyMakesDir ==
    /\ writer = "written"
    /\ IF inbox.letter
       THEN /\ inbox' = [inbox EXCEPT !.dirs = Append(@, "empty")]
            /\ writer' = "made"
       ELSE writer' = "idle" /\ UNCHANGED inbox
    /\ UNCHANGED <<ticket, dirty, moved, outbox, status, saved, work, pc, turn,
                   on, seen, past>>

ReplyCopies ==
    /\ writer = "made"
    /\ LET mine == Max({i \in 1 .. Len(inbox.dirs) : inbox.dirs[i] = "empty"})
       IN  inbox' = IF inbox.letter
                    THEN [letter |-> FALSE,
                          dirs |-> [inbox.dirs EXCEPT ![mine] = "full"]]
                    ELSE inbox
    /\ writer' = "idle"
    /\ UNCHANGED <<ticket, dirty, moved, outbox, status, saved, work, pc, turn,
                   on, seen, past>>

-----------------------------------------------------------------------------
Init ==
    /\ ticket = [t \in 1 .. Tickets |-> "open"]
    /\ dirty \in BOOLEAN /\ moved = FALSE
    /\ outbox = [letter |-> "none", dirs |-> {}]
    /\ inbox = [letter |-> FALSE, dirs |-> <<>>] /\ writer = "idle"
    /\ status = "running" /\ saved = NewRun /\ work = NewRun
    /\ pc = "idle" /\ turn = NoTurn /\ on = 0
    /\ seen = [heard |-> {}, torn |-> {}, unsettled |-> 0, unpinned |-> FALSE,
               owed |-> "none", ran |-> 0]
    /\ past = [acts |-> 0, resumes |-> 0, faults |-> 0]

Step ==
    \/ Begin \/ Select \/ TurnSucceeds \/ TurnFails
    \/ Archive \/ Finish \/ Save

User ==
    \/ Resume \/ UserMarks \/ UserTouches
    \/ ReplyArrives \/ ReplyMakesDir \/ ReplyCopies

Next == Step \/ BeginFails \/ ArchiveFails \/ Crash \/ User

Spec == Init /\ [][Next]_vars

(* The worker goes on, and a turn comes to an end.                         *)
FairSpec == Spec /\ WF_vars(Step)

-----------------------------------------------------------------------------
(* Every variable keeps its type; the engine state as step leaves it.      *)
Engines ==
    [current : 0 .. Tickets, turns : 0 .. MaxTurns, lint : 0 .. MaxLint,
     network : 0 .. MaxNetwork,
     commit : [pending : BOOLEAN, retries : Nat, exhausted : BOOLEAN],
     guard : [ticket : 0 .. Tickets, count : Nat],
     reply_seq : Nat, dispatch_seq : Nat,
     reason : {"none", "max_turns", "user_pause"} \cup Blocking]

RunnerTypeOK ==
    /\ ticket \in [1 .. Tickets -> {"open", "done", "broken"}]
    /\ dirty \in BOOLEAN /\ moved \in BOOLEAN
    /\ outbox.letter \in {"none", "pause"} \cup Modes /\ outbox.dirs \subseteq Nat
    /\ inbox.letter \in BOOLEAN /\ inbox.dirs \in Seq({"empty", "full", "failed"})
    /\ writer \in {"idle", "written", "made"}
    /\ status \in {"running", "paused", "completed", "failed"}
    /\ saved \in Engines /\ work \in Engines
    /\ pc \in {"idle", "select", "turn", "archive", "finish", "save"}
    /\ turn.verdict \in {"continue", "paused", "completed"}
    /\ pc \in {"turn", "archive", "finish"} =>
         work.current \in (1 .. Tickets) \ UserTickets

(* A reply that the run has counted as read was in the prompt of a turn    *)
(* that succeeded, unless it was rendered between the making and the       *)
(* filling of its directory (runner_step_support.py:110, replies.py:178).  *)
RepliesHeard ==
    \A i \in 1 .. saved.reply_seq :
        inbox.dirs[i] = "full" => i \in seen.heard \cup seen.torn

(* A ticket finished over a dirty worktree keeps its place: until the      *)
(* worktree was clean or the ticket open again, no other ticket gets a     *)
(* turn and the run is not completed, unless the step that finished the    *)
(* ticket was lost before its ticket was stored                            *)
(* (runner_selection.py:113-172, runner_post_turn.py:662).                 *)
Preserved ==
    seen.unsettled # 0 =>
        /\ pc = "turn" => work.current = seen.unsettled
        /\ status # "completed"
BarrierPins == seen.unpinned \/ Preserved

(* The same without the exception: "CAR preserves that ticket behind the   *)
(* commit barrier" (docs/AGENT_SETUP_GUIDE.md:201).                        *)
BarrierPreserves == Preserved

(* After a handoff the agent gets no turn until the user resumes, unless   *)
(* the ticket it left behind does not parse or the step was lost           *)
(* (runner_post_turn.py:600-676).                                          *)
HandoffYields == pc = "turn" => seen.owed # "due"

(* Between two resumes from the limit of turns, only turns lost in a crash *)
(* come on top of it (runner.py:111, core/flows/controller.py:277).        *)
TurnsBounded == seen.ran <= MaxTurns + past.faults

(* What the runtime and the reconciler see of a step.                      *)
CommitOf(state) ==
    IF state.current = 0 THEN "unnamed"
    ELSE IF ~state.commit.pending THEN "none"
    ELSE IF state.commit.exhausted THEN "exhausted" ELSE "pending"

\* The tree under a ticket, or, without one, under those that are left.
TreeUnder(t) ==
    LET open == IF t = 0 THEN NextTicket # {} ELSE ~Done(t)
    IN  IF open THEN "open" ELSE IF dirty THEN "doneDirty" ELSE "doneClean"

Outcome == [continue |-> "continue", paused |-> "pause", completed |-> "complete"]
Result == <<Outcome[turn.verdict], CommitOf(work), TreeUnder(work.current)>>

(* A step hands back no more than FlowRecovery assumes of a step that      *)
(* began with what is stored and leaves its ticket as it is by now: it is  *)
(* left behind for the next one, and the run completes, only when it is    *)
(* done in a clean worktree                                                *)
(* (flows/ticket_flow/definition.py:74, core/flows/runtime.py:383).        *)
StepsAsAssumed ==
    pc = "save" => Result \in StepResults(CommitOf(saved), TreeUnder(on))

(* A user's ticket that is marked as done over a dirty worktree: every     *)
(* step ends with "continue" and without a turn (runner_selection.py:231). *)
Spinning == saved.current \in UserTickets /\ Done(saved.current) /\ dirty

(* A run left to itself comes to rest, or spins over a user's ticket.      *)
ComesToRest == []<>(status # "running" \/ Spinning)
=============================================================================
