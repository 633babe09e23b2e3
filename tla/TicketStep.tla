----------------------------- MODULE TicketStep -----------------------------
(***************************************************************************)
(* What one step of the ticket flow (TicketRunner.step, as                 *)
(* flows/ticket_flow/definition.py calls it) leaves behind for those who   *)
(* only see its outcome, the stored commit state and the worktree: the     *)
(* flow runtime and the reconciler.  FlowRecovery assumes this of a step   *)
(* and TicketRunner is shown to provide it.                                *)
(***************************************************************************)

\* The current ticket is open, done over a dirty worktree, or done and clean.
Trees == {"open", "doneDirty", "doneClean"}

\* state.ticket_engine.commit: absent, pending or pending with its retries used
\* up; "unnamed" while there is no current_ticket it could be about.
Commit == {"unnamed", "none", "pending", "exhausted"}
Named == Commit \ {"unnamed"}

\* state.ticket_engine.status as each outcome leaves it: a hook of an app that
\* fails the run leaves "running".
EngineAfter == [continue |-> {"running"}, pause |-> {"paused"},
                complete |-> {"completed"}, fail |-> {"failed", "running"}]

\* The outcome of a step that began with the commit state c and leaves its
\* ticket as t, the commit state it hands to the runtime, and the tree from
\* then on.  Only a done ticket in a clean worktree is left behind, for the next
\* ticket or for none; the run completes in such a place, or when no ticket was
\* current and none is open; and only a pause before a ticket is chosen keeps a
\* state without one.
StepResults(c, t) ==
  ({"continue", "pause", "fail"} \X Named \X {t})
  \cup {<<"pause", c, t>>}
  \cup (IF t = "doneClean" THEN {"continue"} \X {"unnamed"} \X {"open", t} ELSE {})
  \cup (IF t = "doneClean" \/ (c = "unnamed" /\ t # "open")
        THEN {<<"complete", c, t>>} ELSE {})
=============================================================================
