--------------------------- MODULE MCFlowRecovery ---------------------------
(***************************************************************************)
(* FlowRecovery on small instances.                                        *)
(***************************************************************************)
EXTENDS FlowRecovery, TLC

Symmetry == Permutations(Workers) \cup Permutations(Reconcilers)

\* Bounds on the state space. The agent never marks the ticket done, in the runs
\* that ask nothing about tickets.
TicketOpen == tree = "open"

\* The agent leaves no changes behind, in the run that nobody reconciles: only a
\* reconciler looks at the worktree.
WorktreeClean == tree # "doneDirty"

\* One thing goes wrong, a reap or a fault, in the run with two reconcilers.
OneMishap == faults + reaps <= 1

\* A step stores of the commit what belongs to the tree that it leaves, and an
\* agent does not open a ticket again or dirty a clean worktree.
Usual == {<<"continue", "none", "open">>, <<"pause", "none", "open">>,
          <<"fail", "none", "open">>, <<"continue", "pending", "doneDirty">>,
          <<"pause", "exhausted", "doneDirty">>, <<"continue", "unnamed", "open">>}
UsualSteps ==
  \A w \in Workers :
    pc[w] = "turn" =>
      /\ pc'[w] = "write" =>
           \/ out'[w].kind \in {"exception", "complete"}
           \/ /\ <<out'[w].kind, out'[w].state.commit, tree'>> \in Usual
              /\ out'[w].kind = "fail" => out'[w].state.engine = "failed"
      /\ AgentActs(w) => tree = "open" \/ tree' = "doneClean"

\* The run has one ticket, in the run that checks liveness.
OneTicket == tree = "doneClean" => tree' = tree

\* No step fails, in the runs that ask about replacements and stops: a failed run
\* needs neither.
NoStepFails == \A w \in Workers : pc[w] = "turn" => out'[w].kind # "fail"
=============================================================================
