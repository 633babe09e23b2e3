----------------------------- MODULE ScmFeedback -----------------------------
(***************************************************************************)
(* Review comments on one pull request within one batch window, from their *)
(* events to the managed turn that answers them, over the publish journal. *)
(* The events of the window share the key of one enqueue_managed_turn      *)
(* operation, whose payload gathers the comments; a notify_chat operation  *)
(* waits for the turn to start and then tells the chat.  Between the two   *)
(* the thread that runs the turns goes on.                                 *)
(*                                                                         *)
(* Webhook requests and the poller ingest events side by side, and every   *)
(* call of the journal is a transaction of its own: an ingestion reads the *)
(* pending operation in one and writes the merged payload in another.      *)
(***************************************************************************)
EXTENDS PublishJournal

CONSTANTS
  Items,        \* the review comments, one event each
  Turns         \* the slots for enqueue_managed_turn; the others are notices

Notices == Ops \ Turns

ASSUME FeedbackAssumption ==
  /\ Turns \subseteq Ops /\ Turns # {}
  /\ \A t, u \in Turns : KeyOf[t] = KeyOf[u]
  /\ \A m, n \in Notices : KeyOf[m] = KeyOf[n]
  /\ \A t \in Turns, n \in Notices : KeyOf[t] # KeyOf[n]

VARIABLES
  bundle,     \* the comments in the payload of each turn operation
  depends,    \* managed_turn_dependency of each notice
  step,       \* where the ingestion of each comment is
  target,     \* the operation it was given
  copy,       \* the bundle it read there
  emitted,    \* comments marked as emitted
  turn,       \* the managed turn each operation has created
  given,      \* the comments that turn was created with
  told,       \* what each notice has told the chat
  answer,     \* what a drain is about to tell, and what it had read (history)
  raced       \* comments another actor came in the way of (history)

feedbackVars ==
  <<bundle, depends, step, target, copy, emitted, turn, given, told, raced>>
allVars == <<vars, feedbackVars, answer>>

BatchKey == CHOOSE k \in Keys : \A t \in Turns : KeyOf[t] = k

-----------------------------------------------------------------------------
(* publish_for_event *)

Goto(i, s) == step' = [step EXCEPT ![i] = s]

\* create_operation for the batch key with the comments S: a new operation,
\* or the active one.
CreateTurn(i, S) ==
  \/ \E t \in Turns :
       /\ CreateOperation(t)
       /\ bundle' = [bundle EXCEPT ![t] = S]
       /\ target' = [target EXCEPT ![i] = t]
       /\ Goto(i, "emit")
       /\ UNCHANGED <<copy, raced>>
  \/ \E t \in Dedupable(BatchKey) :
       /\ target' = [target EXCEPT ![i] = t]
       /\ IF state[t] = "pending" /\ step[i] = "create"
          THEN /\ copy' = [copy EXCEPT ![i] = bundle[t]]
               /\ Goto(i, "merge")
               /\ UNCHANGED raced
          ELSE /\ Goto(i, "emit")
               /\ raced' = raced \cup {i}
               /\ UNCHANGED copy
       /\ UNCHANGED <<vars, bundle>>

Ingest(i) ==
  /\ step[i] = "create"
  /\ CreateTurn(i, {i})
  /\ UNCHANGED <<depends, emitted, turn, given, told>>

\* A wrong variant: the comment takes the place of the bundle.
MergeReplaces(i) ==
  /\ step[i] = "merge"
  /\ LET t == target[i] IN
     IF state[t] = "pending"
     THEN /\ bundle' = [bundle EXCEPT ![t] = {i}]
          /\ raced' = raced \cup (bundle[t] \ copy[i])
          /\ UNCHANGED due
          /\ Goto(i, "emit")
     ELSE /\ Goto(i, "again")
          /\ UNCHANGED <<bundle, raced, due>>
  /\ UNCHANGED <<state, last, tries, drainVars, returned, waits, faults, depends,
                 target, copy, emitted, turn, given, told>>

\* _merge_pending_feedback_operation, update_pending_operation: writes the
\* bundle it read before with the comment added.
Merge(i) ==
  /\ step[i] = "merge"
  /\ LET t == target[i] IN
     IF state[t] = "pending"
     THEN /\ bundle' = [bundle EXCEPT ![t] = copy[i] \cup {i}]
          /\ raced' = raced \cup (bundle[t] \ copy[i])
          /\ \E b \in BOOLEAN : due' = [due EXCEPT ![t] = b]
          /\ Goto(i, "emit")
     ELSE /\ Goto(i, "again")
          /\ UNCHANGED <<bundle, raced, due>>
  /\ UNCHANGED <<state, last, tries, drainVars, returned, waits, faults, depends,
                 target, copy, emitted, turn, given, told>>

\* Its fallback: create_operation with the merged payload.
CreateAgain(i) ==
  /\ step[i] = "again"
  /\ CreateTurn(i, copy[i] \cup {i})
  /\ UNCHANGED <<depends, emitted, turn, given, told>>

\* mark_reaction_emitted.
Emit(i) ==
  /\ step[i] = "emit"
  /\ emitted' = emitted \cup {i}
  /\ Goto(i, "notice")
  /\ UNCHANGED <<vars, bundle, depends, target, copy, turn, given, told, raced>>

\* _create_review_comment_notice_operation.
CreateNotice(i) ==
  /\ step[i] = "notice"
  /\ \/ \E n \in Notices :
          /\ CreateOperation(n)
          /\ depends' = [depends EXCEPT ![n] = target[i]]
          /\ Goto(i, "done")
     \/ \E n \in Notices :
          /\ state[n] \in ActiveDedupe
          /\ Goto(i, IF state[n] = "pending" THEN "renotice" ELSE "done")
          /\ UNCHANGED <<vars, depends>>
  /\ UNCHANGED <<bundle, target, copy, emitted, turn, given, told, raced>>

\* A pending notice is made to wait for this comment's operation.
UpdateNotice(i) ==
  /\ step[i] = "renotice"
  /\ Goto(i, "done")
  /\ \/ \E n \in Notices :
          /\ state[n] = "pending"
          /\ depends' = [depends EXCEPT ![n] = target[i]]
          /\ \E b \in BOOLEAN : due' = [due EXCEPT ![n] = b]
     \/ /\ \A n \in Notices : state[n] # "pending"
        /\ UNCHANGED <<depends, due>>
  /\ UNCHANGED <<state, last, tries, drainVars, returned, waits, faults, bundle,
                 target, copy, emitted, turn, given, told, raced>>

-----------------------------------------------------------------------------
(* The executors *)

\* build_enqueue_managed_turn_executor: the turn carries an id made from the
\* operation, and one that is there already is returned as it is.
EnqueueTurn(t) ==
  IF turn[t] = "none"
  THEN /\ turn' = [turn EXCEPT ![t] = "queued"]
       /\ given' = [given EXCEPT ![t] = bundle[t]]
       /\ UNCHANGED raced
  ELSE /\ raced' = raced \cup (bundle[t] \ given[t])
       /\ UNCHANGED <<turn, given>>

\* It may raise before it has created the turn, or after, when the store of
\* the threads cannot be read or the queue worker not be started.
DispatchTurn(d) ==
  /\ hand[d] \in Turns
  /\ \/ DispatchReturns(d) /\ EnqueueTurn(hand[d])
     \/ /\ \E error \in {"plain", "terminal"} : DispatchRaises(d, error)
        /\ UNCHANGED <<turn, given, raced>>
     \/ /\ faults < MaxFaults /\ faults' = faults + 1
        /\ Raise(d, "plain")
        /\ EnqueueTurn(hand[d])
  /\ UNCHANGED <<bundle, depends, step, target, copy, emitted, told, answer>>

\* A wrong variant: a turn that was enqueued is reported as started.
AnswersEnqueued(t) ==
  IF state[t] \in {"pending", "running"} THEN {"wait"}
  ELSE IF state[t] # "succeeded" THEN {"failed"}
  ELSE {"started"}

\* What _resolve_notify_message may answer about the operation t.
Answers(t) ==
  IF state[t] \in {"pending", "running"} THEN {"wait"}
  ELSE IF state[t] # "succeeded" THEN {"failed"}
  ELSE CASE turn[t] = "started" -> {"started"}
         [] turn[t] = "ended" -> {"failed"}
         [] OTHER -> {"wait", "failed"}

NoAnswer == [says |-> "none", state |-> "none", turn |-> "none"]

\* build_notify_chat_executor reads the operation and the turn.
ResolveNotice(d) ==
  /\ pc[d] = "dispatch" /\ hand[d] \in Notices
  /\ answer[d] = NoAnswer
  /\ LET t == depends[hand[d]] IN
     \E says \in Answers(t) :
       IF says = "wait"
       THEN DispatchRaises(d, "wait") /\ UNCHANGED answer
       ELSE /\ answer' = [answer EXCEPT ![d] =
                            [says |-> says, state |-> state[t], turn |-> turn[t]]]
            /\ UNCHANGED vars
  /\ UNCHANGED feedbackVars

\* It awaits the send, which may raise before the chat has the notice or after.
SendNotice(d) ==
  /\ answer[d] # NoAnswer
  /\ LET sent == [told EXCEPT ![hand[d]] = answer[d].says] IN
     \/ DispatchReturns(d) /\ told' = sent
     \/ /\ \E error \in {"plain", "terminal"} : DispatchRaises(d, error)
        /\ told' \in {told, sent}
  /\ answer' = [answer EXCEPT ![d] = NoAnswer]
  /\ UNCHANGED <<bundle, depends, step, target, copy, emitted, turn, given, raced>>

\* The managed thread starts the turn, or ends it before it ran.
RunTurn(t) ==
  /\ turn[t] = "queued"
  /\ \E s \in {"started", "ended"} : turn' = [turn EXCEPT ![t] = s]
  /\ UNCHANGED <<vars, bundle, depends, step, target, copy, emitted, given, told,
                 answer, raced>>

-----------------------------------------------------------------------------
FeedbackInit ==
  /\ Init
  /\ bundle = [t \in Turns |-> {}]
  /\ depends = [n \in Notices |-> None]
  /\ step = [i \in Items |-> "create"]
  /\ target = [i \in Items |-> None]
  /\ copy = [i \in Items |-> {}]
  /\ emitted = {}
  /\ turn = [t \in Turns |-> "none"]
  /\ given = [t \in Turns |-> {}]
  /\ told = [n \in Notices |-> "none"]
  /\ answer = [d \in Drains |-> NoAnswer]
  /\ raced = {}

Ingestion(i) ==
  /\ \/ Ingest(i) \/ Merge(i) \/ CreateAgain(i) \/ Emit(i)
     \/ CreateNotice(i) \/ UpdateNotice(i)
  /\ UNCHANGED answer

\* The steps of the journal and the drains that touch nothing else.  A drain
\* that dies takes its answer with it.
JournalStep ==
  /\ \/ \E o \in Ops : BecomesDue(o)
     \/ \E d \in Drains :
          \/ StartDrain(d) \/ Claim(d) \/ Faults(d)
          \/ \E o \in Ops : Reconcile(d, o) \/ MarkRunning(d, o)
          \/ RecordFailure(d) \/ RecordSuccess(d) \/ RecordEffect(d)
  /\ answer' = [d \in Drains |-> IF pc'[d] = "dispatch" THEN answer[d] ELSE NoAnswer]
  /\ UNCHANGED feedbackVars

FeedbackNext ==
  \/ \E i \in Items : Ingestion(i)
  \/ \E d \in Drains : DispatchTurn(d) \/ ResolveNotice(d) \/ SendNotice(d)
  \/ \E t \in Turns : RunTurn(t)
  \/ JournalStep

FeedbackSpec == FeedbackInit /\ [][FeedbackNext]_allVars

-----------------------------------------------------------------------------
(* Properties *)

FeedbackTypeOK ==
  /\ TypeOK
  /\ bundle \in [Turns -> SUBSET Items]
  /\ depends \in [Notices -> Turns \cup {None}]
  /\ step \in [Items -> {"create", "merge", "again", "emit", "notice",
                         "renotice", "done"}]
  /\ target \in [Items -> Turns \cup {None}]
  /\ copy \in [Items -> SUBSET Items]
  /\ emitted \subseteq Items /\ raced \subseteq Items
  /\ turn \in [Turns -> {"none", "queued", "started", "ended"}]
  /\ given \in [Turns -> SUBSET Items]
  /\ told \in [Notices -> {"none", "started", "failed"}]
  /\ answer \in [Drains -> [says : {"none", "started", "failed"},
                            state : {"none", "absent"} \cup States,
                            turn : {"none", "queued", "started", "ended"}]]

\* The comment is in a turn, or on its way to one, or in an operation that
\* was recorded as failed.
Carried(i) ==
  \E t \in Turns :
    \/ i \in given[t]
    \/ i \in bundle[t] /\ state[t] \in {"pending", "running", "failed"}

\* A comment is lost only where another actor came in its way: it was given
\* an operation that had been claimed, another ingestion wrote over the
\* bundle, or the turn was there already from an attempt that raised after
\* creating it.  Retries, crashes and failed writes alone lose none.
KeptUnlessRaced == \A i \in emitted \ raced : Carried(i)

\* The chat is told that the turn has started only of a turn that did.  It is
\* told that it has not of a turn that had by then only where the turn was
\* queued when it was looked at, and started while the notice was on its way,
\* or where the journal could not be written and its record of the operation
\* says failed or effect_applied of a turn that was created.
NoticesTrue ==
  [][\A n \in Notices :
       told'[n] # told[n] =>
         IF told'[n] = "started"
         THEN turn[depends[n]] = "started"
         ELSE turn[depends[n]] = "started" =>
                \E d \in Drains :
                  /\ hand[d] = n
                  /\ \/ answer[d].turn = "queued"
                     \/ /\ answer[d].state \in {"failed", "effect_applied"}
                        /\ faults > 0]_allVars
=============================================================================
