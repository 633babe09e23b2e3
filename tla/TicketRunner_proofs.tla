------------------------ MODULE TicketRunner_proofs ------------------------
(***************************************************************************)
(* Proofs about the ticket runner, for any number of tickets and any       *)
(* limits.  Each step is first described by what it does to the engine     *)
(* state of the step; the invariant is proved from these descriptions.     *)
(***************************************************************************)
EXTENDS TicketRunner, FiniteSetTheorems, TLAPS

(* Types *)

Turnings ==
  [upto : Nat, changed : BOOLEAN, mode : {"none", "pause"} \cup Modes,
   verdict : {"continue", "paused", "completed"}]

Sights ==
  [heard : SUBSET Nat, torn : SUBSET Nat, unsettled : 0 .. Tickets,
   unpinned : BOOLEAN, owed : {"none", "due", "waived"}, ran : Nat]

Typed ==
  /\ RunnerTypeOK
  /\ outbox \in [letter : {"none", "pause"} \cup Modes, dirs : SUBSET Nat]
  /\ inbox \in [letter : BOOLEAN, dirs : Seq({"empty", "full", "failed"})]
  /\ turn \in Turnings
  /\ seen \in Sights
  /\ past \in [acts : Nat, resumes : Nat, faults : Nat]

\* A step is under way only while the run is running.
Underway == pc # "idle" => status = "running"

\* The turns since the last resume from their limit are the counted ones and
\* those of steps that were lost.
Counted ==
  /\ pc = "idle" => seen.ran <= saved.turns + past.faults
  /\ pc = "select" => /\ seen.ran <= work.turns + past.faults
                      /\ work.turns = saved.turns
                      /\ work.turns < MaxTurns
  /\ pc \notin {"idle", "select"} => /\ seen.ran <= work.turns + past.faults
                                     /\ work.turns <= saved.turns + 1

\* What is counted as read was heard, or rendered while it was torn.
Heard ==
  /\ 1 .. saved.reply_seq \subseteq seen.heard \cup seen.torn
  /\ pc # "idle" => 1 .. work.reply_seq \subseteq seen.heard \cup seen.torn

\* A hand-off that is due is on its way to pausing the run, or has done so.
Yields ==
  seen.owed = "due" =>
    CASE pc = "idle" -> status # "running"
      [] pc = "finish" -> turn.mode = "pause"
      [] pc = "save" -> turn.verdict = "paused"
      [] OTHER -> FALSE

\* A ticket finished over a dirty worktree is the current one, unless a crash
\* has lost it.
Current == IF pc = "idle" THEN saved.current ELSE work.current

Pinned ==
  seen.unsettled # 0 =>
    /\ dirty /\ ticket[seen.unsettled] = "done"
    /\ ~seen.unpinned =>
         /\ Current = seen.unsettled
         /\ status # "completed"
         /\ pc = "save" => turn.verdict # "completed"

IInv == Typed /\ Underway /\ Counted /\ Heard /\ Yields /\ Pinned

-----------------------------------------------------------------------------
(* The engine state *)

\* A non-empty set of tickets has a first one.
LEMMA LeastTicket ==
  ASSUME NEW S \in SUBSET (1 .. Tickets), S # {}, TicketsAssumption
  PROVE  Min(S) \in S
<1> DEFINE R == StrictSubsetOrdering(1 .. Tickets)
           T == {1 .. t : t \in S}
<1>1. IsWellFoundedOn(R, FiniteSubsetsOf(1 .. Tickets))
  BY FS_StrictSubsetOrderingWellFounded
<1>2. T \subseteq FiniteSubsetsOf(1 .. Tickets)
  <2>1. \A t \in S : IsFiniteSet(1 .. t)
    BY FS_Interval
  <2>2. \A t \in S : 1 .. t \subseteq 1 .. Tickets
    BY DEF TicketsAssumption
  <2> QED BY <2>1, <2>2 DEF FiniteSubsetsOf
<1>3. T # {}
  OBVIOUS
<1>4. \E x \in T : \A y \in T : ~ (<<y, x>> \in R)
  <2> HIDE DEF R, T
  <2> QED BY <1>1, <1>2, <1>3, WFMin
<1>5. PICK m \in S : \A y \in T : <<y, 1 .. m>> \notin R
  BY <1>4
<1>6. \A t \in S : m <= t
  <2> SUFFICES ASSUME NEW t \in S, t < m PROVE FALSE
    BY DEF TicketsAssumption
  <2>1. 1 .. t \subseteq 1 .. Tickets /\ 1 .. m \subseteq 1 .. Tickets
    BY DEF TicketsAssumption
  <2>2. 1 .. t \subseteq 1 .. m
    OBVIOUS
  <2>3. m \in 1 .. m /\ m \notin 1 .. t
    OBVIOUS
  <2>4. <<1 .. t, 1 .. m>> \in R
    BY <2>1, <2>2, <2>3 DEF StrictSubsetOrdering
  <2> QED BY <1>5, <2>4
<1> QED BY <1>6 DEF Min

LEMMA AssumedConstants ==
  /\ Tickets \in Nat \ {0} /\ UserTickets \subseteq 1 .. Tickets
  /\ Modes \subseteq {"notify", "pause"}
  /\ MaxTurns \in Nat \ {0} /\ MaxLint \in Nat /\ MaxCommit \in Nat
  /\ MaxNetwork \in Nat
BY TicketsAssumption, ModesAssumption, LimitsAssumption

\* What every way of ending a step leaves of the engine state: the ticket is
\* kept at least when it was finished over a dirty worktree.
Carries(s) ==
  /\ s \in Engines
  /\ s.turns = work.turns
  /\ s.reply_seq = work.reply_seq
  /\ Done(work.current) /\ dirty => s.current = work.current

LEMMA BarrierTyped ==
  ASSUME NEW n \in Nat
  PROVE  Barrier(n) \in [pending : BOOLEAN, retries : Nat, exhausted : BOOLEAN]
BY DEF Barrier

LEMMA FreshTyped ==
  ASSUME NEW s \in Engines
  PROVE  /\ Fresh(s) \in Engines
         /\ Fresh(s).turns = s.turns /\ Fresh(s).reply_seq = s.reply_seq
<1> DEFINE a == [s EXCEPT !.current = 0]
           b == [a EXCEPT !.lint = 0]
           c == [b EXCEPT !.commit = NoBarrier]
<1>1. a \in Engines /\ a.turns = s.turns /\ a.reply_seq = s.reply_seq
  BY AssumedConstants DEF Engines
<1>2. b \in Engines /\ b.turns = s.turns /\ b.reply_seq = s.reply_seq
  <2> HIDE DEF a
  <2> QED BY <1>1, AssumedConstants DEF Engines
<1>3. c \in Engines /\ c.turns = s.turns /\ c.reply_seq = s.reply_seq
  <2> HIDE DEF b
  <2> QED BY <1>2 DEF Engines, NoBarrier
<1>4. Fresh(s) = c
  BY DEF Fresh
<1> QED BY <1>3, <1>4

LEMMA ReviewedCarries ==
  ASSUME Typed
  PROVE  Carries(Reviewed(work))
<1>1. work \in Engines
  BY DEF Typed, RunnerTypeOK
<1>2. [work EXCEPT !.commit = NoBarrier] \in Engines
  BY <1>1 DEF Engines, NoBarrier
<1>3. [work EXCEPT !.commit = Barrier(0)] \in Engines
  BY <1>1, BarrierTyped DEF Engines
<1>4. Fresh(work) \in Engines
  BY <1>1, FreshTyped
<1> QED
  BY <1>1, <1>2, <1>3, <1>4, FreshTyped DEF Reviewed, Carries, Engines

LEMMA ChosenCarries ==
  ASSUME Typed
  PROVE  /\ Carries(Chosen(Reviewed(work)))
         /\ Done(work.current) /\ dirty => Chosen(Reviewed(work)).current # 0
<1> DEFINE s == Reviewed(work)
<1>1. Carries(s)
  BY ReviewedCarries
<1>2. Done(work.current) /\ dirty => s.current # 0 /\ Chosen(s) = s
  BY <1>1 DEF Carries, Done, Chosen
<1>3. CASE s.current # 0 \/ NextTicket = {}
  BY <1>1, <1>2, <1>3 DEF Chosen, Carries
<1>4. CASE ~(s.current # 0 \/ NextTicket = {})
  <2>1. Min(NextTicket) \in 1 .. Tickets
    BY <1>4, LeastTicket, AssumedConstants DEF NextTicket, TicketsAssumption
  <2>2. Fresh(s) \in Engines /\ Fresh(s).turns = s.turns
        /\ Fresh(s).reply_seq = s.reply_seq
    BY <1>1, FreshTyped DEF Carries
  <2>3. Chosen(s) = [Fresh(s) EXCEPT !.current = Min(NextTicket), !.guard = NoGuard]
    BY <1>4 DEF Chosen
  <2> HIDE DEF s
  <2> DEFINE f == Fresh(s)
             a == [f EXCEPT !.current = Min(NextTicket)]
             b == [a EXCEPT !.guard = NoGuard]
  <2> HIDE DEF f
  <2>4. a \in Engines /\ a.turns = f.turns /\ a.reply_seq = f.reply_seq
    BY <2>1, <2>2 DEF f, Engines
  <2>5. b \in Engines /\ b.turns = f.turns /\ b.reply_seq = f.reply_seq
    <3> HIDE DEF a
    <3> QED BY <2>4, AssumedConstants DEF Engines, NoGuard
  <2>6. Chosen(s) = b
    BY <2>3 DEF f
  <2> HIDE DEF b
  <2> QED
    BY <1>1, <1>2, <1>4, <2>2, <2>5, <2>6 DEF s, f, Carries
<1> QED BY <1>3, <1>4

LEMMA EndsTyped ==
  ASSUME NEW v \in {"continue", "paused", "completed"}, NEW s, Ends(v, s)
  PROVE  pc' = "save" /\ work' = s /\ turn' \in Turnings /\ turn'.verdict = v
BY DEF Ends, NoTurn, Turnings

LEMMA PauseTyped ==
  ASSUME NEW r \in {"none", "max_turns", "user_pause"} \cup Blocking,
         NEW s \in Engines, Pause(r, s)
  PROVE  /\ pc' = "save" /\ turn' \in Turnings /\ turn'.verdict = "paused"
         /\ work' \in Engines
         /\ work'.turns = s.turns /\ work'.reply_seq = s.reply_seq
         /\ work'.current = s.current
<1>1. Ends("paused", [s EXCEPT !.reason = r])
  BY DEF Pause
<1>2. pc' = "save" /\ work' = [s EXCEPT !.reason = r] /\ turn' \in Turnings
      /\ turn'.verdict = "paused"
  BY <1>1, EndsTyped
<1> QED BY <1>2 DEF Engines
-----------------------------------------------------------------------------
(* What each step of the runner does *)

\* The step ends as verdict v, and the engine state is carried over.
Closes ==
  /\ pc' = "save" /\ Carries(work') /\ turn' \in Turnings

LEMMA PauseCloses ==
  ASSUME NEW r \in {"none", "max_turns", "user_pause"} \cup Blocking,
         NEW s, Carries(s), Pause(r, s)
  PROVE  Closes /\ turn'.verdict = "paused"
<1>1. s \in Engines
  BY DEF Carries
<1> QED BY <1>1, PauseTyped DEF Closes, Carries

LEMMA EndCloses ==
  ASSUME NEW v \in {"continue", "paused", "completed"},
         NEW s, Carries(s), Ends(v, s)
  PROVE  Closes /\ turn'.verdict = v
BY EndsTyped DEF Closes

Starts ==
  /\ pc' = "turn"
  /\ work' \in Engines /\ work'.turns = work.turns + 1
  /\ work'.reply_seq = work.reply_seq
  /\ Done(work.current) /\ dirty => work'.current = work.current
  /\ work'.current \in (1 .. Tickets) \ UserTickets
  /\ turn' = [NoTurn EXCEPT !.upto = Len(inbox.dirs)]
  /\ seen' = [seen EXCEPT
                !.torn = @ \cup {i \in Rendered : inbox.dirs[i] = "empty"},
                !.ran = @ + 1]

LEMMA StartStarts ==
  ASSUME NEW s, Carries(s), s.current \in (1 .. Tickets) \ UserTickets,
         work.turns < MaxTurns, Start(s)
  PROVE  Starts
<1>1. s \in Engines /\ s.turns = work.turns /\ s.turns < MaxTurns
  BY DEF Carries
<1>2. work' = [s EXCEPT !.turns = @ + 1]
  BY DEF Start
<1>3. /\ work' \in Engines /\ work'.turns = s.turns + 1
      /\ work'.reply_seq = s.reply_seq /\ work'.current = s.current
  BY <1>1, <1>2, AssumedConstants DEF Engines
<1> QED BY <1>1, <1>3 DEF Starts, Start, Carries

LEMMA SelectMoves ==
  ASSUME Typed, work.turns < MaxTurns, Select
  PROVE  \/ /\ Closes /\ seen' = seen
            /\ turn'.verdict = "completed" => ~(Done(work.current) /\ dirty)
         \/ Starts
<1> DEFINE s == Chosen(Reviewed(work))
<1>1. Carries(work)
  BY DEF Typed, RunnerTypeOK, Carries
<1>2. Carries(s) /\ (Done(work.current) /\ dirty => s.current # 0)
  BY ChosenCarries
<1>3. "needs_user_fix" \in Blocking
  BY DEF Blocking
<1>4. CASE Exhausted(work)
  <2>1. Pause("needs_user_fix", work) /\ seen' = seen
    BY <1>4 DEF Select
  <2> QED BY <2>1, <1>1, <1>3, PauseCloses
<1>5. CASE ~Exhausted(work) /\ s.current = 0
  <2>1. Ends("completed", work) /\ seen' = seen
    BY <1>5 DEF Select
  <2> QED BY <2>1, <1>1, <1>2, <1>5, EndCloses
<1>6. CASE ~Exhausted(work) /\ s.current # 0
  <2>1. Plan(s)
    BY <1>6 DEF Select
  <2> HIDE DEF s
  <2>2. CASE /\ \E r \in {"needs_user_fix", "infra_error"} : Pause(r, s)
             /\ seen' = seen
    BY <2>2, <1>2, <1>3, PauseCloses DEF Blocking
  <2>3. CASE UserTicket(s) /\ seen' = seen
    <3>1. CASE Done(s.current)
      BY <2>3, <3>1, <1>2, EndCloses DEF UserTicket
    <3>2. CASE ~Done(s.current)
      BY <2>3, <3>2, <1>2, PauseCloses DEF UserTicket
    <3> QED BY <3>1, <3>2
  <2>4. CASE s.current \notin UserTickets /\ Start(s)
    <3>1. s.current \in (1 .. Tickets) \ UserTickets
      BY <2>4, <1>2, <1>6, AssumedConstants DEF s, Carries, Engines
    <3> QED BY <3>1, <2>4, <1>2, StartStarts
  <2> QED BY <2>1, <2>2, <2>3, <2>4 DEF Plan
<1> QED BY <1>4, <1>5, <1>6

LEMMA BeginMoves ==
  ASSUME Typed, Begin
  PROVE  \/ /\ pc' = "save" /\ turn' \in Turnings /\ turn'.verdict = "paused"
            /\ work' \in Engines /\ work'.turns = saved.turns
            /\ work'.reply_seq = saved.reply_seq /\ work'.current = saved.current
            /\ UNCHANGED inbox
         \/ /\ pc' = "select" /\ work' = saved /\ turn' = turn
            /\ saved.turns < MaxTurns
            /\ inbox' \in [letter : BOOLEAN, dirs : Seq({"empty", "full", "failed"})]
<1>1. saved \in Engines
  BY DEF Typed, RunnerTypeOK
<1>2. CASE saved.turns >= MaxTurns
  <2>1. Pause("max_turns", saved) /\ UNCHANGED inbox
    BY <1>2 DEF Begin
  <2> QED BY <2>1, <1>1, PauseTyped
<1>3. CASE ~(saved.turns >= MaxTurns)
  <2>1. saved.turns < MaxTurns
    BY <1>1, <1>3, AssumedConstants DEF Engines
  <2>2. inbox.dirs \in Seq({"empty", "full", "failed"})
    BY DEF Typed
  <2> DEFINE q == Append(inbox.dirs, "full")
  <2>3. q \in Seq({"empty", "full", "failed"})
    BY <2>2
  <2>4. inbox' = inbox \/ inbox' = [letter |-> FALSE, dirs |-> q]
    BY <1>3 DEF Begin
  <2>5. inbox' \in [letter : BOOLEAN, dirs : Seq({"empty", "full", "failed"})]
    <3> DEFINE S == Seq({"empty", "full", "failed"})
    <3>1. q \in S /\ inbox \in [letter : BOOLEAN, dirs : S]
      BY <2>3 DEF Typed
    <3> HIDE DEF q, S
    <3>2. inbox' \in [letter : BOOLEAN, dirs : S]
      <4>1. CASE inbox' = inbox
        BY <3>1, <4>1
      <4>2. CASE inbox' = [letter |-> FALSE, dirs |-> q]
        BY <3>1, <4>2
      <4> QED BY <2>4, <4>1, <4>2
    <3> QED BY <3>2 DEF S
  <2> QED BY <1>3, <2>1, <2>5 DEF Begin
<1> QED BY <1>2, <1>3

\* The agent's turn: the ticket it had, the worktree, and what is noted.
LEMMA WorksTyped ==
  ASSUME Typed, pc = "turn", NEW o, NEW c, Works(o, c)
  PROVE  /\ ticket' \in [1 .. Tickets -> {"open", "done", "broken"}]
         /\ dirty' \in BOOLEAN
         /\ outbox' \in [letter : {"none", "pause"} \cup Modes, dirs : SUBSET Nat]
         /\ seen' \in Sights
         /\ seen'.owed = seen.owed /\ seen'.ran = seen.ran
         /\ seen'.torn = seen.torn /\ seen.heard \subseteq seen'.heard
         /\ o = "ok" =>
              \A i \in Nat : work.reply_seq < i /\ i <= turn.upto =>
                i \in seen'.heard \cup seen'.torn
         /\ seen'.unsettled # 0 /\ seen.unsettled # 0 =>
              dirty' /\ (seen.unsettled = work.current => ticket'[work.current] = "done")
         /\ seen'.unsettled # seen.unsettled /\ seen'.unsettled # 0 =>
              /\ dirty' /\ ticket'[work.current] = "done"
              /\ seen'.unsettled = work.current
         /\ \A t \in 1 .. Tickets : t # work.current => ticket'[t] = ticket[t]
         /\ seen'.unpinned => seen.unpinned
         /\ seen.unpinned /\ ~seen'.unpinned /\ seen'.unsettled # 0 =>
              seen'.unsettled = work.current
<1>1. PICK file \in {"open", "done", "broken"}, isDirty \in BOOLEAN,
           letter \in Modes \cup {outbox.letter} :
        /\ isDirty # dirty => c
        /\ ticket' = [ticket EXCEPT ![work.current] = file]
        /\ dirty' = isDirty
        /\ outbox' = [outbox EXCEPT !.letter = letter]
        /\ seen' = [seen EXCEPT
               !.unsettled = CASE ~isDirty -> 0
                               [] isDirty /\ file = "done" -> work.current
                               [] OTHER -> IF @ = work.current THEN 0 ELSE @,
               !.unpinned = @ /\ isDirty /\ file # "done",
               !.heard = @ \cup IF o # "ok" THEN {}
                           ELSE (work.reply_seq + 1 .. turn.upto) \ seen.torn]
  BY DEF Works
<1>2. work.current \in 1 .. Tickets /\ seen \in Sights /\ turn.upto \in Nat
      /\ work.reply_seq \in Nat /\ seen.torn \in SUBSET Nat
      /\ seen.heard \in SUBSET Nat /\ seen.unsettled \in 0 .. Tickets
      /\ seen.unpinned \in BOOLEAN
  BY AssumedConstants DEF Typed, RunnerTypeOK, Engines, Turnings, Sights
<1> DEFINE u == CASE ~isDirty -> 0
                  [] isDirty /\ file = "done" -> work.current
                  [] OTHER -> IF seen.unsettled = work.current THEN 0
                              ELSE seen.unsettled
           p == seen.unpinned /\ isDirty /\ file # "done"
           h == seen.heard \cup IF o # "ok" THEN {}
                  ELSE (work.reply_seq + 1 .. turn.upto) \ seen.torn
           a == [seen EXCEPT !.unsettled = u]
           b == [a EXCEPT !.unpinned = p]
<1>3. seen' = [b EXCEPT !.heard = h]
  BY <1>1
<1>4. u \in 0 .. Tickets /\ p \in BOOLEAN
  BY <1>2, AssumedConstants
<1>5. h \in SUBSET Nat
  BY <1>2
<1>6. /\ seen' \in Sights
      /\ seen'.owed = seen.owed /\ seen'.ran = seen.ran
      /\ seen'.torn = seen.torn /\ seen'.heard = h
      /\ seen'.unsettled = u /\ seen'.unpinned = p
  <2> HIDE DEF u, p, h
  <2>1. a \in Sights /\ a.owed = seen.owed /\ a.ran = seen.ran
        /\ a.torn = seen.torn /\ a.unsettled = u
    BY <1>2, <1>4 DEF Sights
  <2>2. b \in Sights /\ b.owed = seen.owed /\ b.ran = seen.ran
        /\ b.torn = seen.torn /\ b.unsettled = u /\ b.unpinned = p
    <3> HIDE DEF a
    <3> QED BY <2>1, <1>4 DEF Sights
  <2> HIDE DEF b
  <2> QED BY <1>3, <1>5, <2>2 DEF Sights
<1>7. /\ ticket' \in [1 .. Tickets -> {"open", "done", "broken"}]
      /\ ticket'[work.current] = file
      /\ \A t \in 1 .. Tickets : t # work.current => ticket'[t] = ticket[t]
  BY <1>1, <1>2 DEF Typed, RunnerTypeOK
<1>8. outbox' \in [letter : {"none", "pause"} \cup Modes, dirs : SUBSET Nat]
  BY <1>1 DEF Typed
<1>9. \A i \in Nat : work.reply_seq < i /\ i <= turn.upto /\ o = "ok" =>
        i \in h \cup seen.torn
  BY <1>2
<1>10. /\ u # 0 => isDirty
       /\ u # 0 /\ u # seen.unsettled => file = "done" /\ u = work.current
       /\ u # 0 /\ seen.unsettled = work.current => file = "done"
       /\ u # 0 /\ seen.unpinned /\ ~p => u = work.current
  BY <1>2
<1> HIDE DEF u, p, h, a, b
<1> QED BY <1>1, <1>2, <1>6, <1>7, <1>8, <1>9, <1>10 DEF Sights

LEMMA SettersCarry ==
  ASSUME NEW s, Carries(s)
  PROVE  /\ \A n \in 0 .. MaxLint : Carries([s EXCEPT !.lint = n])
         /\ \A n \in 0 .. MaxNetwork : Carries([s EXCEPT !.network = n])
         /\ \A c \in [pending : BOOLEAN, retries : Nat, exhausted : BOOLEAN] :
              Carries([s EXCEPT !.commit = c])
         /\ \A g \in [ticket : 0 .. Tickets, count : Nat] :
              Carries([s EXCEPT !.guard = g])
         /\ \A n \in Nat : Carries([s EXCEPT !.dispatch_seq = n])
BY DEF Carries, Engines

LEMMA WorkCarries ==
  ASSUME Typed
  PROVE  /\ Carries(work)
         /\ work.network \in 0 .. MaxNetwork /\ work.lint \in 0 .. MaxLint
         /\ work.commit.retries \in Nat /\ work.dispatch_seq \in Nat
         /\ work.current \in 0 .. Tickets /\ work.guard.count \in Nat
         /\ 0 \in 0 .. MaxLint /\ 0 \in 0 .. MaxNetwork
<1>1. work \in Engines
  BY DEF Typed, RunnerTypeOK
<1>2. /\ work.network \in 0 .. MaxNetwork /\ work.lint \in 0 .. MaxLint
      /\ work.commit.retries \in Nat /\ work.dispatch_seq \in Nat
      /\ work.current \in 0 .. Tickets /\ work.guard.count \in Nat
  BY <1>1 DEF Engines
<1> QED BY <1>1, <1>2, AssumedConstants DEF Carries

\* A turn that failed never loses its ticket.
LEMMA FailedMoves ==
  ASSUME Typed, NEW o, Failed(o)
  PROVE  /\ pc' = "save" /\ work' \in Engines /\ turn' \in Turnings
         /\ work'.turns = work.turns /\ work'.reply_seq = work.reply_seq
         /\ work'.current = work.current /\ turn'.verdict # "completed"
<1> DEFINE retries == work.commit.retries + 1
           settled == [work EXCEPT !.network = 0]
           counted == [settled EXCEPT !.commit = Barrier(retries)]
<1>1. work \in Engines /\ retries \in Nat
  BY WorkCarries DEF Carries
<1>2. /\ settled \in Engines /\ settled.turns = work.turns
      /\ settled.reply_seq = work.reply_seq /\ settled.current = work.current
  BY <1>1, AssumedConstants DEF Engines
<1>3. /\ counted \in Engines /\ counted.turns = work.turns
      /\ counted.reply_seq = work.reply_seq /\ counted.current = work.current
  <2>1. Barrier(retries) \in [pending : BOOLEAN, retries : Nat, exhausted : BOOLEAN]
    BY <1>1, BarrierTyped
  <2> HIDE DEF settled, retries
  <2> QED BY <1>2, <2>1 DEF Engines
<1>4. \/ Retries(o) /\ Ends("continue", [work EXCEPT !.network = @ + 1])
      \/ Pause("infra_error", settled)
      \/ Pause("needs_user_fix", counted)
      \/ Ends("continue", counted)
  BY DEF Failed
<1> HIDE DEF settled, counted
<1>5. CASE Retries(o) /\ Ends("continue", [work EXCEPT !.network = @ + 1])
  <2> DEFINE s == [work EXCEPT !.network = @ + 1]
  <2>1. work.network + 1 \in 0 .. MaxNetwork
    BY <1>5, WorkCarries, AssumedConstants DEF Retries
  <2>2. s = [work EXCEPT !.network = work.network + 1]
    OBVIOUS
  <2>3. /\ s \in Engines /\ s.turns = work.turns
        /\ s.reply_seq = work.reply_seq /\ s.current = work.current
    BY <1>1, <2>1, <2>2 DEF Engines
  <2> HIDE DEF s
  <2>4. Ends("continue", s)
    BY <1>5 DEF s
  <2> QED BY <2>3, <2>4, EndsTyped
<1>6. CASE Pause("infra_error", settled)
  BY <1>2, <1>6, PauseTyped DEF Blocking
<1>7. CASE Pause("needs_user_fix", counted)
  BY <1>3, <1>7, PauseTyped DEF Blocking
<1>8. CASE Ends("continue", counted)
  BY <1>3, <1>8, EndsTyped
<1> QED BY <1>4, <1>5, <1>6, <1>7, <1>8

LEMMA CompletedMoves ==
  ASSUME Typed, NEW s, Carries(s), s.commit.retries \in Nat, Completed(s)
  PROVE  Closes /\ turn'.verdict # "completed"
<1> DEFINE retries == IF s.commit.pending THEN s.commit.retries + 1 ELSE 0
           barred == [s EXCEPT !.commit = Barrier(retries)]
<1>1. Carries(barred)
  BY BarrierTyped, SettersCarry
<1>2. ~dirty => Carries(Fresh(s))
  BY FreshTyped DEF Carries
<1>3. \/ ~dirty /\ Ends("continue", Fresh(s))
      \/ Pause("needs_user_fix", barred)
      \/ Ends("continue", barred)
  BY DEF Completed
<1> HIDE DEF barred
<1> QED BY <1>1, <1>2, <1>3, EndCloses, PauseCloses DEF Blocking

LEMMA SettleMoves ==
  ASSUME Typed, NEW s, Carries(s), s.commit.retries \in Nat, Settle(s)
  PROVE  /\ Closes /\ turn'.verdict # "completed"
         /\ turn.mode = "pause" => turn'.verdict = "paused"
<1>1. CASE turn.mode = "pause" /\ Pause("user_pause", s)
  BY <1>1, PauseCloses
<1>2. CASE turn.mode # "pause" /\ Completed(s)
  BY <1>2, CompletedMoves
<1>3. CASE turn.mode # "pause" /\ Ends("continue", [s EXCEPT !.commit = NoBarrier])
  <2>1. Carries([s EXCEPT !.commit = NoBarrier])
    BY SettersCarry DEF NoBarrier
  <2> QED BY <1>3, <2>1, EndCloses
<1> QED BY <1>1, <1>2, <1>3 DEF Settle

LEMMA GuardCarries ==
  ASSUME Typed
  PROVE  Carries([work EXCEPT !.guard = Guard(work)])
<1>1. Guard(work) \in [ticket : 0 .. Tickets, count : Nat]
  BY WorkCarries, AssumedConstants DEF Guard, NoGuard
<1> QED BY <1>1, WorkCarries, SettersCarry

LEMMA LoopMoves ==
  ASSUME Typed, NEW s, Carries(s), s.dispatch_seq \in Nat, PauseForLoop(s)
  PROVE  /\ Closes /\ turn'.verdict = "paused"
         /\ outbox' \in [letter : {"none", "pause"} \cup Modes, dirs : SUBSET Nat]
<1> DEFINE n == s.dispatch_seq + 1
<1>1. "loop_no_diff" \in Blocking /\ n \in Nat
  BY DEF Blocking
<1>2. CASE n \in outbox.dirs
  <2>1. outbox' = [outbox EXCEPT !.letter = "pause"] /\ Pause("loop_no_diff", s)
    BY <1>2 DEF PauseForLoop
  <2> QED BY <2>1, <1>1, PauseCloses DEF Typed
<1>3. CASE n \notin outbox.dirs
  <2>1. /\ outbox' = [letter |-> "none", dirs |-> outbox.dirs \cup {n}]
        /\ Pause("loop_no_diff", [s EXCEPT !.dispatch_seq = n])
    BY <1>3 DEF PauseForLoop
  <2>2. Carries([s EXCEPT !.dispatch_seq = n])
    BY <1>1, SettersCarry
  <2>3. Closes /\ turn'.verdict = "paused"
    BY <2>1, <2>2, <1>1, PauseCloses
  <2>4. outbox.dirs \cup {n} \in SUBSET Nat
    BY <1>1 DEF Typed
  <2> HIDE DEF n
  <2> QED BY <2>1, <2>3, <2>4
<1> QED BY <1>2, <1>3

LEMMA FinishMoves ==
  ASSUME Typed, Finish
  PROVE  /\ Closes /\ turn'.verdict # "completed"
         /\ outbox' \in [letter : {"none", "pause"} \cup Modes, dirs : SUBSET Nat]
         /\ \/ /\ seen' = seen
               /\ turn.mode = "pause" => turn'.verdict = "paused"
            \/ seen' = [seen EXCEPT !.owed = IF @ = "due" THEN "waived" ELSE @]
<1> DEFINE s == [work EXCEPT !.guard = Guard(work)]
<1>1. Carries(s)
  BY GuardCarries
<1>2. /\ s.dispatch_seq \in Nat /\ s.commit.retries \in Nat
      /\ s.lint = work.lint /\ work.lint \in 0 .. MaxLint /\ 0 \in 0 .. MaxLint
  BY WorkCarries DEF Carries, Engines
<1>3. CASE Stuck(work) /\ PauseForLoop(s) /\ seen' = seen
  <2> HIDE DEF s
  <2> QED BY <1>1, <1>2, <1>3, LoopMoves
<1>4. CASE /\ UNCHANGED outbox
           /\ IF work.lint + 1 > MaxLint
              THEN Pause("needs_user_fix", s) /\ UNCHANGED seen
              ELSE /\ Ends("continue", [s EXCEPT !.lint = @ + 1])
                   /\ seen' = [seen EXCEPT !.owed = IF @ = "due" THEN "waived" ELSE @]
  <2> HIDE DEF s
  <2>1. outbox' \in [letter : {"none", "pause"} \cup Modes, dirs : SUBSET Nat]
    BY <1>4 DEF Typed
  <2>2. CASE work.lint + 1 > MaxLint
    BY <1>1, <1>4, <2>1, <2>2, PauseCloses DEF Blocking
  <2>3. CASE ~(work.lint + 1 > MaxLint)
    <3>1. s.lint + 1 \in 0 .. MaxLint
      BY <1>2, <2>3, AssumedConstants
    <3>2. Carries([s EXCEPT !.lint = s.lint + 1])
      BY <1>1, <3>1, SettersCarry
    <3>3. Ends("continue", [s EXCEPT !.lint = s.lint + 1])
      BY <1>4, <2>3
    <3>4. Closes /\ turn'.verdict = "continue"
      BY <3>2, <3>3, EndCloses
    <3> QED BY <1>4, <2>1, <2>3, <3>4
  <2> QED BY <2>2, <2>3
<1>5. CASE Settle([s EXCEPT !.lint = 0]) /\ UNCHANGED <<outbox, seen>>
  <2> DEFINE r == [s EXCEPT !.lint = 0]
  <2>1. Carries(r)
    BY <1>1, <1>2, SettersCarry
  <2>2. r.commit.retries \in Nat
    BY <2>1 DEF Carries, Engines
  <2> HIDE DEF s, r
  <2>3. Settle(r)
    BY <1>5 DEF r
  <2> QED BY <1>5, <2>1, <2>2, <2>3, SettleMoves DEF Typed
<1> QED BY <1>3, <1>4, <1>5 DEF Finish

LEMMA ArchiveMoves ==
  ASSUME Typed, Archive
  PROVE  \/ /\ Closes /\ turn'.verdict = "paused"
            /\ UNCHANGED <<outbox, seen>>
         \/ /\ pc' = "finish" /\ Carries(work') /\ work'.current = work.current
            /\ outbox' \in [letter : {"none", "pause"} \cup Modes, dirs : SUBSET Nat]
            /\ turn' \in Turnings /\ turn'.mode = outbox.letter
            /\ seen' = [seen EXCEPT !.owed =
                          IF outbox.letter = "pause" THEN "due" ELSE @]
<1> DEFINE n == work.dispatch_seq + 1
           new == outbox.letter # "none"
           filed == IF new THEN Summarised(outbox.dirs \cup {n}, n)
                    ELSE Summarised(outbox.dirs, work.dispatch_seq)
<1>1. work.dispatch_seq \in Nat /\ n \in Nat
  BY WorkCarries
<1>2. CASE Pause("needs_user_fix", work) /\ UNCHANGED <<outbox, seen>>
  BY <1>2, WorkCarries, PauseCloses DEF Blocking
<1>3. CASE ~(Pause("needs_user_fix", work) /\ UNCHANGED <<outbox, seen>>)
  <2>1. filed.dirs \in SUBSET Nat /\ filed.seq \in Nat
    <3>1. outbox.dirs \in SUBSET Nat
      BY DEF Typed
    <3> QED BY <1>1, <3>1 DEF Summarised
  <2>2. /\ outbox' = [letter |-> "none", dirs |-> filed.dirs]
        /\ work' = [work EXCEPT !.dispatch_seq = filed.seq]
        /\ turn' = [turn EXCEPT !.mode = outbox.letter]
        /\ pc' = "finish"
        /\ seen' = [seen EXCEPT !.owed =
                      IF outbox.letter = "pause" THEN "due" ELSE @]
    BY <1>3 DEF Archive
  <2> HIDE DEF filed
  <2>3. Carries(work') /\ work'.current = work.current
    <3>1. Carries([work EXCEPT !.dispatch_seq = filed.seq])
      BY <2>1, WorkCarries, SettersCarry
    <3>2. work'.current = work.current
      BY <2>2, WorkCarries DEF Carries, Engines
    <3> QED BY <2>2, <3>1, <3>2
  <2>4. outbox' \in [letter : {"none", "pause"} \cup Modes, dirs : SUBSET Nat]
    BY <2>1, <2>2
  <2>5. turn' \in Turnings /\ turn'.mode = outbox.letter
    BY <2>2 DEF Typed, Turnings
  <2> QED BY <2>2, <2>3, <2>4, <2>5
<1> QED BY <1>2, <1>3

LEMMA SuccessMoves ==
  ASSUME Typed,
         work' = [work EXCEPT !.reply_seq = IF Read > @ THEN Read ELSE @, !.network = 0]
  PROVE  /\ work' \in Engines /\ work'.turns = work.turns
         /\ work'.current = work.current
         /\ work'.reply_seq =
              IF turn.upto > work.reply_seq THEN turn.upto ELSE work.reply_seq
<1> DEFINE r == IF turn.upto > work.reply_seq THEN turn.upto ELSE work.reply_seq
           a == [work EXCEPT !.reply_seq = r]
<1>1. work' = [a EXCEPT !.network = 0]
  BY DEF Read
<1>2. work \in Engines /\ turn.upto \in Nat
  BY DEF Typed, RunnerTypeOK, Turnings
<1>3. r \in Nat
  BY <1>2 DEF Engines
<1> HIDE DEF r
<1>4. a \in Engines /\ a.turns = work.turns /\ a.current = work.current
      /\ a.reply_seq = r
  BY <1>2, <1>3 DEF Engines
<1> HIDE DEF a
<1> DEFINE b == [a EXCEPT !.network = 0]
<1>5. b \in Engines /\ b.turns = a.turns /\ b.current = a.current
      /\ b.reply_seq = a.reply_seq
  BY <1>4, AssumedConstants DEF Engines
<1> HIDE DEF b
<1>6. work' = b
  BY <1>1 DEF b
<1> QED BY <1>4, <1>5, <1>6 DEF r

LEMMA StartsSeen ==
  ASSUME Typed, Starts
  PROVE  /\ seen' \in Sights /\ turn' \in Turnings
         /\ turn'.upto = Len(inbox.dirs)
         /\ seen'.ran = seen.ran + 1 /\ seen'.owed = seen.owed
         /\ seen'.heard = seen.heard /\ seen.torn \subseteq seen'.torn
         /\ seen'.unsettled = seen.unsettled /\ seen'.unpinned = seen.unpinned
<1> DEFINE new == {i \in Rendered : inbox.dirs[i] = "empty"}
           torn == seen.torn \cup new
           a == [seen EXCEPT !.torn = torn]
           b == [a EXCEPT !.ran = seen.ran + 1]
<1>1. seen' = b
  BY DEF Starts
<1>2. new \subseteq Nat
  BY DEF Rendered
<1>3. seen \in Sights
  BY DEF Typed
<1>4. torn \in SUBSET Nat /\ seen.torn \subseteq torn
  BY <1>2, <1>3 DEF Sights
<1> HIDE DEF torn
<1>5. /\ a \in Sights /\ a.torn = torn /\ a.owed = seen.owed
      /\ a.heard = seen.heard /\ a.unsettled = seen.unsettled
      /\ a.unpinned = seen.unpinned
  BY <1>3, <1>4 DEF Sights
<1> HIDE DEF a
<1>6. /\ b \in Sights /\ b.ran = seen.ran + 1 /\ b.torn = a.torn /\ b.owed = a.owed
      /\ b.heard = a.heard /\ b.unsettled = a.unsettled /\ b.unpinned = a.unpinned
  BY <1>3, <1>5 DEF Sights
<1> HIDE DEF b
<1>7. Len(inbox.dirs) \in Nat
  BY DEF Typed
<1>8. turn' \in Turnings /\ turn'.upto = Len(inbox.dirs)
  BY <1>7 DEF Starts, NoTurn, Turnings
<1> QED BY <1>1, <1>4, <1>5, <1>6, <1>8

LEMMA SpendTyped ==
  ASSUME Typed, NEW what \in {"acts", "resumes", "faults"}, Spend(what)
  PROVE  /\ past' \in [acts : Nat, resumes : Nat, faults : Nat]
         /\ past'.faults = IF what = "faults" THEN past.faults + 1 ELSE past.faults
<1>1. CASE what = "acts"
  BY <1>1 DEF Spend, Typed
<1>2. CASE what = "resumes"
  BY <1>2 DEF Spend, Typed
<1>3. CASE what = "faults"
  BY <1>3 DEF Spend, Typed
<1> QED BY <1>1, <1>2, <1>3

\* Only the note of an owed hand-off changes.
LEMMA OwedTyped ==
  ASSUME Typed, NEW o \in {"none", "due", "waived"},
         seen' = [seen EXCEPT !.owed = o]
  PROVE  /\ seen' \in Sights /\ seen'.owed = o
         /\ seen'.heard = seen.heard /\ seen'.torn = seen.torn
         /\ seen'.ran = seen.ran /\ seen'.unsettled = seen.unsettled
         /\ seen'.unpinned = seen.unpinned
BY DEF Typed, Sights

-----------------------------------------------------------------------------
(* Types are kept *)

LEMMA BeginTyped == ASSUME IInv, Begin PROVE Typed' /\ Underway'
<1>1. Typed /\ UNCHANGED <<ticket, dirty, moved, outbox, writer, status, saved, seen, past>>
  BY DEF IInv, Begin
<1>2. pc' \in {"save", "select"} /\ work' \in Engines /\ turn' \in Turnings
      /\ inbox' \in [letter : BOOLEAN, dirs : Seq({"empty", "full", "failed"})]
  BY <1>1, BeginMoves DEF Typed, RunnerTypeOK
<1>3. status = "running"
  BY DEF Begin
<1> QED BY <1>1, <1>2, <1>3 DEF Typed, RunnerTypeOK, Underway, Turnings

LEMMA BeginFailsTyped == ASSUME IInv, BeginFails PROVE Typed' /\ Underway'
<1>1. Typed /\ saved \in Engines
      /\ UNCHANGED <<ticket, dirty, moved, outbox, writer, status, saved, seen>>
  BY DEF IInv, Typed, RunnerTypeOK, BeginFails
<1>2. pc' = "save" /\ work' \in Engines /\ turn' \in Turnings
  BY <1>1, PauseTyped DEF BeginFails, Blocking
<1>3. inbox' \in [letter : BOOLEAN, dirs : Seq({"empty", "full", "failed"})]
  <2> DEFINE S == Seq({"empty", "full", "failed"})
             q == Append(inbox.dirs, "failed")
  <2>1. inbox \in [letter : BOOLEAN, dirs : S] /\ inbox.dirs \in S
    BY <1>1 DEF Typed
  <2>2. q \in S
    BY <2>1
  <2>3. inbox' = inbox \/ inbox' = [inbox EXCEPT !.dirs = q]
    BY DEF BeginFails
  <2> HIDE DEF q, S
  <2>4. inbox' \in [letter : BOOLEAN, dirs : S]
    BY <2>1, <2>2, <2>3
  <2> QED BY <2>4 DEF S
<1>4. past' \in [acts : Nat, resumes : Nat, faults : Nat]
  BY <1>1, SpendTyped DEF BeginFails
<1>5. status = "running"
  BY DEF BeginFails
<1> QED BY <1>1, <1>2, <1>3, <1>4, <1>5 DEF Typed, RunnerTypeOK, Underway, Turnings

LEMMA SelectTyped == ASSUME IInv, Select PROVE Typed' /\ Underway'
<1>1. Typed /\ pc = "select" /\ work.turns < MaxTurns /\ status = "running"
      /\ UNCHANGED <<files, status, saved, past>>
  BY DEF IInv, Select, Counted, Underway
<1>2. /\ pc' \in {"save", "turn"} /\ work' \in Engines /\ turn' \in Turnings
      /\ seen' \in Sights
      /\ pc' = "turn" => work'.current \in (1 .. Tickets) \ UserTickets
  BY <1>1, SelectMoves, StartsSeen DEF Closes, Starts, Carries, Typed
<1> QED BY <1>1, <1>2 DEF Typed, RunnerTypeOK, Underway, Turnings, files

LEMMA TurnTyped == ASSUME IInv, TurnSucceeds \/ TurnFails PROVE Typed' /\ Underway'
<1>1. Typed /\ pc = "turn" /\ status = "running"
      /\ UNCHANGED <<moved, inbox, writer, status, saved, past>>
      /\ work.current \in (1 .. Tickets) \ UserTickets
  BY DEF IInv, TurnSucceeds, TurnFails, Underway, Typed, RunnerTypeOK
<1>2. /\ ticket' \in [1 .. Tickets -> {"open", "done", "broken"}]
      /\ dirty' \in BOOLEAN
      /\ outbox' \in [letter : {"none", "pause"} \cup Modes, dirs : SUBSET Nat]
      /\ seen' \in Sights
  BY <1>1, WorksTyped DEF TurnSucceeds, TurnFails
<1>3. /\ pc' \in {"archive", "save"} /\ work' \in Engines /\ turn' \in Turnings
      /\ pc' = "archive" => work'.current = work.current
  <2>1. CASE TurnSucceeds
    <3>1. \E changed \in BOOLEAN : turn' = [NoTurn EXCEPT !.changed = changed]
      BY <2>1 DEF TurnSucceeds
    <3>2. turn' \in Turnings
      BY <3>1 DEF NoTurn, Turnings
    <3> QED BY <1>1, <2>1, <3>2, SuccessMoves DEF TurnSucceeds
  <2>2. CASE TurnFails
    BY <1>1, <2>2, FailedMoves DEF TurnFails
  <2> QED BY <2>1, <2>2
<1> QED BY <1>1, <1>2, <1>3 DEF Typed, RunnerTypeOK, Underway, Turnings

LEMMA ArchiveTyped == ASSUME IInv, Archive PROVE Typed' /\ Underway'
<1>1. Typed /\ pc = "archive" /\ status = "running"
      /\ UNCHANGED <<ticket, dirty, moved, inbox, writer, status, saved, past>>
      /\ work.current \in (1 .. Tickets) \ UserTickets
  BY DEF IInv, Archive, Underway, Typed, RunnerTypeOK
<1>2. /\ pc' \in {"finish", "save"} /\ work' \in Engines /\ turn' \in Turnings
      /\ pc' = "finish" => work'.current = work.current
      /\ outbox' \in [letter : {"none", "pause"} \cup Modes, dirs : SUBSET Nat]
  BY <1>1, ArchiveMoves DEF Closes, Carries, Typed
<1>3. seen' \in Sights
  BY <1>1, ArchiveMoves, OwedTyped DEF Typed, Sights
<1> QED BY <1>1, <1>2, <1>3 DEF Typed, RunnerTypeOK, Underway, Turnings

LEMMA ArchiveFailsTyped == ASSUME IInv, ArchiveFails PROVE Typed' /\ Underway'
<1>1. Typed /\ pc = "archive" /\ status = "running"
      /\ UNCHANGED <<ticket, dirty, moved, inbox, writer, status, saved, seen>>
  BY DEF IInv, ArchiveFails, Underway
<1>2. Closes
  BY <1>1, WorkCarries, PauseCloses DEF ArchiveFails, Blocking
<1>3. outbox' \in [letter : {"none", "pause"} \cup Modes, dirs : SUBSET Nat]
  <2>1. work.dispatch_seq + 1 \in Nat
    BY <1>1, WorkCarries
  <2> QED BY <1>1, <2>1 DEF ArchiveFails, Typed
<1>4. past' \in [acts : Nat, resumes : Nat, faults : Nat]
  BY <1>1, SpendTyped DEF ArchiveFails
<1> QED BY <1>1, <1>2, <1>3, <1>4 DEF Typed, RunnerTypeOK, Underway, Turnings, Closes, Carries

LEMMA FinishTyped == ASSUME IInv, Finish PROVE Typed' /\ Underway'
<1>1. Typed /\ status = "running"
      /\ UNCHANGED <<ticket, dirty, moved, inbox, writer, status, saved, past>>
  BY DEF IInv, Finish, Underway
<1>2. Closes
      /\ outbox' \in [letter : {"none", "pause"} \cup Modes, dirs : SUBSET Nat]
  BY <1>1, FinishMoves
<1>3. seen' \in Sights
  BY <1>1, FinishMoves, OwedTyped DEF Typed, Sights
<1> QED BY <1>1, <1>2, <1>3 DEF Typed, RunnerTypeOK, Underway, Turnings, Closes, Carries

LEMMA NewRunTyped == NewRun \in Engines /\ NoTurn \in Turnings
BY AssumedConstants DEF NewRun, NoBarrier, NoGuard, NoTurn, Engines, Turnings

LEMMA SaveTyped == ASSUME IInv, Save PROVE Typed' /\ Underway'
<1>1. Typed /\ pc = "save" /\ saved' = work /\ pc' = "idle"
      /\ work' = NewRun /\ turn' = NoTurn
      /\ UNCHANGED <<ticket, dirty, outbox, inbox, writer, seen, past>>
  BY DEF IInv, Save
<1>2. status' \in {"running", "paused", "completed", "failed"} /\ moved' \in BOOLEAN
  BY <1>1 DEF Save, Typed, RunnerTypeOK
<1> QED BY <1>1, <1>2, NewRunTyped DEF Typed, RunnerTypeOK, Underway, Turnings

\* A crash notes that the step has lost the ticket it had finished.
LEMMA CrashSeen ==
  ASSUME Typed, Crash
  PROVE  /\ seen' \in Sights
         /\ seen'.heard = seen.heard /\ seen'.torn = seen.torn
         /\ seen'.ran = seen.ran /\ seen'.unsettled = seen.unsettled
         /\ seen'.unpinned = (seen.unsettled # 0 /\ saved.current # seen.unsettled)
         /\ seen'.owed # "due"
<1> DEFINE u == seen.unsettled # 0 /\ saved.current # seen.unsettled
           o == IF seen.owed = "due" THEN "waived" ELSE seen.owed
           a == [seen EXCEPT !.unpinned = u]
<1>1. seen' = [a EXCEPT !.owed = o]
  BY DEF Crash
<1>2. u \in BOOLEAN /\ o \in {"none", "waived"} /\ seen \in Sights
  BY DEF Typed, Sights
<1> HIDE DEF u, o
<1>3. /\ a \in Sights /\ a.heard = seen.heard /\ a.torn = seen.torn
      /\ a.ran = seen.ran /\ a.unsettled = seen.unsettled /\ a.unpinned = u
  BY <1>2 DEF Sights
<1> HIDE DEF a
<1>4. /\ seen' \in Sights
      /\ seen'.heard = a.heard /\ seen'.torn = a.torn
      /\ seen'.ran = a.ran /\ seen'.unsettled = a.unsettled
      /\ seen'.unpinned = a.unpinned /\ seen'.owed = o
  BY <1>1, <1>2, <1>3 DEF Sights
<1>5. u = (seen.unsettled # 0 /\ saved.current # seen.unsettled)
  BY DEF u
<1> QED BY <1>2, <1>3, <1>4, <1>5

LEMMA CrashTyped == ASSUME IInv, Crash PROVE Typed' /\ Underway'
<1>1. Typed /\ pc' = "idle" /\ work' = NewRun /\ turn' = NoTurn
      /\ UNCHANGED <<files, saved>> /\ status' \in {"running", "failed"}
  BY DEF IInv, Crash
<1>2. past' \in [acts : Nat, resumes : Nat, faults : Nat]
  BY <1>1, SpendTyped DEF Crash
<1> QED BY <1>1, <1>2, CrashSeen, NewRunTyped
        DEF Typed, RunnerTypeOK, Underway, Turnings, files

\* Resume puts back the count of turns exactly when their limit ended the run.
LEMMA ResumeMoves ==
  ASSUME Typed, Resume
  PROVE  /\ saved' \in Engines /\ seen' \in Sights
         /\ saved'.current = saved.current /\ saved'.reply_seq = saved.reply_seq
         /\ seen'.owed = "none"
         /\ seen'.heard = seen.heard /\ seen'.torn = seen.torn
         /\ seen'.unsettled = seen.unsettled /\ seen'.unpinned = seen.unpinned
         /\ \/ saved'.turns = saved.turns /\ seen'.ran = seen.ran
            \/ saved'.turns = 0 /\ seen'.ran = 0
<1> DEFINE limit == saved.reason = "max_turns"
           t == IF limit THEN 0 ELSE saved.turns
           r == IF limit THEN 0 ELSE seen.ran
           a == [saved EXCEPT !.turns = t]
           b == [a EXCEPT !.reason = "none"]
           c == [seen EXCEPT !.owed = "none"]
           d == [c EXCEPT !.ran = r]
<1>1. saved' = b /\ seen' = d
  BY DEF Resume
<1>2. saved \in Engines /\ seen \in Sights
  BY DEF Typed, RunnerTypeOK
<1>3. /\ t \in 0 .. MaxTurns /\ r \in Nat
      /\ (t = saved.turns /\ r = seen.ran) \/ (t = 0 /\ r = 0)
  BY <1>2, AssumedConstants DEF Engines, Sights
<1> HIDE DEF t, r
<1>4. /\ a \in Engines /\ a.turns = t /\ a.current = saved.current
      /\ a.reply_seq = saved.reply_seq
  BY <1>2, <1>3 DEF Engines
<1>5. /\ c \in Sights /\ c.owed = "none" /\ c.heard = seen.heard
      /\ c.torn = seen.torn /\ c.unsettled = seen.unsettled
      /\ c.unpinned = seen.unpinned
  BY <1>2 DEF Sights
<1> HIDE DEF a, c
<1>6. /\ b \in Engines /\ b.turns = a.turns /\ b.current = a.current
      /\ b.reply_seq = a.reply_seq
  BY <1>4 DEF Engines
<1>7. /\ d \in Sights /\ d.owed = c.owed /\ d.heard = c.heard /\ d.torn = c.torn
      /\ d.unsettled = c.unsettled /\ d.unpinned = c.unpinned /\ d.ran = r
  BY <1>3, <1>5 DEF Sights
<1> HIDE DEF b, d
<1> QED BY <1>1, <1>3, <1>4, <1>5, <1>6, <1>7

LEMMA ResumeTyped == ASSUME IInv, Resume PROVE Typed' /\ Underway'
<1>1. Typed /\ pc = "idle" /\ status' = "running" /\ UNCHANGED <<files, work, pc, turn>>
  BY DEF IInv, Resume
<1>2. past' \in [acts : Nat, resumes : Nat, faults : Nat]
  BY <1>1, SpendTyped DEF Resume
<1> QED BY <1>1, <1>2, ResumeMoves DEF Typed, RunnerTypeOK, Underway, Turnings, files

\* A user's change may settle the ticket that was left.
LEMMA UnsettledTyped ==
  ASSUME Typed, NEW u \in 0 .. Tickets, seen' = [seen EXCEPT !.unsettled = u]
  PROVE  /\ seen' \in Sights /\ seen'.unsettled = u
         /\ seen'.heard = seen.heard /\ seen'.torn = seen.torn
         /\ seen'.ran = seen.ran /\ seen'.owed = seen.owed
         /\ seen'.unpinned = seen.unpinned
BY DEF Typed, Sights

LEMMA MarksMoves ==
  ASSUME Typed, UserMarks
  PROVE  \E t \in 1 .. Tickets, file \in {"open", "done"} :
           /\ ticket' = [ticket EXCEPT ![t] = file]
           /\ seen' \in Sights
           /\ seen'.unsettled = IF seen.unsettled = t THEN 0 ELSE seen.unsettled
           /\ seen'.heard = seen.heard /\ seen'.torn = seen.torn
           /\ seen'.ran = seen.ran /\ seen'.owed = seen.owed
           /\ seen'.unpinned = seen.unpinned
<1>1. PICK t \in 1 .. Tickets, file \in {"open", "done"} :
        /\ ticket' = [ticket EXCEPT ![t] = file]
        /\ seen' = [seen EXCEPT !.unsettled = IF @ = t THEN 0 ELSE @]
  BY DEF UserMarks
<1> DEFINE u == IF seen.unsettled = t THEN 0 ELSE seen.unsettled
<1>2. u \in 0 .. Tickets
  BY AssumedConstants DEF Typed, Sights
<1>3. seen' = [seen EXCEPT !.unsettled = u]
  BY <1>1
<1> HIDE DEF u
<1>4. /\ seen' \in Sights /\ seen'.unsettled = u
      /\ seen'.heard = seen.heard /\ seen'.torn = seen.torn
      /\ seen'.ran = seen.ran /\ seen'.owed = seen.owed
      /\ seen'.unpinned = seen.unpinned
  BY <1>2, <1>3, UnsettledTyped
<1>5. WITNESS t \in 1 .. Tickets, file \in {"open", "done"}
<1> QED BY <1>1, <1>4 DEF u

LEMMA MarksTyped == ASSUME IInv, UserMarks PROVE Typed' /\ Underway'
<1>1. Typed /\ Underway
      /\ UNCHANGED <<dirty, moved, outbox, inbox, writer, status, saved, work, pc, turn>>
  BY DEF IInv, UserMarks
<1>2. past' \in [acts : Nat, resumes : Nat, faults : Nat]
  BY <1>1, SpendTyped DEF UserMarks
<1>3. ticket' \in [1 .. Tickets -> {"open", "done", "broken"}] /\ seen' \in Sights
  BY <1>1, MarksMoves DEF Typed, RunnerTypeOK
<1> QED BY <1>1, <1>2, <1>3 DEF Typed, RunnerTypeOK, Underway, Turnings

LEMMA TouchesMoves ==
  ASSUME Typed, UserTouches
  PROVE  /\ seen' \in Sights /\ dirty' = ~dirty
         /\ seen'.unsettled = IF dirty THEN 0 ELSE seen.unsettled
         /\ seen'.heard = seen.heard /\ seen'.torn = seen.torn
         /\ seen'.ran = seen.ran /\ seen'.owed = seen.owed
         /\ seen'.unpinned = seen.unpinned
<1> DEFINE u == IF dirty THEN 0 ELSE seen.unsettled
<1>1. u \in 0 .. Tickets
  BY AssumedConstants DEF Typed, Sights
<1>2. seen' = [seen EXCEPT !.unsettled = u] /\ dirty' = ~dirty
  BY DEF UserTouches
<1> HIDE DEF u
<1>3. /\ seen' \in Sights /\ seen'.unsettled = u
      /\ seen'.heard = seen.heard /\ seen'.torn = seen.torn
      /\ seen'.ran = seen.ran /\ seen'.owed = seen.owed
      /\ seen'.unpinned = seen.unpinned
  BY <1>1, <1>2, UnsettledTyped
<1> QED BY <1>2, <1>3 DEF u

LEMMA TouchesTyped == ASSUME IInv, UserTouches PROVE Typed' /\ Underway'
<1>1. Typed /\ Underway /\ moved' = TRUE
      /\ UNCHANGED <<ticket, outbox, inbox, writer, status, saved, work, pc, turn>>
  BY DEF IInv, UserTouches
<1>2. past' \in [acts : Nat, resumes : Nat, faults : Nat]
  BY <1>1, SpendTyped DEF UserTouches
<1>3. dirty' \in BOOLEAN /\ seen' \in Sights
  BY <1>1, TouchesMoves
<1> QED BY <1>1, <1>2, <1>3 DEF Typed, RunnerTypeOK, Underway, Turnings

\* What the surfaces do to the replies.
LEMMA ReplyMoves ==
  ASSUME Typed, ReplyArrives \/ ReplyMakesDir \/ ReplyCopies
  PROVE  /\ inbox' \in [letter : BOOLEAN, dirs : Seq({"empty", "full", "failed"})]
         /\ writer' \in {"idle", "written", "made"}
         /\ past' \in [acts : Nat, resumes : Nat, faults : Nat]
         /\ past'.faults = past.faults
         /\ UNCHANGED <<ticket, dirty, moved, outbox, status, saved, work, pc, turn, seen>>
<1> DEFINE S == Seq({"empty", "full", "failed"})
<1>1. inbox \in [letter : BOOLEAN, dirs : S] /\ inbox.dirs \in S
      /\ past \in [acts : Nat, resumes : Nat, faults : Nat]
      /\ writer \in {"idle", "written", "made"}
  BY DEF Typed, RunnerTypeOK
<1>2. CASE ReplyArrives
  <2>1. past' \in [acts : Nat, resumes : Nat, faults : Nat]
        /\ past'.faults = past.faults
    BY <1>2, SpendTyped DEF ReplyArrives
  <2> HIDE DEF S
  <2>2. inbox' \in [letter : BOOLEAN, dirs : S]
    BY <1>1, <1>2 DEF ReplyArrives
  <2> QED BY <1>2, <2>1, <2>2 DEF ReplyArrives, S
<1>3. CASE ReplyMakesDir
  <2> DEFINE q == Append(inbox.dirs, "empty")
  <2>1. q \in S
    BY <1>1
  <2>2. inbox' = inbox \/ inbox' = [inbox EXCEPT !.dirs = q]
    BY <1>3 DEF ReplyMakesDir
  <2> HIDE DEF q, S
  <2>3. inbox' \in [letter : BOOLEAN, dirs : S]
    BY <1>1, <2>1, <2>2
  <2> QED BY <1>1, <1>3, <2>3 DEF ReplyMakesDir, S
<1>4. CASE ReplyCopies
  <2> DEFINE mine == Max({i \in 1 .. Len(inbox.dirs) : inbox.dirs[i] = "empty"})
             q == [inbox.dirs EXCEPT ![mine] = "full"]
  <2>1. q \in S
    <3> DEFINE d == inbox.dirs
               n == Len(inbox.dirs)
    <3>1. n \in Nat /\ d \in [1 .. n -> {"empty", "full", "failed"}]
      BY <1>1
    <3> HIDE DEF mine, d, n
    <3>2. [d EXCEPT ![mine] = "full"] \in [1 .. n -> {"empty", "full", "failed"}]
      BY <3>1
    <3>3. [d EXCEPT ![mine] = "full"] \in Seq({"empty", "full", "failed"})
      BY <3>1, <3>2
    <3> QED BY <3>3 DEF d
  <2>2. inbox' = inbox \/ inbox' = [letter |-> FALSE, dirs |-> q]
    BY <1>4 DEF ReplyCopies
  <2> HIDE DEF q, S
  <2>3. inbox' \in [letter : BOOLEAN, dirs : S]
    <3>1. CASE inbox' = inbox
      BY <1>1, <3>1
    <3>2. CASE inbox' = [letter |-> FALSE, dirs |-> q]
      BY <2>1, <3>2
    <3> QED BY <2>2, <3>1, <3>2
  <2> QED BY <1>1, <1>4, <2>3 DEF ReplyCopies, S
<1> QED BY <1>2, <1>3, <1>4

LEMMA ReplyTyped ==
  ASSUME IInv, ReplyArrives \/ ReplyMakesDir \/ ReplyCopies
  PROVE  Typed' /\ Underway'
<1>1. Typed /\ Underway
  BY DEF IInv
<1> QED BY <1>1, ReplyMoves DEF Typed, RunnerTypeOK, Underway, Turnings

-----------------------------------------------------------------------------
(* The invariant is kept *)

\* The numbers the four parts compare.
LEMMA Numbers ==
  ASSUME Typed
  PROVE  /\ saved.turns \in 0 .. MaxTurns /\ work.turns \in 0 .. MaxTurns
         /\ saved.reply_seq \in Nat /\ work.reply_seq \in Nat
         /\ turn.upto \in Nat /\ seen.ran \in Nat /\ past.faults \in Nat
         /\ saved.current \in 0 .. Tickets /\ work.current \in 0 .. Tickets
         /\ seen.unsettled \in 0 .. Tickets /\ seen.unpinned \in BOOLEAN
         /\ dirty \in BOOLEAN
<1>1. saved \in Engines /\ work \in Engines /\ dirty \in BOOLEAN
  BY DEF Typed, RunnerTypeOK
<1> QED BY <1>1 DEF Typed, Engines, Turnings, Sights

Parts == Counted /\ Heard /\ Yields /\ Pinned

LEMMA BeginKeeps == ASSUME IInv, Begin PROVE Parts'
<1>1. Typed /\ Parts /\ pc = "idle" /\ status = "running"
      /\ UNCHANGED <<ticket, dirty, status, saved, seen, past>>
  BY DEF IInv, Parts, Begin
<1>2. /\ work'.turns = saved.turns /\ work'.reply_seq = saved.reply_seq
      /\ work'.current = saved.current
      /\ \/ pc' = "save" /\ turn'.verdict = "paused"
         \/ pc' = "select" /\ saved.turns < MaxTurns
  BY <1>1, BeginMoves
<1>3. Counted'
  BY <1>1, <1>2, Numbers DEF Parts, Counted
<1>4. Heard' /\ Yields'
  BY <1>1, <1>2 DEF Parts, Heard, Yields
<1>5. Pinned'
  BY <1>1, <1>2 DEF Parts, Pinned, Current
<1> QED BY <1>3, <1>4, <1>5 DEF Parts

LEMMA BeginFailsKeeps == ASSUME IInv, BeginFails PROVE Parts'
<1>1. Typed /\ Parts /\ pc = "idle" /\ status = "running"
      /\ UNCHANGED <<ticket, dirty, status, saved, seen>>
  BY DEF IInv, Parts, BeginFails
<1>2. /\ work'.turns = saved.turns /\ work'.reply_seq = saved.reply_seq
      /\ work'.current = saved.current
      /\ pc' = "save" /\ turn'.verdict = "paused"
  BY <1>1, PauseTyped DEF BeginFails, Blocking, Typed, RunnerTypeOK
<1>3. past'.faults = past.faults + 1
  BY <1>1, SpendTyped DEF BeginFails
<1>4. Counted'
  BY <1>1, <1>2, <1>3, Numbers DEF Parts, Counted
<1>5. Heard' /\ Yields'
  BY <1>1, <1>2 DEF Parts, Heard, Yields
<1>6. Pinned'
  BY <1>1, <1>2 DEF Parts, Pinned, Current
<1> QED BY <1>4, <1>5, <1>6 DEF Parts

LEMMA SelectKeeps == ASSUME IInv, Select PROVE Parts'
<1>1. Typed /\ Parts /\ pc = "select" /\ work.turns < MaxTurns /\ status = "running"
      /\ UNCHANGED <<ticket, dirty, inbox, status, saved, past>>
  BY DEF IInv, Parts, Select, Counted, Underway, files
<1>2. seen.unsettled # 0 /\ ~seen.unpinned => Done(work.current) /\ dirty
  BY <1>1 DEF Parts, Pinned, Current, Done
<1>3. CASE /\ Closes /\ seen' = seen
           /\ turn'.verdict = "completed" => ~(Done(work.current) /\ dirty)
  <2>1. Counted'
    BY <1>1, <1>3, Numbers DEF Parts, Counted, Closes, Carries
  <2>2. Heard' /\ Yields'
    BY <1>1, <1>3 DEF Parts, Heard, Yields, Closes, Carries
  <2>3. Pinned'
    BY <1>1, <1>2, <1>3 DEF Parts, Pinned, Current, Closes, Carries
  <2> QED BY <2>1, <2>2, <2>3 DEF Parts
<1>4. CASE Starts
  <2>1. /\ seen'.ran = seen.ran + 1 /\ seen'.owed = seen.owed
        /\ seen'.heard = seen.heard /\ seen.torn \subseteq seen'.torn
        /\ seen'.unsettled = seen.unsettled /\ seen'.unpinned = seen.unpinned
    BY <1>1, <1>4, StartsSeen
  <2>2. Counted'
    <3>1. seen.ran <= work.turns + past.faults /\ work.turns = saved.turns
      BY <1>1 DEF Parts, Counted
    <3>2. pc' = "turn" /\ work'.turns = work.turns + 1 /\ UNCHANGED <<saved, past>>
      BY <1>1, <1>4 DEF Starts
    <3>3. seen.ran \in Nat /\ work.turns \in Nat /\ past.faults \in Nat
      BY <1>1, Numbers
    <3> QED BY <2>1, <3>1, <3>2, <3>3 DEF Counted
  <2>3. Heard'
    BY <1>1, <1>4, <2>1 DEF Parts, Heard, Starts
  <2>4. Yields'
    BY <1>1, <1>4, <2>1 DEF Parts, Yields, Starts
  <2>5. Pinned'
    BY <1>1, <1>2, <1>4, <2>1 DEF Parts, Pinned, Current, Starts
  <2> QED BY <2>2, <2>3, <2>4, <2>5 DEF Parts
<1> QED BY <1>1, <1>3, <1>4, SelectMoves

LEMMA TurnKeeps == ASSUME IInv, TurnSucceeds \/ TurnFails PROVE Parts'
<1>1. Typed /\ Parts /\ pc = "turn" /\ status = "running"
      /\ UNCHANGED <<status, saved, past>>
      /\ work.current \in (1 .. Tickets) \ UserTickets
  BY DEF IInv, Parts, TurnSucceeds, TurnFails, Underway, Typed, RunnerTypeOK
<1>2. PICK o \in {"ok", "network", "error"}, c \in BOOLEAN :
        /\ Works(o, c)
        /\ \/ TurnSucceeds /\ o = "ok"
           \/ TurnFails /\ Failed(o) /\ o # "ok"
  BY DEF TurnSucceeds, TurnFails
<1>3. /\ work'.turns = work.turns /\ work'.current = work.current
      /\ \/ /\ pc' = "archive" /\ o = "ok"
            /\ work'.reply_seq = IF turn.upto > work.reply_seq
                                 THEN turn.upto ELSE work.reply_seq
         \/ /\ pc' = "save" /\ o # "ok" /\ turn'.verdict # "completed"
            /\ work'.reply_seq = work.reply_seq
  <2>1. CASE TurnSucceeds /\ o = "ok"
    BY <1>1, <2>1, SuccessMoves DEF TurnSucceeds
  <2>2. CASE TurnFails /\ Failed(o) /\ o # "ok"
    BY <1>1, <2>2, FailedMoves
  <2> QED BY <1>2, <2>1, <2>2
<1>4. /\ seen'.owed = seen.owed /\ seen'.ran = seen.ran
      /\ seen'.torn = seen.torn /\ seen.heard \subseteq seen'.heard
      /\ o = "ok" =>
           \A i \in Nat : work.reply_seq < i /\ i <= turn.upto =>
             i \in seen'.heard \cup seen'.torn
  BY <1>1, <1>2, WorksTyped
<1>5. Counted'
  BY <1>1, <1>3, <1>4, Numbers DEF Parts, Counted
<1>6. Heard'
  <2>1. \A i \in 1 .. work.reply_seq : i \in seen'.heard \cup seen'.torn
    BY <1>1, <1>4 DEF Parts, Heard
  <2>2. \A i \in 1 .. saved.reply_seq : i \in seen'.heard \cup seen'.torn
    BY <1>1, <1>4 DEF Parts, Heard
  <2>3. \A i \in 1 .. work'.reply_seq : i \in seen'.heard \cup seen'.torn
    <3>1. o # "ok" => work'.reply_seq = work.reply_seq
      BY <1>3
    <3> DEFINE m == IF turn.upto > work.reply_seq THEN turn.upto ELSE work.reply_seq
    <3>2. o = "ok" => work'.reply_seq = m
      BY <1>2, <1>3
    <3>3. ASSUME NEW i \in 1 .. m
          PROVE  i \in 1 .. work.reply_seq \/ (work.reply_seq < i /\ i <= turn.upto)
      BY <1>1, Numbers
    <3>4. o = "ok" => \A i \in 1 .. m : i \in seen'.heard \cup seen'.torn
      BY <1>1, <1>4, <2>1, <3>3, Numbers
    <3> HIDE DEF m
    <3> QED BY <2>1, <3>1, <3>2, <3>4
  <2> QED BY <1>1, <2>2, <2>3 DEF Heard
<1>7. Yields'
  BY <1>1, <1>3, <1>4 DEF Parts, Yields
<1>8. Pinned'
  <2>1. /\ seen'.unsettled # 0 /\ seen.unsettled # 0 =>
             dirty' /\ (seen.unsettled = work.current => ticket'[work.current] = "done")
        /\ seen'.unsettled # seen.unsettled /\ seen'.unsettled # 0 =>
             /\ dirty' /\ ticket'[work.current] = "done"
             /\ seen'.unsettled = work.current
        /\ \A t \in 1 .. Tickets : t # work.current => ticket'[t] = ticket[t]
        /\ seen'.unpinned => seen.unpinned
        /\ seen.unpinned /\ ~seen'.unpinned /\ seen'.unsettled # 0 =>
             seen'.unsettled = work.current
    BY <1>1, <1>2, WorksTyped
  <2>2. seen'.unsettled # 0 => dirty' /\ ticket'[seen'.unsettled] = "done"
    BY <1>1, <2>1, Numbers DEF Parts, Pinned
  <2>3. seen'.unsettled # 0 /\ ~seen'.unpinned => work.current = seen'.unsettled
    BY <1>1, <2>1 DEF Parts, Pinned, Current
  <2> QED BY <1>1, <1>3, <2>2, <2>3 DEF Pinned, Current
<1> QED BY <1>5, <1>6, <1>7, <1>8 DEF Parts

LEMMA ArchiveKeeps == ASSUME IInv, Archive PROVE Parts'
<1>1. Typed /\ Parts /\ pc = "archive" /\ status = "running"
      /\ UNCHANGED <<ticket, dirty, status, saved, past>>
  BY DEF IInv, Parts, Archive, Underway
<1>2. /\ Carries(work')
      /\ \/ pc' = "save" /\ turn'.verdict = "paused"
         \/ pc' = "finish" /\ work'.current = work.current
  BY <1>1, ArchiveMoves DEF Closes
<1>3. /\ seen'.heard = seen.heard /\ seen'.torn = seen.torn
      /\ seen'.ran = seen.ran /\ seen'.unsettled = seen.unsettled
      /\ seen'.unpinned = seen.unpinned
      /\ pc' = "finish" /\ seen'.owed = "due" => turn'.mode = "pause"
  <2>1. CASE seen' = seen /\ pc' = "save"
    BY <2>1
  <2>2. CASE /\ pc' = "finish" /\ turn'.mode = outbox.letter
             /\ seen' = [seen EXCEPT !.owed =
                           IF outbox.letter = "pause" THEN "due" ELSE @]
    <3> DEFINE o == IF outbox.letter = "pause" THEN "due" ELSE seen.owed
    <3>1. o \in {"none", "due", "waived"}
      BY <1>1 DEF Typed, Sights
    <3>2. seen' = [seen EXCEPT !.owed = o]
      BY <2>2
    <3>3. seen.owed # "due"
      BY <1>1 DEF Parts, Yields
    <3>4. o = "due" => outbox.letter = "pause"
      BY <3>3
    <3> HIDE DEF o
    <3> QED BY <1>1, <2>2, <3>1, <3>2, <3>4, OwedTyped
  <2> QED BY <1>1, <2>1, <2>2, ArchiveMoves DEF Closes
<1>4. Counted'
  BY <1>1, <1>2, <1>3, Numbers DEF Parts, Counted, Carries
<1>5. Heard'
  BY <1>1, <1>2, <1>3 DEF Parts, Heard, Carries
<1>6. Yields'
  BY <1>2, <1>3 DEF Yields
<1>7. Pinned'
  BY <1>1, <1>2, <1>3 DEF Parts, Pinned, Current, Done, Carries
<1> QED BY <1>4, <1>5, <1>6, <1>7 DEF Parts

LEMMA ArchiveFailsKeeps == ASSUME IInv, ArchiveFails PROVE Parts'
<1>1. Typed /\ Parts /\ pc = "archive" /\ status = "running"
      /\ UNCHANGED <<ticket, dirty, status, saved, seen>>
  BY DEF IInv, Parts, ArchiveFails, Underway
<1>2. pc' = "save" /\ Carries(work') /\ turn'.verdict = "paused"
  BY <1>1, WorkCarries, PauseCloses DEF ArchiveFails, Blocking, Closes
<1>3. past'.faults = past.faults + 1
  BY <1>1, SpendTyped DEF ArchiveFails
<1>4. Counted'
  BY <1>1, <1>2, <1>3, Numbers DEF Parts, Counted, Carries
<1>5. Heard'
  BY <1>1, <1>2 DEF Parts, Heard, Carries
<1>6. Yields'
  BY <1>2 DEF Yields
<1>7. Pinned'
  BY <1>1, <1>2 DEF Parts, Pinned, Current, Done, Carries
<1> QED BY <1>4, <1>5, <1>6, <1>7 DEF Parts

LEMMA FinishKeeps == ASSUME IInv, Finish PROVE Parts'
<1>1. Typed /\ Parts /\ pc = "finish" /\ status = "running"
      /\ UNCHANGED <<ticket, dirty, status, saved, past>>
  BY DEF IInv, Parts, Finish, Underway
<1>2. pc' = "save" /\ Carries(work') /\ turn'.verdict # "completed"
  BY <1>1, FinishMoves DEF Closes
<1>3. /\ seen'.heard = seen.heard /\ seen'.torn = seen.torn
      /\ seen'.ran = seen.ran /\ seen'.unsettled = seen.unsettled
      /\ seen'.unpinned = seen.unpinned
      /\ seen'.owed = "due" => turn'.verdict = "paused"
  <2>1. CASE seen' = seen /\ (turn.mode = "pause" => turn'.verdict = "paused")
    BY <1>1, <2>1 DEF Parts, Yields
  <2>2. CASE seen' = [seen EXCEPT !.owed = IF @ = "due" THEN "waived" ELSE @]
    <3> DEFINE o == IF seen.owed = "due" THEN "waived" ELSE seen.owed
    <3>1. o \in {"none", "waived"}
      BY <1>1 DEF Typed, Sights
    <3>2. seen' = [seen EXCEPT !.owed = o]
      BY <2>2
    <3> HIDE DEF o
    <3> QED BY <1>1, <3>1, <3>2, OwedTyped
  <2> QED BY <1>1, <2>1, <2>2, FinishMoves
<1>4. Counted'
  BY <1>1, <1>2, <1>3, Numbers DEF Parts, Counted, Carries
<1>5. Heard'
  BY <1>1, <1>2, <1>3 DEF Parts, Heard, Carries
<1>6. Yields'
  BY <1>2, <1>3 DEF Yields
<1>7. Pinned'
  BY <1>1, <1>2, <1>3 DEF Parts, Pinned, Current, Done, Carries
<1> QED BY <1>4, <1>5, <1>6, <1>7 DEF Parts

LEMMA SaveKeeps == ASSUME IInv, Save PROVE Parts'
<1>1. Typed /\ Parts /\ pc = "save" /\ pc' = "idle" /\ saved' = work
      /\ UNCHANGED <<ticket, dirty, seen, past>>
      /\ status' = IF turn.verdict = "continue" THEN "running" ELSE turn.verdict
  BY DEF IInv, Parts, Save
<1>2. Counted'
  BY <1>1, Numbers DEF Parts, Counted
<1>3. Heard'
  BY <1>1 DEF Parts, Heard
<1>4. Yields'
  BY <1>1 DEF Parts, Yields
<1>5. Pinned'
  BY <1>1 DEF Parts, Pinned, Current
<1> QED BY <1>2, <1>3, <1>4, <1>5 DEF Parts

LEMMA CrashKeeps == ASSUME IInv, Crash PROVE Parts'
<1>1. Typed /\ Parts /\ pc # "idle" /\ pc' = "idle"
      /\ UNCHANGED <<ticket, dirty, saved>> /\ status' \in {"running", "failed"}
  BY DEF IInv, Parts, Crash, files
<1>2. past'.faults = past.faults + 1
  BY <1>1, SpendTyped DEF Crash
<1>3. /\ seen'.heard = seen.heard /\ seen'.torn = seen.torn
      /\ seen'.ran = seen.ran /\ seen'.unsettled = seen.unsettled
      /\ seen'.unpinned = (seen.unsettled # 0 /\ saved.current # seen.unsettled)
      /\ seen'.owed # "due"
  BY <1>1, CrashSeen
<1>4. Counted'
  BY <1>1, <1>2, <1>3, Numbers DEF Parts, Counted
<1>5. Heard'
  BY <1>1, <1>3 DEF Parts, Heard
<1>6. Yields'
  BY <1>3 DEF Yields
<1>7. Pinned'
  BY <1>1, <1>3 DEF Parts, Pinned, Current
<1> QED BY <1>4, <1>5, <1>6, <1>7 DEF Parts

LEMMA ResumeKeeps == ASSUME IInv, Resume PROVE Parts'
<1>1. Typed /\ Parts /\ pc = "idle" /\ pc' = "idle" /\ status' = "running"
      /\ UNCHANGED <<ticket, dirty>>
  BY DEF IInv, Parts, Resume, files
<1>2. past'.faults = past.faults
  BY <1>1, SpendTyped DEF Resume
<1>3. /\ saved'.current = saved.current /\ saved'.reply_seq = saved.reply_seq
      /\ seen'.owed = "none"
      /\ seen'.heard = seen.heard /\ seen'.torn = seen.torn
      /\ seen'.unsettled = seen.unsettled /\ seen'.unpinned = seen.unpinned
      /\ \/ saved'.turns = saved.turns /\ seen'.ran = seen.ran
         \/ saved'.turns = 0 /\ seen'.ran = 0
  BY <1>1, ResumeMoves
<1>4. Counted'
  BY <1>1, <1>2, <1>3, Numbers DEF Parts, Counted
<1>5. Heard'
  BY <1>1, <1>3 DEF Parts, Heard
<1>6. Yields'
  BY <1>3 DEF Yields
<1>7. Pinned'
  BY <1>1, <1>3 DEF Parts, Pinned, Current
<1> QED BY <1>4, <1>5, <1>6, <1>7 DEF Parts

LEMMA MarksKeeps == ASSUME IInv, UserMarks PROVE Parts'
<1>1. Typed /\ Parts /\ pc = "idle"
      /\ UNCHANGED <<dirty, status, saved, work, pc, turn>>
  BY DEF IInv, Parts, UserMarks, Resting
<1>2. past'.faults = past.faults
  BY <1>1, SpendTyped DEF UserMarks
<1>3. PICK t \in 1 .. Tickets, file \in {"open", "done"} :
        /\ ticket' = [ticket EXCEPT ![t] = file]
        /\ seen'.unsettled = IF seen.unsettled = t THEN 0 ELSE seen.unsettled
        /\ seen'.heard = seen.heard /\ seen'.torn = seen.torn
        /\ seen'.ran = seen.ran /\ seen'.owed = seen.owed
        /\ seen'.unpinned = seen.unpinned
  BY <1>1, MarksMoves
<1>4. Counted'
  BY <1>1, <1>2, <1>3 DEF Parts, Counted
<1>5. Heard'
  BY <1>1, <1>3 DEF Parts, Heard
<1>6. Yields'
  BY <1>1, <1>3 DEF Parts, Yields
<1>7. Pinned'
  BY <1>1, <1>3 DEF Parts, Pinned, Current
<1> QED BY <1>4, <1>5, <1>6, <1>7 DEF Parts

LEMMA TouchesKeeps == ASSUME IInv, UserTouches PROVE Parts'
<1>1. Typed /\ Parts /\ pc = "idle"
      /\ UNCHANGED <<ticket, status, saved, work, pc, turn>>
  BY DEF IInv, Parts, UserTouches, Resting
<1>2. past'.faults = past.faults
  BY <1>1, SpendTyped DEF UserTouches
<1>3. /\ seen'.unsettled = IF dirty THEN 0 ELSE seen.unsettled
      /\ seen'.heard = seen.heard /\ seen'.torn = seen.torn
      /\ seen'.ran = seen.ran /\ seen'.owed = seen.owed
      /\ seen'.unpinned = seen.unpinned
  BY <1>1, TouchesMoves
<1>4. Counted'
  BY <1>1, <1>2, <1>3 DEF Parts, Counted
<1>5. Heard'
  BY <1>1, <1>3 DEF Parts, Heard
<1>6. Yields'
  BY <1>1, <1>3 DEF Parts, Yields
<1>7. Pinned'
  BY <1>1, <1>3 DEF Parts, Pinned
<1> QED BY <1>4, <1>5, <1>6, <1>7 DEF Parts

LEMMA ReplyKeeps ==
  ASSUME IInv, ReplyArrives \/ ReplyMakesDir \/ ReplyCopies
  PROVE  Parts'
<1>1. /\ Parts /\ past'.faults = past.faults
      /\ UNCHANGED <<ticket, dirty, status, saved, work, pc, turn, seen>>
  BY ReplyMoves DEF IInv, Parts
<1> QED BY <1>1 DEF Parts, Counted, Heard, Yields, Pinned, Current

-----------------------------------------------------------------------------
(* The theorems *)

LEMMA InitHolds == Init => IInv
<1> SUFFICES ASSUME Init PROVE IInv
  OBVIOUS
<1>1. /\ outbox \in [letter : {"none", "pause"} \cup Modes, dirs : SUBSET Nat]
      /\ inbox \in [letter : BOOLEAN, dirs : Seq({"empty", "full", "failed"})]
      /\ past \in [acts : Nat, resumes : Nat, faults : Nat]
  BY DEF Init
<1>2. seen \in Sights
  BY AssumedConstants DEF Init, Sights
<1>3. Typed
  BY <1>1, <1>2, NewRunTyped DEF Init, Typed, RunnerTypeOK, Turnings
<1>4. Underway /\ Counted /\ Heard /\ Yields /\ Pinned
  BY DEF Init, NewRun, Underway, Counted, Heard, Yields, Pinned
<1> QED BY <1>3, <1>4 DEF IInv

LEMMA StepHolds == IInv /\ [Next]_vars => IInv'
<1> SUFFICES ASSUME IInv, [Next]_vars PROVE IInv'
  OBVIOUS
<1> USE DEF IInv, Parts
<1>1. CASE Begin
  BY <1>1, BeginTyped, BeginKeeps
<1>0. CASE BeginFails
  BY <1>0, BeginFailsTyped, BeginFailsKeeps
<1>2. CASE Select
  BY <1>2, SelectTyped, SelectKeeps
<1>3. CASE TurnSucceeds \/ TurnFails
  BY <1>3, TurnTyped, TurnKeeps
<1>4. CASE Archive
  BY <1>4, ArchiveTyped, ArchiveKeeps
<1>5. CASE ArchiveFails
  BY <1>5, ArchiveFailsTyped, ArchiveFailsKeeps
<1>6. CASE Finish
  BY <1>6, FinishTyped, FinishKeeps
<1>7. CASE Save
  BY <1>7, SaveTyped, SaveKeeps
<1>8. CASE Crash
  BY <1>8, CrashTyped, CrashKeeps
<1>9. CASE Resume
  BY <1>9, ResumeTyped, ResumeKeeps
<1>10. CASE UserMarks
  BY <1>10, MarksTyped, MarksKeeps
<1>11. CASE UserTouches
  BY <1>11, TouchesTyped, TouchesKeeps
<1>12. CASE ReplyArrives \/ ReplyMakesDir \/ ReplyCopies
  BY <1>12, ReplyTyped, ReplyKeeps
<1>13. CASE UNCHANGED vars
  BY <1>13 DEF vars, Typed, RunnerTypeOK, Underway, Counted, Heard, Yields,
               Pinned, Current
<1> QED
  BY <1>0, <1>1, <1>2, <1>3, <1>4, <1>5, <1>6, <1>7, <1>8, <1>9, <1>10, <1>11,
     <1>12, <1>13 DEF Next, Step, User

LEMMA Invariance == Spec => []IInv
BY InitHolds, StepHolds, PTL DEF Spec

\* A step's engine state stays within its limits, and an agent's turn is for a
\* ticket that is not the user's (tickets/runner.py, runner_selection.py).
THEOREM RunnerTyped == Spec => []RunnerTypeOK
<1>1. IInv => RunnerTypeOK
  BY DEF IInv, Typed
<1> QED BY <1>1, Invariance, PTL

\* A reply that the run has counted as read was in the prompt of a turn that
\* succeeded, or was rendered while its directory was being filled
\* (runner_step_support.py:110, replies.py:178).
THEOREM RepliesHeardAlways == Spec => []RepliesHeard
<1>1. IInv => RepliesHeard
  BY DEF IInv, Heard, RepliesHeard
<1> QED BY <1>1, Invariance, PTL

\* A ticket finished over a dirty worktree keeps its place unless the step that
\* finished it was lost (runner_selection.py:113, runner_post_turn.py:662).
THEOREM BarrierPinsAlways == Spec => []BarrierPins
<1>1. IInv => BarrierPins
  BY DEF IInv, Pinned, Current, BarrierPins, Preserved
<1> QED BY <1>1, Invariance, PTL

\* After a hand-off the agent gets no turn until the user resumes, unless its
\* ticket does not parse or the step was lost (runner_post_turn.py:600).
THEOREM HandoffYieldsAlways == Spec => []HandoffYields
<1>1. IInv => HandoffYields
  BY DEF IInv, Yields, HandoffYields
<1> QED BY <1>1, Invariance, PTL

\* Between two resumes from the limit of turns, only turns lost in a crash come
\* on top of it (runner.py:111).
THEOREM TurnsBoundedAlways == Spec => []TurnsBounded
<1>1. ASSUME IInv PROVE TurnsBounded
  BY <1>1, Numbers, AssumedConstants DEF IInv, Counted, TurnsBounded
<1> QED BY <1>1, Invariance, PTL

-----------------------------------------------------------------------------
(* What a step assumes and provides *)

\* A ticket is selected for the state that is stored, and kept for the turn.
Stepping ==
  /\ pc = "select" => work = saved /\ on = saved.current
  /\ pc \in {"turn", "archive", "finish"} => on = work.current
  /\ StepsAsAssumed

\* A step that keeps a ticket, and neither completes nor fails.
LEMMA NamedFits ==
  ASSUME work'.current # 0, on' = work'.current,
         turn'.verdict \in {"continue", "paused"}
  PROVE  StepsAsAssumed'
<1>1. TreeUnder(work.current)' = TreeUnder(on)'
  BY DEF TreeUnder, Done, NextTicket
<1>2. CommitOf(work)' \in Named
  BY DEF CommitOf, Named, Commit
<1>3. Outcome[turn'.verdict] \in {"continue", "pause", "fail"}
  BY DEF Outcome
<1>4. Result' \in StepResults(CommitOf(saved)', TreeUnder(on)')
  BY <1>1, <1>2, <1>3 DEF Result, StepResults
<1> QED BY <1>4 DEF StepsAsAssumed

\* A step that pauses before it has looked at a ticket.
LEMMA PauseFits ==
  ASSUME Typed, NEW r, Pause(r, saved), saved' = saved, on' = saved.current
  PROVE  StepsAsAssumed'
<1>1. saved \in Engines
  BY DEF Typed, RunnerTypeOK
<1>2. work' = [saved EXCEPT !.reason = r] /\ turn'.verdict = "paused"
  BY DEF Pause, Ends, NoTurn
<1>3. CommitOf(work') = CommitOf(saved)
  BY <1>1, <1>2 DEF CommitOf, Engines
<1>4. work'.current = on'
  BY <1>1, <1>2 DEF Engines
<1>5. TreeUnder(work.current)' = TreeUnder(on)'
  BY <1>4 DEF TreeUnder, Done, NextTicket
<1>6. Result' = <<"pause", CommitOf(saved)', TreeUnder(on)'>>
  BY <1>2, <1>3, <1>5 DEF Result, Outcome
<1>7. Result' \in StepResults(CommitOf(saved)', TreeUnder(on)')
  BY <1>6 DEF StepResults
<1> QED BY <1>7 DEF StepsAsAssumed

\* A pause keeps the current ticket.
LEMMA PauseNamed ==
  ASSUME NEW r, NEW s \in Engines, s.current # 0, on' = s.current, Pause(r, s)
  PROVE  StepsAsAssumed'
<1>1. work' = [s EXCEPT !.reason = r] /\ turn'.verdict = "paused"
  BY DEF Pause, Ends, NoTurn
<1>2. work'.current # 0 /\ work'.current = on'
  BY <1>1 DEF Engines
<1> QED BY <1>1, <1>2, NamedFits

LEMMA ContinueNamed ==
  ASSUME NEW s, s.current # 0, on' = s.current, Ends("continue", s)
  PROVE  StepsAsAssumed'
<1>1. work' = s /\ turn'.verdict = "continue"
  BY DEF Ends, NoTurn
<1> QED BY <1>1, NamedFits

\* Nothing is left to do: the current ticket is done in a clean worktree, or
\* there is none.
LEMMA CompleteFits ==
  ASSUME Typed, work = saved, Chosen(Reviewed(work)).current = 0,
         on' = saved.current, Ends("completed", work),
         UNCHANGED <<ticket, dirty, saved>>
  PROVE  StepsAsAssumed'
<1>1. work \in Engines
  BY DEF Typed, RunnerTypeOK
<1>2. work' = saved' /\ turn'.verdict = "completed" /\ on' = work'.current
  BY DEF Ends, NoTurn
<1>3. Reviewed(work).current = 0 /\ NextTicket = {}
  <2>1. CASE Reviewed(work).current # 0 \/ NextTicket = {}
    BY <2>1 DEF Chosen
  <2>2. CASE ~(Reviewed(work).current # 0 \/ NextTicket = {})
    <3> DEFINE f == Fresh(Reviewed(work))
    <3>1. Min(NextTicket) \in 1 .. Tickets
      BY <2>2, LeastTicket, AssumedConstants DEF NextTicket, TicketsAssumption
    <3>2. f \in Engines
      BY ReviewedCarries, FreshTyped DEF Carries
    <3>3. Chosen(Reviewed(work)) =
            [f EXCEPT !.current = Min(NextTicket), !.guard = NoGuard]
      BY <2>2 DEF Chosen
    <3> HIDE DEF f
    <3>4. Chosen(Reviewed(work)).current = Min(NextTicket)
      BY <3>2, <3>3 DEF Engines
    <3> QED BY <3>1, <3>4, AssumedConstants
  <2> QED BY <2>1, <2>2
<1>4. Result' = <<"complete", CommitOf(saved)', TreeUnder(on)'>>
  BY <1>2 DEF Result, Outcome, TreeUnder, Done, NextTicket
<1>5. CASE work.current = 0
  <2>1. CommitOf(saved)' = "unnamed" /\ TreeUnder(on)' # "open"
    BY <1>2, <1>3, <1>5 DEF CommitOf, TreeUnder, NextTicket
  <2>2. Result' \in StepResults(CommitOf(saved)', TreeUnder(on)')
    BY <1>4, <2>1 DEF StepResults
  <2> QED BY <2>2 DEF StepsAsAssumed
<1>6. CASE work.current # 0
  <2>1. Done(work.current) /\ ~dirty
    BY <1>1, <1>3, <1>6 DEF Reviewed, Engines
  <2>2. TreeUnder(on)' = "doneClean"
    BY <1>2, <1>6, <2>1 DEF TreeUnder, Done
  <2>3. Result' \in StepResults(CommitOf(saved)', TreeUnder(on)')
    BY <1>4, <2>2 DEF StepResults
  <2> QED BY <2>3 DEF StepsAsAssumed
<1> QED BY <1>5, <1>6

LEMMA SelectFits ==
  ASSUME Typed, work = saved, on = saved.current, Select
  PROVE  Stepping'
<1> DEFINE s == Chosen(Reviewed(work))
<1>1. Carries(s) /\ UNCHANGED <<ticket, dirty, saved>>
  BY ChosenCarries DEF Select, files
<1>2. CASE Exhausted(work)
  <2>1. Pause("needs_user_fix", saved) /\ on' = saved.current
    BY <1>2 DEF Select
  <2> QED BY <1>1, <2>1, PauseFits DEF Pause, Ends, Stepping
<1>3. CASE ~Exhausted(work) /\ s.current = 0
  <2>1. Ends("completed", work) /\ on' = saved.current
    BY <1>3 DEF Select
  <2> QED BY <1>1, <1>3, <2>1, CompleteFits DEF Ends, Stepping
<1>4. CASE ~Exhausted(work) /\ s.current # 0
  <2>1. Plan(s) /\ on' = s.current
    BY <1>4 DEF Select
  <2> HIDE DEF s
  <2>2. s \in Engines
    BY <1>1 DEF Carries
  <2>3. CASE \E r \in {"needs_user_fix", "infra_error"} : Pause(r, s)
    BY <1>4, <2>1, <2>2, <2>3, PauseNamed DEF Pause, Ends, Stepping
  <2>4. CASE UserTicket(s)
    BY <1>4, <2>1, <2>2, <2>4, PauseNamed, ContinueNamed
       DEF UserTicket, Pause, Ends, Stepping
  <2>5. CASE Start(s)
    <3>1. pc' = "turn" /\ work'.current = s.current
      BY <2>2, <2>5 DEF Start, Engines
    <3> QED BY <2>1, <3>1 DEF Stepping, StepsAsAssumed
  <2> QED BY <2>1, <2>3, <2>4, <2>5 DEF Plan
<1> QED BY <1>2, <1>3, <1>4

\* Setting another field leaves the current ticket.
LEMMA CurrentKept ==
  ASSUME NEW s, Carries(s)
  PROVE  /\ \A n : [s EXCEPT !.lint = n].current = s.current
         /\ \A n : [s EXCEPT !.network = n].current = s.current
         /\ \A c : [s EXCEPT !.commit = c].current = s.current
         /\ \A g : [s EXCEPT !.guard = g].current = s.current
         /\ \A n : [s EXCEPT !.dispatch_seq = n].current = s.current
BY DEF Carries, Engines

LEMMA TurnFits ==
  ASSUME Typed, on = work.current, TurnSucceeds \/ TurnFails
  PROVE  Stepping'
<1>1. CASE TurnSucceeds
  <2>1. pc' = "archive" /\ on' = on
    BY <1>1 DEF TurnSucceeds
  <2>2. work'.current = work.current
    BY <1>1 DEF TurnSucceeds, Typed, RunnerTypeOK, Engines
  <2> QED BY <2>1, <2>2 DEF Stepping, StepsAsAssumed
<1>2. CASE TurnFails
  <2>1. PICK o \in {"network", "error"} : Failed(o)
    BY <1>2 DEF TurnFails
  <2>2. work.current # 0
    BY <1>2, AssumedConstants DEF TurnFails, Typed, RunnerTypeOK
  <2>3. pc' = "save" /\ work'.current # 0 /\ work'.current = work.current
        /\ turn'.verdict \in {"continue", "paused"}
    BY <2>1, <2>2, FailedMoves DEF Turnings
  <2>4. on' = on
    BY <1>2 DEF TurnFails
  <2> QED BY <2>3, <2>4, NamedFits DEF Stepping
<1> QED BY <1>1, <1>2

LEMMA ArchiveFits ==
  ASSUME Typed, on = work.current, Archive \/ ArchiveFails
  PROVE  Stepping'
<1>1. work.current # 0 /\ work \in Engines /\ on' = on
  BY AssumedConstants DEF Archive, ArchiveFails, Typed, RunnerTypeOK
<1>2. \/ Pause("needs_user_fix", work)
      \/ /\ pc' = "finish"
         /\ \E n : work' = [work EXCEPT !.dispatch_seq = n]
  BY DEF Archive, ArchiveFails
<1>3. CASE Pause("needs_user_fix", work)
  BY <1>1, <1>3, PauseNamed DEF Pause, Ends, Stepping
<1>4. CASE pc' = "finish" /\ \E n : work' = [work EXCEPT !.dispatch_seq = n]
  <2>1. work'.current = work.current
    BY <1>1, <1>4 DEF Engines
  <2> QED BY <1>1, <1>4, <2>1 DEF Stepping, StepsAsAssumed
<1> QED BY <1>2, <1>3, <1>4

\* The done ticket is left behind in a clean worktree.
LEMMA FreshFits ==
  ASSUME NEW s, Carries(s), Done(s.current), ~dirty,
         on' = s.current, Ends("continue", Fresh(s)), UNCHANGED <<ticket, dirty>>
  PROVE  StepsAsAssumed'
<1>1. work' = Fresh(s) /\ turn'.verdict = "continue"
  BY DEF Ends, NoTurn
<1>2. work'.current = 0
  BY <1>1 DEF Fresh, Carries, Engines
<1>3. /\ CommitOf(work)' = "unnamed"
      /\ TreeUnder(work.current)' \in {"open", "doneClean"}
  BY <1>2 DEF CommitOf, TreeUnder
<1>4. TreeUnder(on)' = "doneClean"
  BY DEF TreeUnder, Done
<1>5. Result' \in StepResults(CommitOf(saved)', TreeUnder(on)')
  BY <1>1, <1>3, <1>4 DEF Result, Outcome, StepResults
<1> QED BY <1>5 DEF StepsAsAssumed

LEMMA SettleFits ==
  ASSUME NEW s, Carries(s), s.current # 0, on' = s.current, Settle(s),
         UNCHANGED <<ticket, dirty>>
  PROVE  StepsAsAssumed'
<1>1. s \in Engines
  BY DEF Carries
<1>2. CASE Pause("user_pause", s)
  BY <1>1, <1>2, PauseNamed
<1>3. CASE Done(s.current) /\ Completed(s)
  <2> DEFINE barred(n) == [s EXCEPT !.commit = Barrier(n)]
  <2>1. \A n \in Nat : barred(n) \in Engines /\ barred(n).current = s.current
    BY BarrierTyped, SettersCarry, CurrentKept DEF Carries
  <2>2. s.commit.retries + 1 \in Nat /\ 0 \in Nat
    BY <1>1 DEF Engines
  <2>3. \/ ~dirty /\ Ends("continue", Fresh(s))
        \/ \E n \in Nat : \/ Pause("needs_user_fix", barred(n))
                         \/ Ends("continue", barred(n))
    BY <1>3, <2>2 DEF Completed
  <2>4. CASE ~dirty /\ Ends("continue", Fresh(s))
    BY <1>3, <2>4, FreshFits
  <2>5. ASSUME NEW n \in Nat,
               Pause("needs_user_fix", barred(n)) \/ Ends("continue", barred(n))
        PROVE  StepsAsAssumed'
    <3> DEFINE b == barred(n)
    <3>1. b \in Engines /\ b.current # 0 /\ on' = b.current
      BY <2>1
    <3> HIDE DEF b, barred
    <3>2. Pause("needs_user_fix", b) \/ Ends("continue", b)
      BY <2>5 DEF b
    <3> QED BY <3>1, <3>2, PauseNamed, ContinueNamed
  <2> QED BY <2>3, <2>4, <2>5
<1>4. CASE Ends("continue", [s EXCEPT !.commit = NoBarrier])
  BY <1>4, CurrentKept, ContinueNamed
<1> QED BY <1>2, <1>3, <1>4 DEF Settle

LEMMA FinishFits ==
  ASSUME Typed, on = work.current, Finish
  PROVE  Stepping'
<1> DEFINE s == [work EXCEPT !.guard = Guard(work)]
<1>1. /\ Carries(s) /\ s.current # 0 /\ on' = s.current
      /\ pc' = "save" /\ UNCHANGED <<ticket, dirty>>
  <2>1. work.current # 0
    BY AssumedConstants DEF Finish, Typed, RunnerTypeOK
  <2> QED BY <2>1, GuardCarries, WorkCarries, CurrentKept, FinishMoves DEF Finish, Closes
<1>2. \/ PauseForLoop(s)
      \/ Pause("needs_user_fix", s)
      \/ Ends("continue", [s EXCEPT !.lint = @ + 1])
      \/ Settle([s EXCEPT !.lint = 0])
  BY DEF Finish
<1> HIDE DEF s
<1>3. s \in Engines
  BY <1>1 DEF Carries
<1>4. CASE PauseForLoop(s)
  <2> DEFINE filed == [s EXCEPT !.dispatch_seq = s.dispatch_seq + 1]
  <2>1. filed \in Engines /\ filed.current # 0 /\ on' = filed.current
    BY <1>1, <1>3 DEF Engines
  <2>2. Pause("loop_no_diff", s) \/ Pause("loop_no_diff", filed)
    BY <1>4 DEF PauseForLoop
  <2> HIDE DEF filed
  <2> QED BY <1>1, <1>3, <2>1, <2>2, PauseNamed DEF Stepping
<1>5. CASE Pause("needs_user_fix", s)
  BY <1>1, <1>3, <1>5, PauseNamed DEF Stepping
<1>6. CASE Ends("continue", [s EXCEPT !.lint = @ + 1])
  <2> DEFINE r == [s EXCEPT !.lint = @ + 1]
  <2>1. r.current # 0 /\ on' = r.current
    BY <1>1, <1>3 DEF Engines
  <2> HIDE DEF r
  <2>2. Ends("continue", r)
    BY <1>6 DEF r
  <2> QED BY <1>1, <2>1, <2>2, ContinueNamed DEF Stepping
<1>7. CASE Settle([s EXCEPT !.lint = 0])
  <2> DEFINE r == [s EXCEPT !.lint = 0]
  <2>1. Carries(r) /\ r.current # 0 /\ on' = r.current
    BY <1>1, WorkCarries, SettersCarry, CurrentKept
  <2> HIDE DEF r
  <2>2. Settle(r)
    BY <1>7 DEF r
  <2> QED BY <1>1, <2>1, <2>2, SettleFits DEF Stepping
<1> QED BY <1>2, <1>4, <1>5, <1>6, <1>7

LEMMA BeginFits ==
  ASSUME Typed, Begin \/ BeginFails
  PROVE  Stepping'
<1>0. saved' = saved /\ on' = saved.current
  BY DEF Begin, BeginFails
<1>1. ASSUME NEW r, Pause(r, saved) PROVE Stepping'
  BY <1>0, <1>1, PauseFits DEF Pause, Ends, Stepping
<1>2. CASE pc' = "select" /\ work' = saved
  BY <1>0, <1>2 DEF Stepping, StepsAsAssumed
<1> QED BY <1>1, <1>2 DEF Begin, BeginFails

\* What a step of the runner hands back is what FlowRecovery assumes of a step
\* that leaves its ticket as this one does: it is left behind for the next one,
\* and the run completes, only when it is done in a clean worktree
\* (flows/ticket_flow/definition.py:74, core/flows/runtime.py:383).
THEOREM StepsAsAssumedAlways == Spec => []StepsAsAssumed
<1>1. Init => Stepping
  BY DEF Init, Stepping, StepsAsAssumed
<1>2. ASSUME IInv, Stepping, [Next]_vars PROVE Stepping'
  <2>0. Typed
    BY <1>2 DEF IInv
  <2>1. CASE Begin \/ BeginFails
    BY <2>0, <2>1, BeginFits
  <2>2. CASE Select
    BY <1>2, <2>0, <2>2, SelectFits DEF Stepping, Select
  <2>3. CASE TurnSucceeds \/ TurnFails
    BY <1>2, <2>0, <2>3, TurnFits DEF Stepping, TurnSucceeds, TurnFails
  <2>4. CASE Archive \/ ArchiveFails
    BY <1>2, <2>0, <2>4, ArchiveFits DEF Stepping, Archive, ArchiveFails
  <2>5. CASE Finish
    BY <1>2, <2>0, <2>5, FinishFits DEF Stepping, Finish
  <2>6. CASE Save \/ Crash
    BY <2>6 DEF Save, Crash, Stepping, StepsAsAssumed
  <2>7. CASE Resume \/ UserMarks \/ UserTouches
    BY <2>7 DEF Resume, UserMarks, UserTouches, Resting, Stepping, StepsAsAssumed
  <2>8. CASE \/ ReplyArrives \/ ReplyMakesDir \/ ReplyCopies \/ UNCHANGED vars
    <3>1. UNCHANGED <<pc, ticket, dirty, saved, work, turn, on>>
      BY <2>8 DEF ReplyArrives, ReplyMakesDir, ReplyCopies, vars
    <3> QED
      BY <1>2, <3>1 DEF Stepping, StepsAsAssumed, Result, TreeUnder,
            NextTicket, Done
  <2> QED
    BY <1>2, <2>1, <2>2, <2>3, <2>4, <2>5, <2>6, <2>7, <2>8 DEF Next, Step, User
<1> QED BY <1>1, <1>2, Invariance, PTL DEF Spec, Stepping
=============================================================================
