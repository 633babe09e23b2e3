----------------------- MODULE ThreadDelivery_proofs -----------------------
(***************************************************************************)
(* Proofs about ThreadDelivery, for every value of its constants.          *)
(*                                                                         *)
(* An engine call does one of four things to the record: it leaves its     *)
(* lease as it is (Touched), gives up a lease that has run out (GivenUp),  *)
(* takes a lease (Taken), or answers for one (Answered).  The lemmas of    *)
(* the first part say which call does which; the proofs that the actions   *)
(* preserve the invariants use only that.  Then come who may send and how  *)
(* many copies that makes, and the refinement of OneReply.                 *)
(***************************************************************************)
EXTENDS ThreadDelivery, FiniteSetTheorems, TLAPS

RunOut(r) == r.state \in Leased /\ r.token \in lapsed
Free(r) == r.state \in Waiting \cup {"none"}

Touched(r, s) ==
  /\ s \in Row
  /\ s.token = r.token /\ s.attempts = r.attempts
  /\ \/ s.state = r.state
     \/ r.state = "none" /\ s.state = "pending"
     \/ r.state = "claimed" /\ s.state = "delivering"
  /\ r.state \in Terminal => s = r

GivenUp(r, s) ==
  /\ s \in Row
  /\ RunOut(r)
  /\ s.token = 0 /\ s.attempts = r.attempts
  /\ s.state = "abandoned" \/ (s.state = "retry_scheduled" /\ r.attempts < MaxAttempts)

Taken(r, s) ==
  /\ s \in Row
  /\ Free(r) \/ (RunOut(r) /\ r.attempts < MaxAttempts)
  /\ s.state = "claimed" /\ s.token = r.attempts + 1 /\ s.attempts = r.attempts + 1

Answered(r, outcome, s) ==
  /\ s \in Row
  /\ r.state \in Leased
  /\ s.token = 0 /\ s.attempts = r.attempts
  /\ IF outcome = "retry" \/ (outcome = "failed" /\ r.attempts < MaxAttempts)
     THEN s.state = "retry_scheduled" ELSE s.state = outcome

Called(r, s) == Touched(r, s) \/ GivenUp(r, s) \/ Taken(r, s)

\* A record as every call leaves it.
Sound(r) ==
  /\ r \in Row
  /\ r.token <= r.attempts
  /\ r.token > 0 <=> r.state \in Leased

Outcomes == {"delivered", "direct_surface_delivered", "failed", "abandoned", "retry"}

-----------------------------------------------------------------------------
(* What the engine's calls do to a record *)

LEMMA RowParts ==
  ASSUME NEW r \in Row
  PROVE  r.state \in States /\ r.token \in Nat /\ r.attempts \in Nat /\ r.due \in BOOLEAN
BY DEF Row

\* What each way to write the record does to its columns.
LEMMA EndedRow ==
  ASSUME NEW r \in Row, NEW q \in States
  PROVE  /\ Ended(r, q) \in Row
         /\ Ended(r, q).state = q
         /\ Ended(r, q).token = 0
         /\ Ended(r, q).attempts = r.attempts
BY DEF Ended, Row

LEMMA RescheduledRow ==
  ASSUME NEW r \in Row
  PROVE  /\ Rescheduled(r) \in Row
         /\ Rescheduled(r).state = "retry_scheduled"
         /\ Rescheduled(r).token = 0
         /\ Rescheduled(r).attempts = r.attempts
         /\ Rescheduled(r).due = FALSE
BY DEF Rescheduled, Row, States, Waiting

LEMMA ClaimedRow ==
  ASSUME NEW r \in Row
  PROVE  /\ Claimed(r) \in Row
         /\ Claimed(r).state = "claimed"
         /\ Claimed(r).token = r.attempts + 1
         /\ Claimed(r).attempts = r.attempts + 1
<1>1. r.attempts + 1 \in Nat BY RowParts
<1>2. \A n \in Nat : /\ [r EXCEPT !.state = "claimed", !.token = n, !.attempts = n] \in Row
                     /\ [r EXCEPT !.state = "claimed", !.token = n, !.attempts = n].state = "claimed"
                     /\ [r EXCEPT !.state = "claimed", !.token = n, !.attempts = n].token = n
                     /\ [r EXCEPT !.state = "claimed", !.token = n, !.attempts = n].attempts = n
  BY DEF Row, States, Leased
<1>3. Claimed(r) = [r EXCEPT !.state = "claimed", !.token = r.attempts + 1, !.attempts = r.attempts + 1]
  BY DEF Claimed, Row
<1> QED BY <1>1, <1>2, <1>3

\* Recovery gives up a lease that has run out and does nothing else.
LEMMA RecoveredCalls ==
  ASSUME NEW r, Sound(r)
  PROVE  /\ Recovered(r) \in Row
         /\ RunOut(r) => GivenUp(r, Recovered(r))
         /\ ~RunOut(r) => Recovered(r) = r
<1>1. CASE ~RunOut(r)
  <2>1. Plan(r) \in {"claim", "noop"} BY <1>1 DEF Plan, RunOut
  <2> QED BY <1>1, <2>1 DEF Recovered, Sound
<1>2. CASE RunOut(r)
  <2>0. r \in Row BY DEF Sound
  <2>1. r.state \notin Waiting BY <1>2 DEF RunOut, Leased, Waiting
  <2>2. CASE r.attempts >= MaxAttempts
    <3>1. Plan(r) = "abandon" BY <1>2, <2>1, <2>2 DEF Plan, RunOut
    <3>2. Recovered(r) = Ended(r, "abandoned") BY <3>1 DEF Recovered
    <3>3. "abandoned" \in States BY DEF States, Terminal
    <3> QED BY <1>2, <2>0, <3>2, <3>3, EndedRow DEF GivenUp
  <2>3. CASE ~(r.attempts >= MaxAttempts)
    <3>1. Plan(r) = "retry" BY <1>2, <2>1, <2>3 DEF Plan, RunOut
    <3>2. Recovered(r) = Rescheduled(r) BY <3>1 DEF Recovered
    <3>3. r.attempts < MaxAttempts BY <2>0, <2>3, RowParts, DeliveryAssumption
    <3> QED BY <1>2, <2>0, <3>2, <3>3, RescheduledRow DEF GivenUp
  <2> QED BY <2>2, <2>3
<1> QED BY <1>1, <1>2

\* The worker's call recovers, and claims a record that waits.
LEMMA ClaimNextCalls ==
  ASSUME NEW r, Sound(r)
  PROVE  /\ Called(r, ClaimNext(r))
         /\ ClaimNext(r).attempts > r.attempts <=> Taken(r, ClaimNext(r))
<1>1. CASE RunOut(r)
  <2>1. GivenUp(r, Recovered(r)) BY <1>1, RecoveredCalls
  <2>2. Plan(Recovered(r)) # "claim"
    <3>1. r.state \notin Waiting BY <1>1 DEF RunOut, Leased, Waiting
    <3>2. Plan(r) # "claim" BY <3>1 DEF Plan
    <3>3. CASE Plan(r) = "retry"
      <4>1. Recovered(r) = Rescheduled(r) BY <3>3 DEF Recovered
      <4> QED BY <4>1, RescheduledRow DEF Plan, Sound, Leased
    <3>4. CASE Plan(r) # "retry"
      <4>1. Plan(r) = "abandon"
        BY <1>1, <3>1, <3>2, <3>4 DEF Plan, RunOut
      <4>2. Recovered(r) = Ended(r, "abandoned") BY <4>1 DEF Recovered
      <4>3. "abandoned" \in States BY DEF States, Terminal
      <4>4. Recovered(r).state = "abandoned" BY <4>2, <4>3, EndedRow DEF Sound
      <4> QED BY <4>4 DEF Plan, Waiting, Leased
    <3> QED BY <3>3, <3>4
  <2>3. ClaimNext(r) = Recovered(r) BY <2>2 DEF ClaimNext
  <2> QED BY <2>1, <2>3, RowParts DEF Called, GivenUp, Taken, Sound
<1>2. CASE ~RunOut(r)
  <2>1. Recovered(r) = r BY <1>2, RecoveredCalls
  <2>2. CASE Plan(r) = "claim"
    <3>1. r.state \in Waiting BY <2>2 DEF Plan
    <3>2. ClaimNext(r) = Claimed(r) BY <2>1, <2>2 DEF ClaimNext
    <3>3. Taken(r, ClaimNext(r)) BY <3>1, <3>2, ClaimedRow DEF Taken, Free, Sound
    <3> QED BY <3>3, RowParts DEF Taken, Called, Sound
  <2>3. CASE Plan(r) # "claim"
    <3>1. ClaimNext(r) = r BY <2>1, <2>3 DEF ClaimNext
    <3> QED BY <3>1, RowParts DEF Touched, Called, Sound, Taken
  <2> QED BY <2>2, <2>3
<1> QED BY <1>1, <1>2

\* A record that waits and is due is claimed, one whose lease is active is not.
LEMMA ClaimDeliveryCalls ==
  ASSUME NEW r, Sound(r), ~RunOut(r)
  PROVE  /\ r.state \in Waiting /\ r.due => Taken(r, ClaimDelivery(r))
         /\ ~(r.state \in Waiting /\ r.due) => ClaimDelivery(r) = r
<1>1. CASE r.state \in Waiting /\ r.due
  <2>1. Plan(r) = "claim" BY <1>1 DEF Plan, RunOut
  <2>2. ClaimDelivery(r) = Claimed(r) BY <2>1 DEF ClaimDelivery
  <2> QED BY <1>1, <2>2, ClaimedRow DEF Taken, Free, Sound
<1>2. CASE ~(r.state \in Waiting /\ r.due)
  <2>1. Plan(r) = "noop" BY <1>2 DEF Plan, RunOut
  <2> QED BY <1>2, <2>1 DEF ClaimDelivery
<1> QED BY <1>1, <1>2

LEMMA RegisteredRow ==
  ASSUME NEW r \in Row
  PROVE  /\ RegisterIntent(r) \in Row
         /\ RegisterIntent(r).token = r.token
         /\ RegisterIntent(r).attempts = r.attempts
         /\ r.state = "none" =>
              RegisterIntent(r).state = "pending" /\ RegisterIntent(r).due
         /\ r.state # "none" => RegisterIntent(r) = r
BY DEF RegisterIntent, Row, States, Waiting

LEMMA ForcedRow ==
  ASSUME NEW r \in Row
  PROVE  /\ ForceDue(r) \in Row
         /\ ForceDue(r).token = r.token
         /\ ForceDue(r).attempts = r.attempts
         /\ ForceDue(r).state = r.state
         /\ r.state \in Waiting => ForceDue(r).due
         /\ r.state \notin Waiting => ForceDue(r) = r
BY DEF ForceDue, Row

LEMMA StartedRow ==
  ASSUME NEW r \in Row
  PROVE  /\ Started(r) \in Row
         /\ Started(r).token = r.token
         /\ Started(r).attempts = r.attempts
         /\ r.state = "claimed" => Started(r).state = "delivering"
         /\ r.state # "claimed" => Started(r) = r
BY DEF Started, Row, States, Leased

\* The hand-off of a fresh turn takes the lease of the record it registers.
LEMMA HandoffTakes ==
  ASSUME NEW r, Sound(r), r.state = "none"
  PROVE  Taken(r, ClaimDelivery(RegisterIntent(r)))
<1> DEFINE p == RegisterIntent(r)
<1>1. p.state = "pending" /\ p.due /\ p \in Row /\ p.token = r.token /\ p.attempts = r.attempts
  BY RegisteredRow DEF Sound
<1>2. Sound(p) /\ ~RunOut(p)
  BY <1>1 DEF Sound, RunOut, Leased
<1> HIDE DEF p
<1>3. Taken(p, ClaimDelivery(p)) BY <1>1, <1>2, ClaimDeliveryCalls DEF Waiting
<1> QED BY <1>1, <1>3 DEF Taken, Free, p

\* The call of the direct send leaves an ended record and an active lease alone;
\* otherwise it takes the lease or finds the attempts used up.
LEMMA EnsureCalls ==
  ASSUME NEW r, Sound(r)
  PROVE  /\ Called(r, EnsureDirect(r))
         /\ EnsureDirect(r).attempts > r.attempts <=> Taken(r, EnsureDirect(r))
         /\ LeaseActive(r) => EnsureDirect(r) = r
         /\ Called(r, ForceDue(Recovered(r)))
<1> DEFINE s == Recovered(r)
           f == ForceDue(s)
<1>1. r \in Row /\ s \in Row BY RecoveredCalls DEF Sound
<1>2. /\ f \in Row /\ f.token = s.token /\ f.attempts = s.attempts /\ f.state = s.state
      /\ s.state \in Waiting => f.due
      /\ s.state \notin Waiting => f = s
  BY <1>1, ForcedRow
<1>3. RunOut(r) => GivenUp(r, s) BY RecoveredCalls
<1>4. ~RunOut(r) => s = r BY RecoveredCalls
<1> HIDE DEF f, s
<1>5. Called(r, f)
  <2>1. CASE RunOut(r)
    BY <1>2, <1>3, <2>1 DEF Called, GivenUp
  <2>2. CASE ~RunOut(r)
    <3>1. r.state \in Terminal => f = r BY <1>2, <1>4, <2>2 DEF Terminal, Sent, Waiting
    <3> QED BY <1>2, <1>4, <2>2, <3>1 DEF Called, Touched
  <2> QED BY <2>1, <2>2
<1>6. CASE r.state \in Terminal \/ LeaseActive(r)
  <2>1. EnsureDirect(r) = r BY <1>6 DEF EnsureDirect
  <2> QED BY <1>1, <1>5, <2>1, RowParts DEF Called, Touched, Taken, f, s
<1>7. CASE ~(r.state \in Terminal \/ LeaseActive(r))
  <2>1. EnsureDirect(r) = ClaimDelivery(f) BY <1>7 DEF EnsureDirect, f, s
  <2>2. Sound(f) /\ ~RunOut(f)
    <3>1. CASE RunOut(r)
      BY <1>2, <1>3, <3>1, RowParts DEF Sound, GivenUp, RunOut, Leased
    <3>2. CASE ~RunOut(r)
      BY <1>2, <1>4, <3>2 DEF Sound, RunOut
    <3> QED BY <3>1, <3>2
  <2>3. CASE f.state \in Waiting
    <3>1. f.due BY <1>2, <2>3
    <3>2. Taken(f, ClaimDelivery(f)) BY <2>2, <2>3, <3>1, ClaimDeliveryCalls
    <3>3. Taken(r, ClaimDelivery(f))
      <4>1. CASE RunOut(r)
        BY <1>2, <1>3, <2>3, <3>2, <4>1 DEF GivenUp, Taken, Waiting
      <4>2. CASE ~RunOut(r)
        BY <1>2, <1>4, <2>3, <3>2, <4>2 DEF Taken, Free
      <4> QED BY <4>1, <4>2
    <3> QED BY <1>1, <1>5, <1>7, <2>1, <3>3, RowParts DEF Called, Taken, f, s
  <2>4. CASE f.state \notin Waiting
    <3>1. ClaimDelivery(f) = f BY <2>2, <2>4, ClaimDeliveryCalls
    <3>2. f.attempts = r.attempts
      BY <1>2, <1>3, <1>4 DEF GivenUp
    <3> QED BY <1>1, <1>5, <1>7, <2>1, <3>1, <3>2, RowParts DEF Taken, f, s
  <2> QED BY <2>3, <2>4
<1> QED BY <1>6, <1>7

\* The outcome of an attempt is heard from the holder of the lease only.
LEMMA ResultAnswers ==
  ASSUME NEW r, Sound(r), NEW token \in Nat, token > 0, NEW outcome \in Outcomes
  PROVE  /\ r.token # token => Result(r, token, outcome) = r
         /\ r.token = token => Answered(r, outcome, Result(r, token, outcome))
<1>1. CASE r.token # token
  BY <1>1 DEF Result
<1>2. CASE r.token = token
  <2> DEFINE b == Started(r)
             e == Settled(b, outcome)
  <2>1. r \in Row /\ r.state \in Leased BY <1>2 DEF Sound
  <2>2. b \in Row /\ b.attempts = r.attempts /\ b.state = "delivering"
    BY <2>1, StartedRow DEF Leased
  <2> HIDE DEF b
  <2>3. /\ e \in Row /\ e.token = 0 /\ e.attempts = r.attempts
        /\ e.state = IF outcome = "retry" \/ (outcome = "failed" /\ r.attempts < MaxAttempts)
                     THEN "retry_scheduled" ELSE outcome
    <3>1. CASE outcome = "retry" \/ (outcome = "failed" /\ r.attempts < MaxAttempts)
      <4>1. e = Rescheduled(b) BY <2>2, <3>1 DEF Settled
      <4> QED BY <2>2, <3>1, <4>1, RescheduledRow
    <3>2. CASE ~(outcome = "retry" \/ (outcome = "failed" /\ r.attempts < MaxAttempts))
      <4>1. e = Ended(b, outcome) BY <2>2, <3>2 DEF Settled
      <4>2. outcome \in States BY <3>2 DEF Outcomes, States, Terminal, Sent
      <4> QED BY <2>2, <3>2, <4>1, <4>2, EndedRow
    <3> QED BY <3>1, <3>2
  <2>4. CanMove(b.state, e.state)
    <3>1. e.state \in {"retry_scheduled", "delivered", "direct_surface_delivered",
                       "failed", "abandoned"}
      BY <2>3 DEF Outcomes
    <3> QED BY <2>2, <3>1 DEF CanMove, Allowed
  <2> HIDE DEF e
  <2>5. Result(r, token, outcome) = e BY <1>2, <2>4 DEF Result, b, e
  <2> QED BY <1>2, <2>1, <2>3, <2>5 DEF Answered
<1> QED BY <1>1, <1>2

-----------------------------------------------------------------------------
(* Types *)

\* TypeOK with what its induction needs: a token is the number of an attempt that
\* was counted, before the hand-off there is no record, and a confirmed send is
\* one of the copies.
IInv ==
  /\ TypeOK
  /\ row.token <= row.attempts
  /\ pc["turn"] = "finalized" => row.state = "none"
  /\ \A t \in Tasks : pc[t] \in Confirmed => copies > 0

Moved(s) == Called(row, s) \/ \E outcome \in Outcomes : Answered(row, outcome, s)

LEMMA SoundRow == IInv => Sound(row)
BY DEF IInv, TypeOK, Sound

LEMMA SoundMoves ==
  ASSUME IInv, NEW s, Moved(s)
  PROVE  /\ Sound(s)
         /\ row.attempts \in Nat /\ s.attempts \in Nat
         /\ row.attempts <= s.attempts
<1>1. Sound(row) /\ row \in Row BY SoundRow DEF IInv, TypeOK
<1>2. row.attempts \in Nat /\ row.token \in Nat /\ row.state \in States
  BY <1>1, RowParts
<1>3. s \in Row
  BY DEF Moved, Called, Touched, GivenUp, Taken, Answered
<1>4. s.attempts \in Nat /\ s.token \in Nat BY <1>3, RowParts
<1>5. CASE Touched(row, s)
  BY <1>1, <1>2, <1>3, <1>4, <1>5 DEF Touched, Sound, Leased, States, Terminal, Waiting, Sent
<1>6. CASE GivenUp(row, s)
  BY <1>1, <1>2, <1>3, <1>4, <1>6 DEF GivenUp, Sound, Leased
<1>7. CASE Taken(row, s)
  BY <1>1, <1>2, <1>3, <1>4, <1>7 DEF Taken, Sound, Leased
<1>8. CASE \E outcome \in Outcomes : Answered(row, outcome, s)
  BY <1>1, <1>2, <1>3, <1>4, <1>8 DEF Answered, Sound, Leased, Outcomes
<1> QED BY <1>5, <1>6, <1>7, <1>8 DEF Moved, Called

LEMMA StaysTouched == IInv => Touched(row, row)
BY DEF IInv, TypeOK, Touched

\* Wherever a call stops in the middle, the record has moved as by a call.
LEMMA MidCallCalls ==
  ASSUME IInv, NEW t \in Tasks, NEW s \in MidCall(t)
  PROVE  Called(row, s)
<1>1. Sound(row) /\ row \in Row BY SoundRow DEF IInv, TypeOK
<1>2. Touched(row, row) BY StaysTouched
<1>3. CASE pc[t] = "finalized"
  <2>1. s = row \/ s = RegisterIntent(row) BY <1>3 DEF MidCall, Sending, Confirmed
  <2>2. Touched(row, RegisterIntent(row))
    BY <1>1, RegisteredRow DEF Touched, Terminal, Sent
  <2> QED BY <1>2, <2>1, <2>2 DEF Called
<1>4. CASE pc[t] = "idle"
  <2>1. s = row \/ s = Recovered(row) BY <1>4 DEF MidCall, Sending, Confirmed
  <2> QED BY <1>1, <1>2, <2>1, RecoveredCalls DEF Called
<1>5. CASE pc[t] \in Sending
  <2>1. s = row \/ (held[t] = row.token /\ s = Started(row))
    BY <1>5 DEF MidCall, Sending, Confirmed
  <2>2. Touched(row, Started(row))
    BY <1>1, StartedRow DEF Touched, Terminal, Sent
  <2> QED BY <1>2, <2>1, <2>2 DEF Called
<1>6. CASE pc[t] = "followup"
  <2>1. \/ s = row \/ s = Recovered(row)
        \/ s = ForceDue(Recovered(row)) \/ s = EnsureDirect(row)
    BY <1>6 DEF MidCall, Sending, Confirmed
  <2> QED BY <1>1, <1>2, <2>1, RecoveredCalls, EnsureCalls DEF Called
<1>7. CASE pc[t] \notin {"finalized", "idle", "followup"} \cup Sending
  <2>1. s = row BY <1>7 DEF MidCall
  <2> QED BY <1>2, <2>1 DEF Called
<1> QED BY <1>3, <1>4, <1>5, <1>6, <1>7

\* The token a sender answers with.
LEMMA HeldParts ==
  ASSUME IInv, NEW t \in Tasks
  PROVE  /\ held[t] \in Nat /\ row.attempts \in Nat /\ held[t] <= row.attempts
         /\ pc[t] \in Sending => held[t] > 0
BY RowParts DEF IInv, TypeOK

LEMMA ResultMoves ==
  ASSUME IInv, NEW t \in Tasks, pc[t] \in Sending, NEW outcome \in Outcomes
  PROVE  /\ Moved(Result(row, held[t], outcome))
         /\ row.token # held[t] => Result(row, held[t], outcome) = row
         /\ row.token = held[t] => Answered(row, outcome, Result(row, held[t], outcome))
BY SoundRow, HeldParts, StaysTouched, ResultAnswers DEF Moved, Called

\* A sender that is left to end reports a confirmed send, and no other, as made.
LEMMA AnswersMean ==
  ASSUME NEW t \in Tasks, NEW outcome \in Answers(t)
  PROVE  /\ outcome \in Outcomes
         /\ pc[t] \in Sending
         /\ outcome \in Sent <=> pc[t] \in Confirmed
         /\ outcome = "retry" => pc[t] = "direct"
BY DEF Answers, Outcomes, Sending, Confirmed, Sent

LEMMA BackoffTouches ==
  ASSUME IInv, BackoffOver
  PROVE  Touched(row, row')
<1>1. row \in Row BY DEF IInv, TypeOK
<1>2. row' = ForceDue(row) BY DEF BackoffOver, ForceDue, Waiting
<1> QED BY <1>1, <1>2, ForcedRow DEF BackoffOver, Touched, Terminal, Sent

\* Every step moves the record as one of the calls does, or leaves it alone.
LEMMA StepMoves ==
  ASSUME IInv, [Next]_vars
  PROVE  Moved(row')
<1> USE DEF Tasks
<1>0. Moved(row) BY StaysTouched DEF Moved, Called
<1>1. \A s \in MidCall("worker") \cup MidCall("turn") : Moved(s)
  BY MidCallCalls DEF Moved
<1>2. Sound(row) /\ row \in Row BY SoundRow DEF IInv, TypeOK
<1>3. Moved(ClaimNext(row)) BY <1>2, ClaimNextCalls DEF Moved
<1>4. Moved(EnsureDirect(row)) BY <1>2, EnsureCalls DEF Moved
<1>5. pc["turn"] = "finalized" => Moved(ClaimDelivery(RegisterIntent(row)))
  BY <1>2, HandoffTakes DEF Moved, Called, IInv
<1>6. \A t \in Tasks, outcome \in Outcomes :
        pc[t] \in Sending => Moved(Result(row, held[t], outcome))
  BY ResultMoves
<1>26. \A t \in Tasks : Answers(t) \subseteq Outcomes
  BY AnswersMean
<1>27. CASE \E t \in Tasks : PlatformConfirms(t)
  BY <1>0, <1>27 DEF PlatformConfirms
<1>7. CASE WorkerTick BY <1>3, <1>7 DEF WorkerTick
<1>8. CASE WorkerSendEnds
  BY <1>6, <1>26, <1>8 DEF WorkerSendEnds, Sending, Confirmed, Outcomes
<1>9. CASE WorkerCallFails BY <1>1, <1>3, <1>9 DEF WorkerCallFails
<1>10. CASE Handoff BY <1>5, <1>10 DEF Handoff
<1>11. CASE HandoffFails BY <1>1, <1>5, <1>11 DEF HandoffFails
<1>12. CASE TurnSendEnds
  BY <1>0, <1>6, <1>26, <1>12 DEF TurnSendEnds, Sending, Confirmed
<1>13. CASE TurnRecordFails
  BY <1>1, <1>6, <1>26, <1>13 DEF TurnRecordFails, Sending, Confirmed
<1>14. CASE TurnCancelled BY <1>6, <1>14 DEF TurnCancelled, Outcomes
<1>15. CASE DirectBegin BY <1>0, <1>4, <1>15 DEF DirectBegin
<1>16. CASE DirectBeginFails BY <1>1, <1>16 DEF DirectBeginFails
<1>17. CASE DirectEnds
  BY <1>6, <1>26, <1>17 DEF DirectEnds, Sending, Confirmed
<1>18. CASE DirectRecordFails BY <1>1, <1>18 DEF DirectRecordFails
<1>19. CASE BareEnds BY <1>0, <1>19 DEF BareEnds
<1>20. CASE LeaseLapses BY <1>0, <1>20 DEF LeaseLapses
<1>21. CASE BackoffOver BY <1>21, BackoffTouches DEF Moved, Called
<1>22. CASE Crash BY <1>1, <1>22 DEF Crash
<1>23. CASE Shutdown BY <1>0, <1>6, <1>23 DEF Shutdown, Outcomes
<1>24. CASE Restart BY <1>0, <1>24 DEF Restart
<1>25. CASE UNCHANGED vars BY <1>0, <1>25 DEF vars
<1> QED BY <1>7, <1>8, <1>9, <1>10, <1>11, <1>12, <1>13, <1>14, <1>15, <1>16, <1>17,
           <1>18, <1>19, <1>20, <1>21, <1>22, <1>23, <1>24, <1>25, <1>27 DEF Next

\* The worker does nothing about a delivery that is not registered.
LEMMA WorkerWaits ==
  ASSUME IInv, row.state = "none"
  PROVE  /\ ClaimNext(row) = row
         /\ pc["worker"] \in {"idle"} \cup Sending => MidCall("worker") = {row}
         /\ \A outcome : pc["worker"] \in Sending => Result(row, held["worker"], outcome) = row
<1>1. Sound(row) /\ row \in Row BY SoundRow DEF IInv, TypeOK
<1>2. ~RunOut(row) /\ row.token = 0
  BY <1>1, RowParts DEF RunOut, Leased, Sound
<1>3. Recovered(row) = row BY <1>1, <1>2, RecoveredCalls
<1>4. ClaimNext(row) = row BY <1>3 DEF ClaimNext, Plan, Waiting, Leased
<1>5. Started(row) = row BY <1>1, StartedRow
<1>6. pc["worker"] \in {"idle"} \cup Sending => MidCall("worker") = {row}
  BY <1>3, <1>5 DEF MidCall, Sending, Confirmed
<1>7. \A outcome : pc["worker"] \in Sending => Result(row, held["worker"], outcome) = row
  BY <1>2, HeldParts DEF Result, Tasks
<1> QED BY <1>4, <1>6, <1>7

\* A token somebody holds is the number of an attempt that was counted.
LEMMA HeldGrows ==
  ASSUME IInv, [Next]_vars
  PROVE  /\ held \in [Tasks -> 0..row'.attempts]
         /\ 0 \in 0..row'.attempts
         /\ lapsed \subseteq 1..row'.attempts
         /\ row' \in Row
         /\ row'.token \in 0..row'.attempts
         /\ row'.token > 0 <=> row'.state \in Leased
<1>1. Sound(row') /\ row.attempts \in Nat /\ row'.attempts \in Nat /\ row.attempts <= row'.attempts
  BY StepMoves, SoundMoves
<1>2. 0..row.attempts \subseteq 0..row'.attempts BY <1>1
<1>3. 1..row.attempts \subseteq 1..row'.attempts BY <1>1
<1>4. row' \in Row /\ row'.token \in 0..row'.attempts
  BY <1>1, RowParts DEF Sound
<1> QED BY <1>1, <1>2, <1>3, <1>4 DEF IInv, TypeOK, Sound

LEMMA TypeStep == IInv /\ [Next]_vars => IInv'
<1> SUFFICES ASSUME IInv, [Next]_vars PROVE IInv'
  OBVIOUS
<1> DEFINE Tasked ==
      /\ pc' \in [Tasks -> TaskPC]
      /\ held' \in [Tasks -> 0..row'.attempts]
      /\ \A t \in Tasks : pc'[t] \in Sending => held'[t] > 0
      /\ pc'["turn"] = "finalized" => row'.state = "none"
    Counted ==
      /\ lapsed' \subseteq 1..row'.attempts
      /\ direct' \in BOOLEAN
      /\ seen' \in {"none", "pending", "claimed", "delivered"}
      /\ copies' \in Nat
      /\ cut' \in 0..retries'
      /\ retries' \in 0..MaxRetries /\ crashes' \in 0..MaxCrashes
      /\ faults' \in 0..MaxFaults
    Backed == \A t \in Tasks : pc'[t] \in Confirmed => copies' > 0
<1>1. Tasked
  <2> USE DEF Tasks, TaskPC, Sending, Confirmed
  <2>0. pc \in [Tasks -> TaskPC] /\ (\A t \in Tasks : pc[t] \in Sending => held[t] > 0)
        /\ (pc["turn"] = "finalized" => row.state = "none")
    BY DEF IInv, TypeOK
  <2>1. CASE WorkerTick
    <3>1. pc["turn"] = "finalized" => row' = row BY <2>0, <2>1, WorkerWaits DEF WorkerTick
    <3>2. CASE row'.attempts > row.attempts
      <4>1. row'.token > 0
        BY <2>1, <3>2, SoundRow, ClaimNextCalls, HeldGrows DEF WorkerTick, Taken, Leased
      <4> QED BY <2>0, <2>1, <3>1, <3>2, <4>1, HeldGrows DEF WorkerTick, Goes
    <3>3. CASE ~(row'.attempts > row.attempts)
      BY <2>0, <2>1, <3>1, <3>3, HeldGrows DEF WorkerTick
    <3> QED BY <3>2, <3>3
  <2>2. CASE WorkerSendEnds
    BY <2>0, <2>2, HeldGrows, WorkerWaits DEF WorkerSendEnds, Goes
  <2>3. CASE WorkerCallFails
    BY <2>0, <2>3, HeldGrows, WorkerWaits DEF WorkerCallFails, Goes
  <2>4. CASE Handoff
    <3>1. Taken(row, row') BY <2>0, <2>4, SoundRow, HandoffTakes DEF Handoff
    <3>2. row'.token > 0 BY <3>1, HeldGrows DEF Taken, Leased
    <3> QED BY <2>0, <2>4, <3>2, HeldGrows DEF Handoff, Goes
  <2>5. CASE HandoffFails
    BY <2>0, <2>5, HeldGrows DEF HandoffFails, LeavesRecord, Goes
  <2>6. CASE TurnSendEnds
    BY <2>0, <2>6, HeldGrows DEF TurnSendEnds, Goes
  <2>7. CASE TurnRecordFails
    BY <2>0, <2>7, HeldGrows DEF TurnRecordFails, LeavesRecord, Goes
  <2>8. CASE TurnCancelled
    BY <2>0, <2>8, HeldGrows DEF TurnCancelled, Goes
  <2>9. CASE DirectBegin
    <3>1. CASE pc'["turn"] = "direct"
      <4>1. row'.attempts > row.attempts \/ LeaseActive(row)
        BY <2>0, <2>9, <3>1 DEF DirectBegin, Goes
      <4>2. row' = EnsureDirect(row) /\ pc' = [pc EXCEPT !["turn"] = "direct"]
            /\ held' = [held EXCEPT !["turn"] = row'.token]
        BY <2>0, <2>9, <3>1 DEF DirectBegin, Goes
      <4>3. row'.token > 0
        <5>1. CASE row'.attempts > row.attempts
          BY <4>2, <5>1, SoundRow, EnsureCalls, HeldGrows DEF Taken, Leased
        <5>2. CASE LeaseActive(row)
          BY <4>2, <5>2, SoundRow, EnsureCalls DEF LeaseActive, Sound
        <5> QED BY <4>1, <5>1, <5>2
      <4> QED BY <2>0, <4>2, <4>3, HeldGrows
    <3>2. CASE pc'["turn"] # "direct"
      <4>1. pc' = [pc EXCEPT !["turn"] = "done"] /\ held' = [held EXCEPT !["turn"] = 0]
        BY <2>0, <2>9, <3>2 DEF DirectBegin, Goes
      <4> QED BY <2>0, <4>1, HeldGrows
    <3> QED BY <3>1, <3>2
  <2>10. CASE DirectBeginFails
    BY <2>0, <2>10, HeldGrows DEF DirectBeginFails, Goes
  <2>11. CASE DirectEnds
    BY <2>0, <2>11, HeldGrows DEF DirectEnds, Goes
  <2>12. CASE DirectRecordFails
    BY <2>0, <2>12, HeldGrows DEF DirectRecordFails, Goes
  <2>13. CASE BareEnds
    BY <2>0, <2>13, HeldGrows DEF BareEnds, Goes
  <2>14. CASE LeaseLapses
    BY <2>0, <2>14, HeldGrows DEF LeaseLapses, taskVars
  <2>15. CASE BackoffOver
    BY <2>0, <2>15, HeldGrows DEF BackoffOver, taskVars, Leased
  <2>16. CASE Crash
    BY <2>0, <2>16, HeldGrows DEF Crash, Gone
  <2>17. CASE Shutdown
    BY <2>0, <2>17, HeldGrows DEF Shutdown, Gone
  <2>18. CASE Restart
    BY <2>0, <2>18, HeldGrows DEF Restart, Goes
  <2>19. CASE \E t \in Tasks : PlatformConfirms(t)
    BY <2>0, <2>19, HeldGrows DEF PlatformConfirms
  <2>20. CASE UNCHANGED vars BY <2>0, <2>20, HeldGrows DEF vars, taskVars
  <2> QED BY <2>1, <2>2, <2>3, <2>4, <2>5, <2>6, <2>7, <2>8, <2>9, <2>10, <2>11, <2>12, <2>13, <2>14, <2>15, <2>16, <2>17, <2>18, <2>19, <2>20 DEF Next
<1>2. Counted
  <2>1. CASE WorkerTick
    BY <2>1, HeldGrows, DeliveryAssumption DEF WorkerTick, IInv, TypeOK, counters, taskVars, Fault, Counts, Cuts, Ends
  <2>2. CASE WorkerSendEnds
    BY <2>2, HeldGrows, DeliveryAssumption DEF WorkerSendEnds, IInv, TypeOK, counters, taskVars, Fault, Counts, Cuts, Ends
  <2>3. CASE WorkerCallFails
    BY <2>3, HeldGrows, DeliveryAssumption DEF WorkerCallFails, IInv, TypeOK, counters, taskVars, Fault, Counts, Cuts, Ends
  <2>4. CASE Handoff
    BY <2>4, HeldGrows, DeliveryAssumption DEF Handoff, IInv, TypeOK, counters, taskVars, Fault, Counts, Cuts, Ends
  <2>5. CASE HandoffFails
    BY <2>5, HeldGrows, DeliveryAssumption DEF HandoffFails, IInv, TypeOK, counters, taskVars, Fault, Counts, Cuts, Ends
  <2>6. CASE TurnSendEnds
    BY <2>6, HeldGrows, DeliveryAssumption DEF TurnSendEnds, IInv, TypeOK, counters, taskVars, Fault, Counts, Cuts, Ends
  <2>7. CASE TurnRecordFails
    BY <2>7, HeldGrows, DeliveryAssumption DEF TurnRecordFails, IInv, TypeOK, counters, taskVars, Fault, Counts, Cuts, Ends
  <2>8. CASE TurnCancelled
    BY <2>8, HeldGrows, DeliveryAssumption DEF TurnCancelled, IInv, TypeOK, counters, taskVars, Fault, Counts, Cuts, Ends
  <2>9. CASE DirectBegin
    BY <2>9, HeldGrows, DeliveryAssumption DEF DirectBegin, IInv, TypeOK, counters, taskVars, Fault, Counts, Cuts, Ends
  <2>10. CASE DirectBeginFails
    BY <2>10, HeldGrows, DeliveryAssumption DEF DirectBeginFails, IInv, TypeOK, counters, taskVars, Fault, Counts, Cuts, Ends
  <2>11. CASE DirectEnds
    BY <2>11, HeldGrows, DeliveryAssumption DEF DirectEnds, IInv, TypeOK, counters, taskVars, Fault, Counts, Cuts, Ends
  <2>12. CASE DirectRecordFails
    BY <2>12, HeldGrows, DeliveryAssumption DEF DirectRecordFails, IInv, TypeOK, counters, taskVars, Fault, Counts, Cuts, Ends
  <2>13. CASE BareEnds
    BY <2>13, HeldGrows, DeliveryAssumption DEF BareEnds, IInv, TypeOK, counters, taskVars, Fault, Counts, Cuts, Ends
  <2>14. CASE LeaseLapses
    <3>1. row.token \in 1..row'.attempts
      BY <2>14, HeldGrows DEF LeaseLapses, LeaseActive
    <3> QED BY <2>14, <3>1, HeldGrows DEF LeaseLapses, IInv, TypeOK, counters, taskVars
  <2>15. CASE BackoffOver
    BY <2>15, HeldGrows, DeliveryAssumption DEF BackoffOver, IInv, TypeOK, counters, taskVars, Fault, Counts, Cuts, Ends
  <2>16. CASE Crash
    BY <2>16, HeldGrows, DeliveryAssumption DEF Crash, IInv, TypeOK, counters, taskVars, Fault, Counts, Cuts, Ends
  <2>17. CASE Shutdown
    BY <2>17, HeldGrows, DeliveryAssumption DEF Shutdown, IInv, TypeOK, counters, taskVars, Fault, Counts, Cuts, Ends
  <2>18. CASE Restart
    BY <2>18, HeldGrows, DeliveryAssumption DEF Restart, IInv, TypeOK, counters, taskVars, Fault, Counts, Cuts, Ends
  <2>19. CASE \E t \in Tasks : PlatformConfirms(t)
    BY <2>19, HeldGrows DEF PlatformConfirms, IInv, TypeOK, counters
  <2>20. CASE UNCHANGED vars BY <2>20, HeldGrows DEF vars, taskVars, counters, IInv, TypeOK
  <2> QED BY <2>1, <2>2, <2>3, <2>4, <2>5, <2>6, <2>7, <2>8, <2>9, <2>10, <2>11, <2>12, <2>13, <2>14, <2>15, <2>16, <2>17, <2>18, <2>19, <2>20 DEF Next
<1>3. Backed
  <2> USE DEF Tasks, Confirmed
  <2>0. /\ pc \in [Tasks -> TaskPC] /\ copies \in Nat
        /\ \A t \in Tasks : pc[t] \in Confirmed => copies > 0
    BY DEF IInv, TypeOK
  <2>1. CASE \E t \in Tasks : PlatformConfirms(t)
    BY <2>0, <2>1 DEF PlatformConfirms
  <2>2. CASE WorkerTick \/ WorkerSendEnds \/ WorkerCallFails \/ Restart
    BY <2>0, <2>2 DEF WorkerTick, WorkerSendEnds, WorkerCallFails, Restart, Goes
  <2>3. CASE Handoff \/ HandoffFails \/ TurnSendEnds \/ TurnRecordFails \/ TurnCancelled
    BY <2>0, <2>3
    DEF Handoff, HandoffFails, TurnSendEnds, TurnRecordFails, TurnCancelled, LeavesRecord, Goes
  <2>4. CASE DirectBegin \/ DirectBeginFails \/ DirectEnds \/ DirectRecordFails \/ BareEnds
    BY <2>0, <2>4
    DEF DirectBegin, DirectBeginFails, DirectEnds, DirectRecordFails, BareEnds, Goes
  <2>5. CASE LeaseLapses \/ BackoffOver \/ UNCHANGED vars
    BY <2>0, <2>5 DEF LeaseLapses, BackoffOver, vars, taskVars
  <2>6. CASE Crash \/ Shutdown
    BY <2>0, <2>6 DEF Crash, Shutdown, Gone
  <2> QED BY <2>1, <2>2, <2>3, <2>4, <2>5, <2>6 DEF Next
<1> HIDE DEF Tasked, Counted, Backed
<1> QED BY <1>1, <1>2, <1>3, HeldGrows DEF IInv, TypeOK, Tasked, Counted, Backed

LEMMA InitTyped == Init => IInv
<1> SUFFICES ASSUME Init PROVE IInv
  OBVIOUS
<1>1. /\ row = NoRow /\ row \in Row /\ row.state = "none" /\ row.token = 0 /\ row.attempts = 0
  BY DEF Init, NoRow, Row, States
<1>2. ~(row.state \in Leased) BY <1>1 DEF Leased
<1> QED BY <1>1, <1>2, DeliveryAssumption
   DEF Init, IInv, TypeOK, Tasks, TaskPC, Sending, Confirmed

LEMMA TypedAlways == Spec => []IInv
<1>1. Init => IInv BY InitTyped
<1>2. IInv /\ [Next]_vars => IInv' BY TypeStep
<1> QED BY <1>1, <1>2, PTL DEF Spec

\* Types, and that a task which sends under a lease holds a counted attempt and
\* exactly a leased record carries a token: for any number of attempts, timeouts,
\* crashes and failed calls.
THEOREM DeliveryTyped == Spec => []TypeOK
<1>1. IInv => TypeOK BY DEF IInv
<1> QED BY <1>1, TypedAlways, PTL

-----------------------------------------------------------------------------
(* Ends *)

\* An ended delivery is not touched again, whoever reports late: no call moves a
\* record that is neither leased nor free.
THEOREM EndedStaysAlways == Spec => EndedStays
<1>1. IInv /\ [Next]_vars => [row.state \in Terminal => row' = row]_vars
  <2> SUFFICES ASSUME IInv, [Next]_vars, row.state \in Terminal PROVE row' = row
    OBVIOUS
  <2>1. row.state \notin Leased /\ ~Free(row)
    BY DEF Terminal, Sent, Leased, Free, Waiting
  <2> QED BY <2>1, StepMoves
     DEF Moved, Called, Touched, GivenUp, Taken, Answered, RunOut
<1> QED BY <1>1, TypedAlways, PTL DEF Spec, EndedStays

\* A copy is made by a confirmation or by a send without a lease, one at a time.
LEMMA StepCopies ==
  ASSUME IInv, [Next]_vars
  PROVE  /\ copies' = copies \/ copies' = copies + 1
         /\ copies' # copies => BareEnds \/ \E t \in Tasks : PlatformConfirms(t)
BY DEF Next, vars, taskVars, PlatformConfirms, WorkerTick, WorkerSendEnds,
       WorkerCallFails, Handoff, HandoffFails, TurnSendEnds, TurnRecordFails,
       TurnCancelled, DirectBegin, DirectBeginFails, DirectEnds, DirectRecordFails,
       BareEnds, LeaseLapses, BackoffOver, Crash, Shutdown, Restart

\* Only the answer of a send that was confirmed ends a record as delivered.
LEMMA CalledNotSent ==
  ASSUME NEW s, Called(row, s), s.state \in Sent
  PROVE  row.state \in Sent
BY DEF Called, Touched, GivenUp, Taken, Sent

LEMMA AnsweredNotSent ==
  ASSUME NEW s, NEW outcome, Answered(row, outcome, s), s.state \in Sent
  PROVE  outcome \in Sent
BY DEF Answered, Sent

LEMMA DeliveredStep == IInv /\ DeliveredWasSent /\ [Next]_vars => DeliveredWasSent'
<1> SUFFICES ASSUME IInv, DeliveredWasSent, [Next]_vars, row'.state \in Sent
             PROVE  copies' > 0
  BY DEF DeliveredWasSent
<1> USE DEF Tasks
<1>0. /\ copies \in Nat
      /\ row.state \in Sent => copies > 0
      /\ Called(row, row') => copies > 0
  BY CalledNotSent DEF IInv, TypeOK, DeliveredWasSent
<1>1. Sound(row) BY SoundRow
<1>2. \A s \in MidCall("worker") \cup MidCall("turn") : Called(row, s)
  BY MidCallCalls
<1>3. \A t \in Tasks : \A outcome \in Answers(t) \cup {"retry"} :
        pc[t] \in Sending /\ row' = Result(row, held[t], outcome) => copies > 0
  <2> SUFFICES ASSUME NEW t \in Tasks, NEW outcome \in Answers(t) \cup {"retry"},
                      pc[t] \in Sending, row' = Result(row, held[t], outcome)
               PROVE  copies > 0
    OBVIOUS
  <2>1. outcome \in Outcomes BY AnswersMean DEF Outcomes
  <2>2. row.state \in Sent \/ outcome \in Sent
    BY <2>1, ResultMoves, AnsweredNotSent
  <2>3. outcome \in Sent => pc[t] \in Confirmed
    BY AnswersMean DEF Sent
  <2> QED BY <1>0, <2>2, <2>3 DEF IInv
<1>4. copies' \in Nat /\ copies' >= copies
  BY <1>0, StepCopies
<1>5. copies > 0
  <2>1. CASE \E t \in Tasks : PlatformConfirms(t)
    BY <1>0, <2>1 DEF PlatformConfirms
  <2>2. CASE WorkerTick
    BY <1>0, <1>1, <2>2, ClaimNextCalls DEF WorkerTick
  <2>3. CASE WorkerSendEnds
    BY <1>3, <2>3 DEF WorkerSendEnds, Sending, Confirmed
  <2>4. CASE WorkerCallFails
    BY <1>0, <1>1, <1>2, <2>4, ClaimNextCalls DEF WorkerCallFails
  <2>5. CASE Handoff
    BY <1>0, <1>1, <2>5, HandoffTakes DEF Handoff, Called, IInv
  <2>6. CASE HandoffFails
    BY <1>0, <1>1, <1>2, <2>6, HandoffTakes DEF HandoffFails, Called, IInv
  <2>7. CASE TurnSendEnds
    BY <1>0, <1>3, <2>7 DEF TurnSendEnds, Sending, Confirmed
  <2>8. CASE TurnRecordFails
    BY <1>0, <1>2, <1>3, <2>8 DEF TurnRecordFails, Sending, Confirmed
  <2>9. CASE TurnCancelled
    BY <1>3, <2>9 DEF TurnCancelled
  <2>10. CASE DirectBegin
    BY <1>0, <1>1, <2>10, EnsureCalls DEF DirectBegin
  <2>11. CASE DirectBeginFails
    BY <1>0, <1>2, <2>11 DEF DirectBeginFails
  <2>12. CASE DirectEnds
    BY <1>3, <2>12 DEF DirectEnds, Sending, Confirmed
  <2>13. CASE DirectRecordFails
    BY <1>0, <1>2, <2>13 DEF DirectRecordFails
  <2>14. CASE BareEnds \/ LeaseLapses \/ Restart \/ UNCHANGED vars
    BY <1>0, <2>14 DEF BareEnds, LeaseLapses, Restart, vars
  <2>15. CASE BackoffOver
    BY <1>0, <2>15, BackoffTouches DEF Called
  <2>16. CASE Crash
    BY <1>0, <1>2, <2>16 DEF Crash
  <2>17. CASE Shutdown
    BY <1>0, <1>3, <2>17 DEF Shutdown
  <2> QED BY <2>1, <2>2, <2>3, <2>4, <2>5, <2>6, <2>7, <2>8, <2>9, <2>10, <2>11,
             <2>12, <2>13, <2>14, <2>15, <2>16, <2>17 DEF Next
<1> QED BY <1>0, <1>4, <1>5

\* A record that says the reply was delivered is one whose send was confirmed.
THEOREM DeliveredWasSentAlways == Spec => []DeliveredWasSent
<1>1. Init => DeliveredWasSent BY DEF Init, NoRow, DeliveredWasSent, Sent
<1>2. IInv /\ DeliveredWasSent /\ [Next]_vars => DeliveredWasSent' BY DeliveredStep
<1> QED BY <1>1, <1>2, TypedAlways, PTL DEF Spec

-----------------------------------------------------------------------------
(* The budget of attempts *)

\* A record that may be claimed has an attempt left, or a RETRY outcome paid for one.
Budget ==
  /\ row.attempts <= MaxAttempts + retries
  /\ Free(row) => row.attempts < MaxAttempts + retries

\* A call of the engine keeps the budget; an answer keeps it too, where a RETRY is
\* counted.
LEMMA CalledInBudget ==
  ASSUME IInv, Budget, NEW s, NEW n \in Nat, retries <= n,
         \/ Called(row, s)
         \/ \E outcome \in Outcomes :
              Answered(row, outcome, s) /\ (outcome = "retry" => n = retries + 1)
  PROVE  /\ s.attempts <= MaxAttempts + n
         /\ Free(s) => s.attempts < MaxAttempts + n
<1>1. /\ row.attempts \in Nat /\ s.attempts \in Nat /\ retries \in Nat
      /\ MaxAttempts \in Nat
  BY SoundMoves, DeliveryAssumption DEF Moved, IInv, TypeOK
<1>2. row.attempts < MaxAttempts => row.attempts < MaxAttempts + n
  BY <1>1
<1>3. CASE Touched(row, s)
  BY <1>1, <1>3 DEF Touched, Budget, Free, Waiting
<1>4. CASE GivenUp(row, s)
  BY <1>1, <1>2, <1>4 DEF GivenUp, Budget, Free, Waiting
<1>5. CASE Taken(row, s)
  BY <1>1, <1>2, <1>5 DEF Taken, Budget, Free, Waiting
<1>6. CASE \E outcome \in Outcomes :
             Answered(row, outcome, s) /\ (outcome = "retry" => n = retries + 1)
  BY <1>1, <1>2, <1>6 DEF Answered, Budget, Free, Waiting, Outcomes
<1> QED BY <1>3, <1>4, <1>5, <1>6 DEF Called

LEMMA BudgetStep == IInv /\ Budget /\ [Next]_vars => Budget'
<1> SUFFICES ASSUME IInv, Budget, [Next]_vars
             PROVE  Budget'
  OBVIOUS
<1> USE DEF Tasks
<1> DEFINE Paid ==
      \/ Called(row, row')
      \/ \E outcome \in Outcomes :
           Answered(row, outcome, row') /\ (outcome = "retry" => retries' = retries + 1)
<1>0. retries \in Nat /\ Touched(row, row) BY StaysTouched DEF IInv, TypeOK
<1>1. Sound(row) BY SoundRow
<1>2. \A s \in MidCall("worker") \cup MidCall("turn") : Called(row, s)
  BY MidCallCalls
<1>3. \A t \in Tasks, outcome \in Outcomes :
        /\ pc[t] \in Sending /\ row' = Result(row, held[t], outcome)
        /\ outcome = "retry" => retries' = retries + 1
        => Paid
  BY <1>0, ResultMoves DEF Called
<1>4. \A t \in Tasks : \A outcome \in Answers(t) :
        outcome \in Outcomes /\ (outcome = "retry" => pc[t] = "direct")
  BY AnswersMean
<1>6. Paid /\ retries' \in Nat /\ retries <= retries'
  <2>1. CASE WorkerTick
    BY <1>0, <2>1, <1>1, ClaimNextCalls DEF WorkerTick, counters
  <2>2. CASE WorkerSendEnds
    BY <1>0, <2>2, <1>3, <1>4 DEF WorkerSendEnds, Counts, counters, Sending, Confirmed, Outcomes
  <2>3. CASE WorkerCallFails
    BY <1>0, <2>3, <1>1, <1>2, ClaimNextCalls DEF WorkerCallFails, Fault
  <2>4. CASE Handoff
    BY <1>0, <2>4, <1>1, HandoffTakes DEF Handoff, Called, IInv, counters
  <2>5. CASE HandoffFails
    BY <1>0, <2>5, <1>1, <1>2, HandoffTakes DEF HandoffFails, Called, IInv, Fault
  <2>6. CASE TurnSendEnds
    BY <1>0, <2>6, <1>3, <1>4 DEF TurnSendEnds, Called, counters, Sending, Confirmed
  <2>7. CASE TurnRecordFails
    BY <1>0, <2>7, <1>2, <1>3, <1>4 DEF TurnRecordFails, Fault, Sending, Confirmed
  <2>8. CASE TurnCancelled
    BY <1>0, <2>8, <1>3 DEF TurnCancelled, Counts, Outcomes
  <2>9. CASE DirectBegin
    BY <1>0, <2>9, <1>1, EnsureCalls DEF DirectBegin, Called, counters
  <2>10. CASE DirectBeginFails
    BY <1>0, <2>10, <1>2 DEF DirectBeginFails, Fault
  <2>11. CASE DirectEnds
    BY <1>0, <2>11, <1>3, <1>4 DEF DirectEnds, Counts, counters, Sending, Confirmed
  <2>12. CASE DirectRecordFails
    BY <1>0, <2>12, <1>2 DEF DirectRecordFails, Fault
  <2>13. CASE BareEnds
    BY <1>0, <2>13 DEF BareEnds, Called, counters
  <2>14. CASE LeaseLapses
    BY <1>0, <2>14 DEF LeaseLapses, Called, counters
  <2>15. CASE BackoffOver
    BY <1>0, <2>15, BackoffTouches DEF BackoffOver, Called, counters
  <2>16. CASE Crash
    BY <1>0, <2>16, <1>2 DEF Crash
  <2>17. CASE Shutdown
    BY <1>0, <2>17, <1>3 DEF Shutdown, Called, Outcomes
  <2>18. CASE Restart
    BY <1>0, <2>18 DEF Restart, Called, counters
  <2>19. CASE \E t \in Tasks : PlatformConfirms(t)
    BY <1>0, <2>19 DEF PlatformConfirms, counters, Called
  <2>20. CASE UNCHANGED vars BY <1>0, <2>20 DEF vars, counters, Called
  <2> QED BY <2>1, <2>2, <2>3, <2>4, <2>5, <2>6, <2>7, <2>8, <2>9, <2>10, <2>11, <2>12, <2>13, <2>14, <2>15, <2>16, <2>17, <2>18, <2>19, <2>20 DEF Next
<1> QED BY <1>6, CalledInBudget DEF Budget

\* Beyond max_attempts a record is claimed only for RETRY outcomes: failures, lapsed
\* leases and crashes stay within the budget, however many there are.
THEOREM FailuresBoundedAlways == Spec => []FailuresBounded
<1>1. Init => Budget
  BY DeliveryAssumption DEF Init, NoRow, Budget
<1>2. IInv /\ Budget /\ [Next]_vars => Budget' BY BudgetStep
<1>3. Budget => FailuresBounded BY DEF Budget, FailuresBounded
<1> QED BY <1>1, <1>2, <1>3, TypedAlways, PTL DEF Spec

-----------------------------------------------------------------------------
(* Holders of a lease *)

\* No token is held twice, and a sender's token is the record's unless its lease has
\* run out.
Holders ==
  /\ held["worker"] = held["turn"] => held["worker"] = 0
  /\ \A t \in Tasks : pc[t] \in Sending => held[t] \in lapsed \/ held[t] = row.token

\* A call takes no lease from a sender before it has run out.
LEMMA CalledHolds ==
  ASSUME IInv, Holders, NEW s, Called(row, s), NEW t \in Tasks, pc[t] \in Sending
  PROVE  held[t] \in lapsed \/ held[t] = s.token
<1>1. Sound(row) /\ held[t] > 0 /\ row.token \in Nat /\ row.state \in States
  BY SoundRow, HeldParts, RowParts DEF Sound
<1>2. held[t] \in lapsed \/ held[t] = row.token BY DEF Holders
<1>3. Free(row) => row.token = 0
  BY <1>1 DEF Free, Sound, Leased, Waiting
<1> QED BY <1>1, <1>2, <1>3 DEF Called, Touched, GivenUp, Taken, RunOut

\* An answer takes the lease from nobody but the task that gives it.
LEMMA AnswerHolds ==
  ASSUME IInv, Holders, NEW t \in Tasks, NEW u \in Tasks, t # u,
         pc[t] \in Sending, pc[u] \in Sending, NEW outcome \in Outcomes
  PROVE  held[t] \in lapsed \/ held[t] = Result(row, held[u], outcome).token
<1>1. held[t] # held[u] BY HeldParts DEF Holders, Tasks
<1>2. held[t] \in lapsed \/ held[t] = row.token BY DEF Holders
<1>3. CASE row.token = held[u] BY <1>1, <1>2, <1>3
<1>4. CASE row.token # held[u] BY <1>2, <1>4, ResultMoves
<1> QED BY <1>3, <1>4

LEMMA FreshToken ==
  ASSUME IInv, NEW s, Taken(row, s), NEW t \in Tasks
  PROVE  s.token # held[t] /\ s.token # 0
BY HeldParts DEF Taken

LEMMA HoldersStep == IInv /\ Holders /\ [Next]_vars => Holders'
<1> SUFFICES ASSUME IInv, Holders, [Next]_vars
             PROVE  Holders'
  OBVIOUS
<1> USE DEF Tasks
<1>1. /\ pc \in [Tasks -> TaskPC] /\ held \in [Tasks -> 0..row.attempts]
      /\ held["worker"] = held["turn"] => held["worker"] = 0
      /\ \A t \in Tasks : pc[t] \in Sending => held[t] \in lapsed \/ held[t] = row.token
  BY DEF IInv, TypeOK, Holders
<1>2. Sound(row) BY SoundRow
<1>3. \A s : Called(row, s) =>
        \A t \in Tasks : pc[t] \in Sending => held[t] \in lapsed \/ held[t] = s.token
  BY CalledHolds
<1>4. \A s \in MidCall("worker") \cup MidCall("turn") : Called(row, s)
  BY MidCallCalls
<1>5. \A t \in Tasks, u \in Tasks, outcome \in Outcomes :
        t # u /\ pc[t] \in Sending /\ pc[u] \in Sending =>
          held[t] \in lapsed \/ held[t] = Result(row, held[u], outcome).token
  BY AnswerHolds
<1>6. \A s : Taken(row, s) =>
        s.token # held["worker"] /\ s.token # held["turn"] /\ s.token # 0
  BY FreshToken
<1>26. \A t \in Tasks : \A outcome \in Answers(t) \cup {"retry"} : outcome \in Outcomes
  BY AnswersMean DEF Outcomes
<1>7. CASE WorkerTick
  BY <1>1, <1>7, <1>2, <1>3, <1>6, ClaimNextCalls DEF WorkerTick, Holders, Goes, Sending, Confirmed
<1>8. CASE WorkerSendEnds
  BY <1>1, <1>8, <1>5, <1>26 DEF WorkerSendEnds, Holders, Goes, Sending, Confirmed, Outcomes
<1>9. CASE WorkerCallFails
  BY <1>1, <1>9, <1>2, <1>3, <1>4, ClaimNextCalls DEF WorkerCallFails, Holders, Goes, Sending, Confirmed
<1>10. CASE Handoff
  BY <1>1, <1>10, <1>2, <1>3, <1>6, HandoffTakes DEF Handoff, Holders, Goes, Called, IInv, Sending, Confirmed
<1>11. CASE HandoffFails
  BY <1>1, <1>11, <1>2, <1>3, <1>4, HandoffTakes DEF HandoffFails, Holders, LeavesRecord, Goes, Called, IInv, Sending, Confirmed
<1>12. CASE TurnSendEnds
  BY <1>1, <1>12, <1>5, <1>26 DEF TurnSendEnds, Holders, Goes, Sending, Confirmed, Outcomes
<1>13. CASE TurnRecordFails
  BY <1>1, <1>13, <1>3, <1>4, <1>5, <1>26 DEF TurnRecordFails, Holders, LeavesRecord, Goes, Sending, Confirmed, Outcomes
<1>14. CASE TurnCancelled
  BY <1>1, <1>14, <1>5 DEF TurnCancelled, Holders, Goes, Sending, Confirmed, Outcomes
<1>15. CASE DirectBegin
  <2>1. CASE seen = "delivered"
    BY <1>1, <1>15, <2>1 DEF DirectBegin, Goes, Sending, Confirmed, Holders
  <2>2. CASE seen # "delivered"
    <3>1. row' = EnsureDirect(row) /\ lapsed' = lapsed
      BY <1>15, <2>2 DEF DirectBegin
    <3>2. \A t \in Tasks : pc[t] \in Sending => held[t] \in lapsed \/ held[t] = row'.token
      BY <1>2, <1>3, <3>1, EnsureCalls
    <3>3. CASE row'.attempts > row.attempts
      <4>1. Taken(row, row') BY <1>2, <3>1, <3>3, EnsureCalls
      <4> QED BY <1>1, <1>6, <1>15, <2>2, <3>1, <3>2, <3>3, <4>1
         DEF DirectBegin, Goes, Sending, Confirmed, Holders
    <3>4. CASE LeaseActive(row) /\ row.token = held["turn"]
      <4>1. row' = row BY <1>2, <3>1, <3>4, EnsureCalls
      <4> QED BY <1>1, <1>15, <2>2, <3>1, <3>2, <3>4, <4>1
         DEF DirectBegin, Goes, Sending, Confirmed, Holders
    <3>5. CASE pc'["turn"] # "direct"
      <4>1. pc' = [pc EXCEPT !["turn"] = "done"] /\ held' = [held EXCEPT !["turn"] = 0]
        BY <1>1, <1>15, <2>2, <3>5 DEF DirectBegin, Goes
      <4> QED BY <1>1, <3>1, <3>2, <4>1 DEF Sending, Confirmed, Holders
    <3>6. pc'["turn"] = "direct" =>
            \/ row'.attempts > row.attempts
            \/ LeaseActive(row) /\ row.token = held["turn"]
      BY <1>1, <1>15, <2>2 DEF DirectBegin, Goes
    <3> QED BY <3>3, <3>4, <3>5, <3>6
  <2> QED BY <2>1, <2>2
<1>16. CASE DirectBeginFails
  BY <1>1, <1>16, <1>3, <1>4 DEF DirectBeginFails, Holders, Goes, Sending, Confirmed
<1>17. CASE DirectEnds
  BY <1>1, <1>17, <1>5, <1>26 DEF DirectEnds, Holders, Goes, Sending, Confirmed, Outcomes
<1>18. CASE DirectRecordFails
  BY <1>1, <1>18, <1>3, <1>4 DEF DirectRecordFails, Holders, Goes, Sending, Confirmed
<1>19. CASE BareEnds
  BY <1>1, <1>19 DEF BareEnds, Holders, Goes, Sending, Confirmed
<1>20. CASE LeaseLapses
  BY <1>1, <1>20 DEF LeaseLapses, Holders, taskVars
<1>21. CASE BackoffOver
  BY <1>1, <1>21, <1>3, BackoffTouches DEF BackoffOver, Holders, taskVars, Called
<1>22. CASE Crash
  BY <1>1, <1>22 DEF Crash, Holders, Gone, Sending, Confirmed
<1>23. CASE Shutdown
  BY <1>1, <1>23 DEF Shutdown, Holders, Gone, Sending, Confirmed
<1>24. CASE Restart
  BY <1>1, <1>24 DEF Restart, Holders, Goes, Sending, Confirmed
<1>27. CASE \E t \in Tasks : PlatformConfirms(t)
  BY <1>1, <1>27 DEF PlatformConfirms, Holders, Sending, Confirmed
<1>25. CASE UNCHANGED vars BY <1>1, <1>25 DEF vars, taskVars, Holders
<1> QED BY <1>7, <1>8, <1>9, <1>10, <1>11, <1>12, <1>13, <1>14, <1>15, <1>16, <1>17, <1>18, <1>19, <1>20, <1>21, <1>22, <1>23, <1>24, <1>25, <1>27 DEF Next

\* The worker and the turn send at the same time only after the lease of one of
\* them has run out.
THEOREM OneSenderAlways == Spec => []OneSender
<1>1. Init => Holders
  BY DEF Init, Holders, Tasks, Sending, Confirmed
<1>2. IInv /\ Holders /\ [Next]_vars => Holders' BY HoldersStep
<1>3. IInv /\ Holders => OneSender
  BY HeldParts DEF Holders, OneSender, Tasks
<1> QED BY <1>1, <1>2, <1>3, TypedAlways, PTL DEF Spec

-----------------------------------------------------------------------------
(* Copies *)

\* The sends that may still be confirmed without a new payment: one for a record that
\* can be claimed, one for each task whose send is not confirmed yet or that holds a
\* live lease to send under.
Open == IF Free(row) \/ RunOut(row) THEN 1 ELSE 0

Live(t) ==
  IF \/ pc[t] \in {"sending", "direct", "bare"}
     \/ pc[t] = "followup" /\ held[t] = row.token /\ LeaseActive(row)
  THEN 1 ELSE 0

Paid ==
  copies + Open + Live("worker") + Live("turn")
    <= 1 + Cardinality(lapsed) + faults + cut

LEMMA Units ==
  /\ Open = 0 \/ Open = 1
  /\ Open' = 0 \/ Open' = 1
  /\ \A t : (Live(t) = 0 \/ Live(t) = 1) /\ (Live(t)' = 0 \/ Live(t)' = 1)
BY DEF Open, Live

LEMMA LapsedCounts ==
  ASSUME IInv
  PROVE  IsFiniteSet(lapsed) /\ Cardinality(lapsed) \in Nat
<1>1. row.attempts \in Nat /\ lapsed \subseteq 1..row.attempts
  BY DEF IInv, TypeOK, Row
<1>2. IsFiniteSet(1..row.attempts) BY <1>1, FS_Interval
<1>3. IsFiniteSet(lapsed) BY <1>1, <1>2, FS_Subset
<1> QED BY <1>3, FS_CardinalityType

\* A call that takes the lease uses up what the record was open for.
LEMMA CalledOpen ==
  ASSUME IInv, lapsed' = lapsed, Called(row, row')
  PROVE  /\ Open' <= Open
         /\ Taken(row, row') => Open = 1 /\ Open' = 0
         /\ LeaseActive(row)' => (LeaseActive(row) /\ row'.token = row.token) \/ Taken(row, row')
<1>1. /\ Sound(row) /\ row.attempts \in Nat /\ lapsed \subseteq 1..row.attempts
      /\ row.state \in States
  BY SoundRow, HeldParts, RowParts DEF Tasks, IInv, TypeOK
<1>2. CASE Touched(row, row')
  <2>1. Free(row') <=> Free(row)
    BY <1>2 DEF Touched, Free, Waiting
  <2>2. row'.state \in Leased <=> row.state \in Leased
    BY <1>2 DEF Touched, Leased
  <2>3. row'.token = row.token BY <1>2 DEF Touched
  <2>4. ~Taken(row, row')
    BY <1>1, <1>2 DEF Touched, Taken
  <2>5. Open' = Open BY <2>1, <2>2, <2>3 DEF Open, RunOut, Free
  <2> QED BY <2>2, <2>3, <2>4, <2>5, Units DEF LeaseActive
<1>3. CASE GivenUp(row, row')
  <2>1. Open = 1 BY <1>3 DEF GivenUp, Open
  <2>2. row'.state \notin Leased BY <1>3 DEF GivenUp, Leased
  <2>3. ~Taken(row, row') BY <2>2 DEF Taken, Leased
  <2> QED BY <2>1, <2>2, <2>3, Units DEF LeaseActive
<1>4. CASE Taken(row, row')
  <2>1. Open = 1 BY <1>4 DEF Taken, Open
  <2>2. row'.token \notin lapsed BY <1>1, <1>4 DEF Taken
  <2>3. ~(row'.state \in Waiting \cup {"none"}) BY <1>4 DEF Taken, Waiting
  <2>4. Open' = 0 BY <2>2, <2>3 DEF Open, Free, RunOut
  <2> QED BY <1>4, <2>1, <2>4
<1> QED BY <1>2, <1>3, <1>4 DEF Called

\* A record that was answered for is leased to nobody, and open only when nothing was
\* confirmed.
LEMMA AnsweredOpen ==
  ASSUME lapsed' = lapsed, NEW outcome \in Outcomes, Answered(row, outcome, row')
  PROVE  /\ ~LeaseActive(row)'
         /\ outcome \in Sent => Open' = 0
<1>1. row'.state \notin Leased
  BY DEF Answered, Leased, Outcomes
<1>2. outcome \in Sent => row'.state \notin Waiting \cup {"none"}
  BY DEF Answered, Sent, Waiting
<1> QED BY <1>1, <1>2 DEF LeaseActive, Open, Free, RunOut

\* A task that does nothing while the record moves is not given a lease by it.
LEMMA OtherLive ==
  ASSUME IInv, lapsed' = lapsed, Moved(row'), NEW t \in Tasks,
         pc'[t] = pc[t], held'[t] = held[t]
  PROVE  Live(t)' <= Live(t)
<1>1. CASE LeaseActive(row)' /\ held[t] = row'.token
  <2>1. Called(row, row') BY <1>1, AnsweredOpen DEF Moved
  <2>2. ~Taken(row, row') BY <1>1, FreshToken
  <2>3. LeaseActive(row) /\ row'.token = row.token BY <1>1, <2>1, <2>2, CalledOpen
  <2>4. Live(t)' = Live(t) BY <1>1, <2>3 DEF Live
  <2> QED BY <2>4, Units
<1>2. CASE ~(LeaseActive(row)' /\ held[t] = row'.token)
  <2>1. Live(t)' = 1 => Live(t) = 1 BY <1>2 DEF Live
  <2> QED BY <2>1, Units
<1> QED BY <1>1, <1>2

\* The answer of a sender opens the record again only when its send was not
\* confirmed, or when a confirmed one is cut off.
LEMMA AnswerBalance ==
  ASSUME IInv, lapsed' = lapsed, NEW t \in Tasks, pc[t] \in Sending,
         NEW outcome \in Answers(t) \cup {"retry"},
         row' = Result(row, held[t], outcome), Cuts(t, outcome)
  PROVE  Open' + cut <= Open + Live(t) + cut' /\ cut' \in Nat
<1>1. cut \in Nat BY DEF IInv, TypeOK
<1>2. outcome \in Outcomes BY AnswersMean DEF Outcomes
<1>3. cut' = cut \/ cut' = cut + 1 BY DEF Cuts
<1>4. CASE row.token # held[t]
  <2>1. row' = row BY <1>2, <1>4, ResultMoves
  <2>2. Open' = Open BY <2>1 DEF Open, Free, RunOut
  <2> QED BY <1>1, <1>3, <2>2, Units
<1>5. CASE row.token = held[t]
  <2>1. Answered(row, outcome, row') BY <1>2, <1>5, ResultMoves
  <2>2. CASE outcome \in Sent
    <3>1. Open' = 0 BY <1>2, <2>1, <2>2, AnsweredOpen
    <3> QED BY <1>1, <1>3, <3>1, Units
  <2>3. CASE outcome \notin Sent /\ pc[t] \notin Confirmed
    <3>1. Live(t) = 1 BY <2>3 DEF Live, Sending
    <3> QED BY <1>1, <1>3, <3>1, Units
  <2>4. CASE outcome \notin Sent /\ pc[t] \in Confirmed
    <3>1. outcome = "retry" BY <2>4, AnswersMean
    <3>2. cut' = cut + 1 BY <1>5, <2>4, <3>1 DEF Cuts
    <3> QED BY <1>1, <3>2, Units
  <2> QED BY <2>2, <2>3, <2>4
<1> QED BY <1>4, <1>5

LEMMA PaidStep == IInv /\ Paid /\ [Next]_vars => Paid'
<1> SUFFICES ASSUME IInv, Paid, [Next]_vars
             PROVE  Paid'
  OBVIOUS
<1> USE DEF Tasks
<1> DEFINE W == Live("worker")
           T == Live("turn")
           Balance == copies' + Open' + W' + T' + faults + cut
                        <= copies + Open + W + T + faults' + cut'
<1>1. /\ copies \in Nat /\ faults \in Nat /\ cut \in Nat /\ row.attempts \in Nat
      /\ lapsed \subseteq 1..row.attempts
      /\ pc \in [Tasks -> TaskPC] /\ held \in [Tasks -> 0..row.attempts]
  BY HeldParts DEF IInv, TypeOK
<1>2. IsFiniteSet(lapsed) /\ Cardinality(lapsed) \in Nat
  BY LapsedCounts
<1>3. /\ (Open = 0 \/ Open = 1) /\ (Open' = 0 \/ Open' = 1)
      /\ (W = 0 \/ W = 1) /\ (W' = 0 \/ W' = 1)
      /\ (T = 0 \/ T = 1) /\ (T' = 0 \/ T' = 1)
  BY Units
<1>4. /\ pc["worker"] = "idle" => W = 0
      /\ pc["turn"] \in {"sending", "direct", "bare"} => T = 1
      /\ pc'["worker"] \in {"idle", "down"} => W' = 0
      /\ pc'["turn"] = "done" => T' = 0
  BY DEF Live
<1>5. Moved(row') BY StepMoves
<1>6. /\ lapsed' = lapsed /\ pc'["worker"] = pc["worker"] /\ held'["worker"] = held["worker"]
           => W' <= W
      /\ lapsed' = lapsed /\ pc'["turn"] = pc["turn"] /\ held'["turn"] = held["turn"]
           => T' <= T
  BY <1>5, OtherLive
<1>7. lapsed' = lapsed /\ Called(row, row') =>
        Open' <= Open /\ (Taken(row, row') => Open = 1 /\ Open' = 0)
  BY CalledOpen
<1>8. \A s \in MidCall("worker") \cup MidCall("turn") : Called(row, s)
  BY MidCallCalls
<1>9. Sound(row) /\ Touched(row, row) BY SoundRow, StaysTouched
<1>10. \A t \in Tasks : \A outcome \in Answers(t) \cup {"retry"} :
         /\ lapsed' = lapsed /\ pc[t] \in Sending
         /\ row' = Result(row, held[t], outcome) /\ Cuts(t, outcome)
         => Open' + cut <= Open + Live(t) + cut' /\ cut' \in Nat
  BY AnswerBalance
<1>11. ~LeaseActive(row) \/ row.token > 0
  BY <1>9 DEF LeaseActive, Sound
<1>12. \A t \in Tasks : \A outcome \in Answers(t) :
         outcome = "retry" => pc[t] = "direct"
  BY AnswersMean
<1>13. CASE ~LeaseLapses
  <2>0. copies' \in Nat /\ faults' \in Nat /\ cut' \in Nat
    <3>1. IInv' BY TypeStep
    <3> QED BY <3>1, DeliveryAssumption DEF IInv, TypeOK
  <2> SUFFICES Balance /\ lapsed' = lapsed
    <3>1. copies + Open + W + T <= 1 + Cardinality(lapsed) + faults + cut BY DEF Paid
    <3>2. ASSUME Balance, lapsed' = lapsed
          PROVE  copies' + Open' + W' + T' <= 1 + Cardinality(lapsed') + faults' + cut'
      <4>1. Cardinality(lapsed') = Cardinality(lapsed) BY <3>2
      <4> HIDE DEF W, T
      <4> QED BY <1>1, <1>2, <1>3, <2>0, <3>1, <3>2, <4>1
    <3> QED BY <3>2 DEF Paid
  <2>1. CASE WorkerTick
    <3>1. row' = ClaimNext(row) /\ Called(row, row') /\ lapsed' = lapsed /\ W = 0 /\ T' <= T
          /\ copies' = copies /\ faults' = faults /\ cut' = cut
      BY <1>1, <1>4, <1>6, <1>9, ClaimNextCalls, <2>1 DEF WorkerTick, Goes, counters
    <3> HIDE DEF W, T
    <3>2. CASE row'.attempts > row.attempts
      <4>1. Taken(row, row') BY <1>9, <3>1, <3>2, ClaimNextCalls
      <4> QED BY <1>1, <1>3, <1>7, <3>1, <4>1
    <3>3. CASE ~(row'.attempts > row.attempts)
      <4>1. W' <= W BY <1>6, <3>1, <3>3, <2>1 DEF WorkerTick
      <4> QED BY <1>1, <1>3, <1>7, <3>1, <4>1
    <3> QED BY <3>2, <3>3
  <2>2. CASE WorkerSendEnds
    <3>1. W' = 0 /\ T' <= T /\ faults' = faults /\ copies' = copies /\ lapsed' = lapsed
      BY <1>1, <1>4, <1>6, <2>2 DEF WorkerSendEnds, Goes, Counts, counters
    <3>2. Open' + cut <= Open + W + cut'
      BY <1>10, <2>2 DEF WorkerSendEnds, Sending, Confirmed
    <3> HIDE DEF W, T
    <3> QED BY <1>1, <1>3, <2>0, <3>1, <3>2
  <2>3. CASE WorkerCallFails
    <3>1. lapsed' = lapsed /\ faults' = faults + 1 /\ Called(row, row') /\ T' <= T
          /\ copies' = copies /\ cut' = cut
      BY <1>1, <1>6, <1>8, <1>9, ClaimNextCalls, <2>3 DEF WorkerCallFails, Fault, Goes
    <3> HIDE DEF W, T
    <3> QED BY <1>1, <1>3, <1>7, <3>1
  <2>4. CASE Handoff
    <3>1. Taken(row, row') /\ lapsed' = lapsed /\ W' <= W /\ copies' = copies
          /\ faults' = faults /\ cut' = cut
      BY <1>1, <1>6, <1>9, HandoffTakes, <2>4 DEF Handoff, IInv, Goes, counters
    <3> HIDE DEF W, T
    <3> QED BY <1>1, <1>3, <1>7, <3>1 DEF Called
  <2>5. CASE HandoffFails
    <3>1. Called(row, row') /\ lapsed' = lapsed /\ W' <= W /\ copies' = copies
          /\ faults' = faults + 1 /\ cut' = cut
      BY <1>1, <1>6, <1>8, <1>9, HandoffTakes, <2>5
         DEF HandoffFails, IInv, LeavesRecord, Goes, Fault, Called
    <3> HIDE DEF W, T
    <3> QED BY <1>1, <1>3, <1>7, <3>1
  <2>6. CASE TurnSendEnds
    <3>1. lapsed' = lapsed /\ W' <= W /\ faults' = faults /\ copies' = copies /\ cut' = cut
      BY <1>1, <1>6, <2>6 DEF TurnSendEnds, Goes, counters
    <3>2. PICK outcome \in Answers("turn") :
            IF direct /\ outcome # "delivered"
            THEN row' = row
            ELSE /\ row' = Result(row, held["turn"], outcome)
                 /\ Goes("turn", IF direct THEN "followup" ELSE "done", 0)
      BY <2>6 DEF TurnSendEnds
    <3>3. CASE direct /\ outcome # "delivered"
      <4>1. pc["turn"] = "sending" BY <3>2, <3>3, <2>6 DEF Answers, TurnSendEnds
      <4>2. row' = row /\ T = 1 BY <1>4, <3>2, <3>3, <4>1
      <4> HIDE DEF W, T
      <4> QED BY <1>1, <1>3, <1>7, <1>9, <3>1, <4>2 DEF Called
    <3>4. CASE ~(direct /\ outcome # "delivered")
      <4>1. Cuts("turn", outcome)
        BY <1>12, <3>1, <3>2, <2>6 DEF TurnSendEnds, Cuts
      <4>2. Open' + cut <= Open + T + cut'
        BY <1>10, <3>1, <3>2, <3>4, <4>1, <2>6 DEF TurnSendEnds, Sending, Confirmed
      <4>3. pc'["turn"] \in {"followup", "done"} /\ held'["turn"] = 0
        BY <1>1, <3>2, <3>4 DEF Goes
      <4>4. T' = 0
        <5>1. LeaseActive(row)' => row'.token # 0
          BY HeldGrows DEF LeaseActive
        <5> QED BY <4>3, <5>1 DEF Live
      <4> HIDE DEF W, T
      <4> QED BY <1>1, <1>3, <3>1, <4>2, <4>4
    <3> QED BY <3>3, <3>4
  <2>7. CASE TurnRecordFails
    <3>1. lapsed' = lapsed /\ W' <= W /\ faults' = faults + 1 /\ copies' = copies /\ cut' = cut
      BY <1>1, <1>6, <2>7 DEF TurnRecordFails, LeavesRecord, Goes, Fault
    <3>2. PICK outcome \in Answers("turn") :
            row' \in MidCall("turn") \cup {Result(row, held["turn"], outcome)}
      BY <2>7 DEF TurnRecordFails
    <3>3. Open' <= Open + T
      <4>1. CASE row' \in MidCall("turn")
        <5> HIDE DEF W, T
        <5> QED BY <1>1, <1>3, <1>7, <1>8, <3>1, <4>1
      <4>2. CASE row' = Result(row, held["turn"], outcome)
        <5>1. Cuts("turn", outcome)
          BY <1>12, <3>1, <3>2, <2>7 DEF TurnRecordFails, Cuts
        <5>2. Open' + cut <= Open + T + cut'
          BY <1>10, <3>1, <3>2, <4>2, <5>1, <2>7 DEF TurnRecordFails, Sending, Confirmed
        <5> HIDE DEF W, T
        <5> QED BY <1>1, <1>3, <3>1, <5>2
      <4> QED BY <3>2, <4>1, <4>2
    <3> HIDE DEF W, T
    <3> QED BY <1>1, <1>3, <3>1, <3>3
  <2>8. CASE TurnCancelled
    <3>1. lapsed' = lapsed /\ W' <= W /\ faults' = faults /\ T' = 0 /\ copies' = copies
      BY <1>1, <1>4, <1>6, <2>8 DEF TurnCancelled, Goes, Counts, counters
    <3>2. Open' + cut <= Open + T + cut'
      BY <1>10, <3>1, <2>8 DEF TurnCancelled
    <3> HIDE DEF W, T
    <3> QED BY <1>1, <1>3, <2>0, <3>1, <3>2
  <2>9. CASE DirectBegin
    <3>1. lapsed' = lapsed /\ W' <= W /\ faults' = faults /\ copies' = copies /\ cut' = cut
      BY <1>1, <1>6, <2>9 DEF DirectBegin, Goes, counters
    <3>2. CASE pc'["turn"] # "direct"
      <4>1. T' = 0 BY <1>1, <1>4, <3>2, <2>9 DEF DirectBegin, Goes
      <4>2. row' = row \/ row' = EnsureDirect(row) BY <2>9 DEF DirectBegin
      <4>3. Called(row, row') BY <1>9, <4>2, EnsureCalls DEF Called
      <4> HIDE DEF W, T
      <4> QED BY <1>1, <1>3, <1>7, <3>1, <4>1, <4>3
    <3>3. CASE pc'["turn"] = "direct"
      <4>1. /\ row' = EnsureDirect(row)
            /\ \/ row'.attempts > row.attempts
               \/ LeaseActive(row) /\ row.token = held["turn"]
        BY <1>1, <3>3, <2>9 DEF DirectBegin, Goes
      <4>2. CASE row'.attempts > row.attempts
        <5>1. Taken(row, row') BY <1>9, <4>1, <4>2, EnsureCalls
        <5> HIDE DEF W, T
        <5> QED BY <1>1, <1>3, <1>7, <3>1, <5>1 DEF Called
      <4>3. CASE LeaseActive(row) /\ row.token = held["turn"]
        <5>1. row' = row BY <1>9, <4>1, <4>3, EnsureCalls
        <5>2. T = 1 BY <4>3, <2>9 DEF DirectBegin, Live
        <5> HIDE DEF W, T
        <5> QED BY <1>1, <1>3, <1>7, <1>9, <3>1, <5>1, <5>2 DEF Called
      <4> QED BY <4>1, <4>2, <4>3
    <3> QED BY <3>2, <3>3
  <2>10. CASE DirectBeginFails
    <3>1. lapsed' = lapsed /\ W' <= W /\ faults' = faults + 1 /\ copies' = copies
          /\ cut' = cut /\ Called(row, row')
      BY <1>1, <1>6, <1>8, <2>10 DEF DirectBeginFails, Goes, Fault
    <3> HIDE DEF W, T
    <3> QED BY <1>1, <1>3, <1>7, <3>1
  <2>11. CASE DirectEnds
    <3>1. lapsed' = lapsed /\ W' <= W /\ faults' = faults /\ copies' = copies /\ T' = 0
      BY <1>1, <1>4, <1>6, <2>11 DEF DirectEnds, Goes, Counts, counters
    <3>2. Open' + cut <= Open + T + cut'
      BY <1>10, <3>1, <2>11 DEF DirectEnds, Sending, Confirmed
    <3> HIDE DEF W, T
    <3> QED BY <1>1, <1>3, <2>0, <3>1, <3>2
  <2>12. CASE DirectRecordFails
    <3>1. lapsed' = lapsed /\ W' <= W /\ faults' = faults + 1 /\ T' = 0
          /\ Called(row, row') /\ copies' = copies /\ cut' = cut
      BY <1>1, <1>4, <1>6, <1>8, <2>12 DEF DirectRecordFails, Goes, Fault
    <3> HIDE DEF W, T
    <3> QED BY <1>1, <1>3, <1>7, <3>1
  <2>13. CASE BareEnds
    <3>1. lapsed' = lapsed /\ W' <= W /\ faults' = faults /\ T = 1 /\ T' = 0 /\ row' = row
          /\ copies' <= copies + 1 /\ cut' = cut
      BY <1>1, <1>4, <1>6, <2>13 DEF BareEnds, Goes, counters
    <3> HIDE DEF W, T
    <3> QED BY <1>1, <1>3, <1>7, <1>9, <2>0, <3>1 DEF Called
  <2>14. CASE BackoffOver
    <3>1. lapsed' = lapsed /\ W' <= W /\ T' <= T /\ faults' = faults /\ copies' = copies
          /\ cut' = cut /\ Called(row, row')
      BY <1>6, BackoffTouches, <2>14 DEF BackoffOver, taskVars, counters, Called
    <3> HIDE DEF W, T
    <3> QED BY <1>1, <1>3, <1>7, <3>1
  <2>15. CASE Crash
    <3>1. lapsed' = lapsed /\ W' = 0 /\ T' = 0 /\ faults' = faults /\ copies' = copies
          /\ cut' = cut /\ Called(row, row')
      BY <1>4, <1>8, <2>15 DEF Crash, Gone
    <3> HIDE DEF W, T
    <3> QED BY <1>1, <1>3, <1>7, <3>1
  <2>16. CASE Shutdown
    <3>1. lapsed' = lapsed /\ W' = 0 /\ T' = 0 /\ faults' = faults /\ copies' = copies
      BY <1>4, <2>16 DEF Shutdown, Gone
    <3>2. \/ \E t \in Tasks : Open' + cut <= Open + Live(t) + cut'
          \/ row' = row /\ cut' = cut
      BY <1>10, <3>1, <2>16 DEF Shutdown
    <3>3. \/ Open' + cut <= Open + W + cut'
          \/ Open' + cut <= Open + T + cut'
          \/ row' = row /\ cut' = cut
      BY <3>2
    <3> HIDE DEF W, T
    <3> QED BY <1>1, <1>3, <1>7, <1>9, <2>0, <3>1, <3>3 DEF Called
  <2>17. CASE Restart
    <3>1. lapsed' = lapsed /\ T' <= T /\ W' = 0 /\ faults' = faults /\ copies' = copies
          /\ cut' = cut /\ row' = row
      BY <1>1, <1>4, <1>6, <2>17 DEF Restart, Goes, counters
    <3> HIDE DEF W, T
    <3> QED BY <1>1, <1>3, <1>7, <1>9, <3>1 DEF Called
  <2>18. CASE \E t \in Tasks : PlatformConfirms(t)
    <3>1. lapsed' = lapsed /\ faults' = faults /\ copies' = copies + 1 /\ cut' = cut
          /\ row' = row
      BY <2>18 DEF PlatformConfirms, counters
    <3>2. \/ W = 1 /\ W' = 0 /\ T' <= T
          \/ T = 1 /\ T' = 0 /\ W' <= W
      <4>1. CASE PlatformConfirms("worker")
        BY <1>1, <1>6, <3>1, <4>1 DEF PlatformConfirms, Live
      <4>2. CASE PlatformConfirms("turn")
        BY <1>1, <1>6, <3>1, <4>2 DEF PlatformConfirms, Live
      <4> QED BY <2>18, <4>1, <4>2
    <3> HIDE DEF W, T
    <3> QED BY <1>1, <1>3, <1>7, <1>9, <3>1, <3>2 DEF Called
  <2>19. CASE UNCHANGED vars
    <3>1. lapsed' = lapsed /\ W' <= W /\ T' <= T /\ faults' = faults /\ copies' = copies
          /\ cut' = cut /\ row' = row
      BY <1>6, <2>19 DEF vars, taskVars, counters
    <3> HIDE DEF W, T
    <3> QED BY <1>1, <1>3, <1>7, <1>9, <3>1 DEF Called
  <2> QED BY <1>13, <2>1, <2>2, <2>3, <2>4, <2>5, <2>6, <2>7, <2>8, <2>9, <2>10, <2>11, <2>12, <2>13, <2>14, <2>15, <2>16, <2>17, <2>18, <2>19 DEF Next
<1>14. CASE LeaseLapses
  <2>1. /\ lapsed' = lapsed \cup {row.token} /\ row.token \notin lapsed
        /\ row' = row /\ pc' = pc /\ held' = held /\ copies' = copies
        /\ faults' = faults /\ cut' = cut
    BY <1>14 DEF LeaseLapses, LeaseActive, taskVars, counters
  <2>2. Cardinality(lapsed') = Cardinality(lapsed) + 1
    BY <1>2, <2>1, FS_AddElement
  <2>3. ~LeaseActive(row)' BY <2>1 DEF LeaseActive
  <2>4. \A t : Live(t)' = 1 => Live(t) = 1
    BY <2>1, <2>3 DEF Live
  <2>5. W' <= W /\ T' <= T BY <1>3, <2>4
  <2>6. copies + Open + W + T <= 1 + Cardinality(lapsed) + faults + cut BY DEF Paid
  <2>7. copies' + Open' + W' + T' <= 1 + Cardinality(lapsed') + faults' + cut'
    <3> HIDE DEF W, T
    <3> QED BY <1>1, <1>2, <1>3, <2>1, <2>2, <2>5, <2>6
  <2> QED BY <2>7 DEF Paid
<1> QED BY <1>13, <1>14

\* Every copy after the first is paid for by a lease that ran out, by an engine call
\* that raised or by a confirmed send that was recorded as a RETRY because it was
\* timed out or cancelled in its cleanup.
THEOREM CopiesPaidForAlways == Spec => []CopiesPaidFor
<1>1. Init => Paid
  BY FS_EmptySet DEF Init, NoRow, Paid, Open, Free, Waiting, Live, RunOut, Leased
<1>2. IInv /\ Paid /\ [Next]_vars => Paid' BY PaidStep
<1>3. IInv /\ Paid => CopiesPaidFor
  <2> SUFFICES ASSUME IInv, Paid PROVE CopiesPaidFor
    OBVIOUS
  <2>1. copies \in Nat /\ faults \in Nat /\ cut \in Nat BY DEF IInv, TypeOK
  <2>2. Cardinality(lapsed) \in Nat BY LapsedCounts
  <2>3. /\ Open = 0 \/ Open = 1
        /\ Live("worker") = 0 \/ Live("worker") = 1
        /\ Live("turn") = 0 \/ Live("turn") = 1
    BY DEF Open, Live
  <2> QED BY <2>1, <2>2, <2>3 DEF Paid, CopiesPaidFor
<1> QED BY <1>1, <1>2, <1>3, TypedAlways, PTL DEF Spec

-----------------------------------------------------------------------------
(* The promise of OneReply *)

\* An engine call registers the reply, gives it up or leaves it where it is.
LEMMA CalledPhase ==
  ASSUME Called(row, row')
  PROVE  \/ Phase' = Phase
         \/ Phase = "none" /\ Phase' = "open"
         \/ Phase = "open" /\ Phase' = "lost"
<1>1. CASE Touched(row, row')
  BY <1>1 DEF Touched, Phase, Terminal, Sent
<1>2. CASE GivenUp(row, row')
  <2>1. Phase = "open" BY <1>2 DEF GivenUp, RunOut, Leased, Phase, Terminal, Sent
  <2>2. Phase' = "open" \/ Phase' = "lost"
    BY <1>2 DEF GivenUp, Phase, Terminal, Sent
  <2> QED BY <2>1, <2>2
<1>3. CASE Taken(row, row')
  <2>1. Phase = "none" \/ Phase = "open"
    BY <1>3 DEF Taken, Free, Waiting, RunOut, Leased, Phase, Terminal, Sent
  <2>2. Phase' = "open" BY <1>3 DEF Taken, Phase, Terminal, Sent
  <2> QED BY <2>1, <2>2
<1> QED BY <1>1, <1>2, <1>3 DEF Called

\* An answer delivers the reply, gives it up or leaves it open.
LEMMA AnsweredPhase ==
  ASSUME NEW outcome \in Outcomes, Answered(row, outcome, row')
  PROVE  /\ Phase = "open"
         /\ outcome \in Sent => Phase' = "delivered"
         /\ outcome \notin Sent => Phase' = "open" \/ Phase' = "lost"
<1>1. Phase = "open" BY DEF Answered, Leased, Phase, Terminal, Sent
<1>2. outcome \in Sent => Phase' = "delivered"
  BY DEF Answered, Phase, Sent
<1>3. outcome \notin Sent => row'.state \in {"retry_scheduled", "failed", "abandoned"}
  BY DEF Answered, Outcomes, Sent
<1>4. outcome \notin Sent => Phase' = "open" \/ Phase' = "lost"
  BY <1>3 DEF Phase, Terminal, Sent
<1> QED BY <1>1, <1>2, <1>4

\* What a step does to the reply: the record is called and no send is confirmed, a
\* send is confirmed, or the record hears the outcome of one.
Silent == Called(row, row') /\ copies' = copies
Confirming == Phase' = Phase /\ copies' = copies + 1
Heard ==
  /\ copies' = copies
  /\ \E outcome \in Outcomes :
       Answered(row, outcome, row') /\ (outcome \in Sent => copies > 0)

ReplyMoves == Silent \/ Confirming \/ Heard

\* A step gives at most one more excuse.
Excuses ==
  \/ faults' = faults /\ cut' \in {cut, cut + 1}
  \/ faults' = faults + 1 /\ cut' = cut

LEMMA ResultReply ==
  ASSUME IInv, NEW t \in Tasks, pc[t] \in Sending,
         NEW outcome \in Answers(t) \cup {"retry"},
         row' = Result(row, held[t], outcome), copies' = copies
  PROVE  ReplyMoves
<1>0. outcome \in Outcomes BY AnswersMean DEF Outcomes
<1>1. CASE row.token = held[t]
  <2>1. Answered(row, outcome, row') BY <1>0, <1>1, ResultMoves
  <2>2. outcome \in Sent => copies > 0
    BY AnswersMean DEF IInv, Sent
  <2> QED BY <1>0, <2>1, <2>2 DEF ReplyMoves, Heard
<1>2. CASE row.token # held[t]
  <2>1. row' = row BY <1>0, <1>2, ResultMoves
  <2>2. Called(row, row') BY <2>1, StaysTouched DEF Called
  <2> QED BY <2>2 DEF ReplyMoves, Silent
<1> QED BY <1>1, <1>2

\* Every step but the lapse of a lease moves the reply in one of those ways.
LEMMA StepReply ==
  ASSUME IInv, [Next]_vars, ~LeaseLapses
  PROVE  ReplyMoves /\ lapsed' = lapsed /\ Excuses
<1> USE DEF Tasks
<1>1. Sound(row) /\ Called(row, row) BY SoundRow, StaysTouched DEF Called
<1>2. \A s \in MidCall("worker") \cup MidCall("turn") : Called(row, s)
  BY MidCallCalls
<1>3. Called(row, ClaimNext(row)) /\ Called(row, EnsureDirect(row))
  BY <1>1, ClaimNextCalls, EnsureCalls
<1>4. pc["turn"] = "finalized" => Called(row, ClaimDelivery(RegisterIntent(row)))
  BY <1>1, HandoffTakes DEF Called, IInv
<1>5. \A t \in Tasks : \A outcome \in Answers(t) \cup {"retry"} :
        /\ pc[t] \in Sending /\ row' = Result(row, held[t], outcome)
        /\ copies' = copies
        => ReplyMoves
  BY ResultReply
<1>6. \A t \in Tasks : \A outcome : Cuts(t, outcome) => cut' \in {cut, cut + 1}
  BY DEF Cuts
<1>7. row' = row => Phase' = Phase
  BY DEF Phase
<1>8. CASE \E t \in Tasks : PlatformConfirms(t)
  BY <1>7, <1>8 DEF PlatformConfirms, counters, ReplyMoves, Confirming, Excuses
<1>9. CASE WorkerTick
  BY <1>3, <1>9 DEF WorkerTick, counters, ReplyMoves, Silent, Excuses
<1>10. CASE WorkerSendEnds
  BY <1>5, <1>6, <1>10 DEF WorkerSendEnds, Counts, counters, Sending, Confirmed, Excuses
<1>11. CASE WorkerCallFails
  BY <1>2, <1>3, <1>11 DEF WorkerCallFails, Fault, ReplyMoves, Silent, Excuses
<1>12. CASE Handoff
  BY <1>4, <1>12 DEF Handoff, counters, ReplyMoves, Silent, Excuses
<1>13. CASE HandoffFails
  BY <1>2, <1>4, <1>13 DEF HandoffFails, Fault, ReplyMoves, Silent, Excuses
<1>14. CASE TurnSendEnds
  <2>1. lapsed' = lapsed /\ copies' = copies /\ Excuses
    BY <1>14 DEF TurnSendEnds, counters, Excuses
  <2>2. PICK outcome \in Answers("turn") :
          row' = row \/ row' = Result(row, held["turn"], outcome)
    BY <1>14 DEF TurnSendEnds
  <2>3. CASE row' = row
    BY <1>1, <2>1, <2>3 DEF ReplyMoves, Silent
  <2>4. CASE row' = Result(row, held["turn"], outcome)
    BY <1>5, <1>14, <2>1, <2>4 DEF TurnSendEnds, Sending, Confirmed
  <2> QED BY <2>1, <2>2, <2>3, <2>4
<1>15. CASE TurnRecordFails
  <2>1. lapsed' = lapsed /\ copies' = copies /\ Excuses
    BY <1>15 DEF TurnRecordFails, Fault, Excuses
  <2>2. PICK outcome \in Answers("turn") :
          row' \in MidCall("turn") \cup {Result(row, held["turn"], outcome)}
    BY <1>15 DEF TurnRecordFails
  <2>3. CASE row' \in MidCall("turn")
    BY <1>2, <2>1, <2>3 DEF ReplyMoves, Silent
  <2>4. CASE row' = Result(row, held["turn"], outcome)
    BY <1>5, <1>15, <2>1, <2>4 DEF TurnRecordFails, Sending, Confirmed
  <2> QED BY <2>1, <2>2, <2>3, <2>4
<1>16. CASE TurnCancelled
  BY <1>5, <1>6, <1>16 DEF TurnCancelled, Counts, counters, Excuses
<1>17. CASE DirectBegin
  BY <1>1, <1>3, <1>17 DEF DirectBegin, counters, ReplyMoves, Silent, Excuses
<1>18. CASE DirectBeginFails
  BY <1>2, <1>18 DEF DirectBeginFails, Fault, ReplyMoves, Silent, Excuses
<1>19. CASE DirectEnds
  BY <1>5, <1>6, <1>19 DEF DirectEnds, Counts, counters, Sending, Confirmed, Excuses
<1>20. CASE DirectRecordFails
  BY <1>2, <1>20 DEF DirectRecordFails, Fault, ReplyMoves, Silent, Excuses
<1>21. CASE BareEnds
  BY <1>1, <1>7, <1>21 DEF BareEnds, counters, ReplyMoves, Silent, Confirming, Excuses
<1>22. CASE BackoffOver
  BY <1>22, BackoffTouches DEF BackoffOver, counters, Called, ReplyMoves, Silent, Excuses
<1>23. CASE Crash
  BY <1>2, <1>23 DEF Crash, ReplyMoves, Silent, Excuses
<1>24. CASE Shutdown
  BY <1>1, <1>5, <1>6, <1>24 DEF Shutdown, ReplyMoves, Silent, Excuses
<1>25. CASE Restart
  BY <1>1, <1>25 DEF Restart, counters, ReplyMoves, Silent, Excuses
<1>26. CASE UNCHANGED vars
  BY <1>1, <1>26 DEF vars, counters, ReplyMoves, Silent, Excuses
<1> QED BY <1>8, <1>9, <1>10, <1>11, <1>12, <1>13, <1>14, <1>15, <1>16, <1>17, <1>18, <1>19,
           <1>20, <1>21, <1>22, <1>23, <1>24, <1>25, <1>26 DEF Next

\* Every step of the delivery is a step of the promise, or none.
LEMMA PromiseStep ==
  ASSUME IInv, [Next]_vars, CopiesPaidFor'
  PROVE  [Promise!Next]_(Promise!vars)
<1> DEFINE E == Cardinality(lapsed) + faults + cut
<1>1. /\ E \in Nat /\ Cardinality(lapsed) \in Nat /\ faults \in Nat /\ cut \in Nat
      /\ copies \in Nat
  BY LapsedCounts DEF IInv, TypeOK
<1>2. CASE LeaseLapses
  <2>1. /\ lapsed' = lapsed \cup {row.token} /\ row.token \notin lapsed
        /\ row' = row /\ copies' = copies /\ faults' = faults /\ cut' = cut
    BY <1>2 DEF LeaseLapses, LeaseActive, counters
  <2>2. Cardinality(lapsed') = Cardinality(lapsed) + 1
    BY <2>1, LapsedCounts, FS_AddElement
  <2>3. Phase' = Phase BY <2>1 DEF Phase
  <2>4. E' = E + 1 BY <1>1, <2>1, <2>2
  <2> QED BY <2>1, <2>3, <2>4 DEF Promise!Next, Promise!Excused
<1>3. CASE ~LeaseLapses
  <2>1. ReplyMoves /\ lapsed' = lapsed /\ Excuses
    BY <1>3, StepReply
  <2>2. E' \in {E, E + 1} /\ copies' <= 1 + E'
    BY <1>1, <2>1 DEF CopiesPaidFor, Excuses
  <2>3. CASE Silent
    <3>1. copies' = copies BY <2>3 DEF Silent
    <3>2. \/ Phase' = Phase
          \/ Phase = "none" /\ Phase' = "open"
          \/ Phase = "open" /\ Phase' = "lost"
      BY <2>3, CalledPhase DEF Silent
    <3>3. CASE Phase' = Phase
      BY <2>2, <3>1, <3>3 DEF Promise!Next, Promise!Excused, Promise!vars
    <3>4. CASE Phase = "none" /\ Phase' = "open"
      BY <2>2, <3>1, <3>4 DEF Promise!Next, Promise!Register
    <3>5. CASE Phase = "open" /\ Phase' = "lost"
      BY <2>2, <3>1, <3>5 DEF Promise!Next, Promise!GiveUp
    <3> QED BY <3>2, <3>3, <3>4, <3>5
  <2>4. CASE Confirming
    BY <2>2, <2>4 DEF Confirming, Promise!Next, Promise!Send
  <2>5. CASE Heard
    <3>1. PICK outcome \in Outcomes :
            Answered(row, outcome, row') /\ (outcome \in Sent => copies > 0)
      BY <2>5 DEF Heard
    <3>2. copies' = copies BY <2>5 DEF Heard
    <3>3. CASE outcome \in Sent
      <4>1. Phase = "open" /\ Phase' = "delivered" /\ copies > 0
        BY <3>1, <3>3, AnsweredPhase
      <4> QED BY <2>2, <3>2, <4>1 DEF Promise!Next, Promise!Deliver
    <3>4. CASE outcome \notin Sent
      <4>1. Phase = "open" /\ Phase' \in {"open", "lost"}
        BY <3>1, <3>4, AnsweredPhase
      <4>2. CASE Phase' = "open"
        BY <2>2, <3>2, <4>1, <4>2 DEF Promise!Next, Promise!Excused, Promise!vars
      <4>3. CASE Phase' = "lost"
        BY <2>2, <3>2, <4>1, <4>3 DEF Promise!Next, Promise!GiveUp
      <4> QED BY <4>1, <4>2, <4>3
    <3> QED BY <3>3, <3>4
  <2> QED BY <2>1, <2>3, <2>4, <2>5 DEF ReplyMoves
<1> QED BY <1>2, <1>3

LEMMA InitPromise == Init => Promise!Init
<1> SUFFICES ASSUME Init PROVE Promise!Init
  OBVIOUS
<1>1. Phase = "none" BY DEF Init, NoRow, Phase, Terminal, Sent
<1>2. Cardinality(lapsed) + faults + cut = 0 BY FS_EmptySet DEF Init
<1> QED BY <1>1, <1>2 DEF Init, Promise!Init

\* The ledger, its worker and the turn implement the promise of OneReply: the reply
\* ends once, as delivered only after a send of it was confirmed, and an extra copy has
\* a lapsed lease, a call that raised or a send cut off in its cleanup behind it.
THEOREM ImplementsOneReplyAlways == Spec => ImplementsOneReply
<1>1. IInv /\ [Next]_vars /\ CopiesPaidFor' => [Promise!Next]_(Promise!vars)
  BY PromiseStep
<1> QED
  BY <1>1, InitPromise, TypedAlways, CopiesPaidForAlways, PTL
  DEF Spec, ImplementsOneReply, Promise!Spec
=============================================================================
