------------------------- MODULE PmaQueue_proofs -------------------------
(***************************************************************************)
(* Proofs about the PMA queue, for any sets of keys and workers and any    *)
(* numbers of rows, stop requests, failed writes and crashes.              *)
(***************************************************************************)
EXTENDS PmaQueue, FiniteSetTheorems, TLAPS

(* Sequences of rowids *)

Distinct(q) == \A m, n \in DOMAIN q : q[m] = q[n] => m = n

LEMMA SetOfEmpty == ToSet(<<>>) = {} /\ Distinct(<<>>)
BY DEF ToSet, Distinct

LEMMA SetOfSeq ==
  ASSUME NEW S, NEW q \in Seq(S)
  PROVE  /\ ToSet(q) \subseteq S
         /\ q \in Seq(ToSet(q))
         /\ q = <<>> <=> ToSet(q) = {}
BY DEF ToSet

LEMMA SetOfAppend ==
  ASSUME NEW S, NEW q \in Seq(S), NEW e
  PROVE  /\ ToSet(Append(q, e)) = ToSet(q) \cup {e}
         /\ Distinct(q) /\ e \notin ToSet(q) => Distinct(Append(q, e))
<1>1. /\ DOMAIN Append(q, e) = 1 .. Len(q) + 1
      /\ DOMAIN q = 1 .. Len(q) /\ Len(q) \in Nat
      /\ Append(q, e)[Len(q) + 1] = e
      /\ \A n \in 1 .. Len(q) : Append(q, e)[n] = q[n]
  OBVIOUS
<1>2. ToSet(Append(q, e)) \subseteq ToSet(q) \cup {e}
  BY <1>1 DEF ToSet
<1>3. ToSet(q) \subseteq ToSet(Append(q, e))
  BY <1>1 DEF ToSet
<1>4. e \in ToSet(Append(q, e))
  BY <1>1 DEF ToSet
<1>5. Distinct(q) /\ e \notin ToSet(q) => Distinct(Append(q, e))
  BY <1>1 DEF ToSet, Distinct
<1> QED BY <1>2, <1>3, <1>4, <1>5

LEMMA SetOfConcat ==
  ASSUME NEW S, NEW q \in Seq(S), NEW r \in Seq(S)
  PROVE  /\ ToSet(q \o r) = ToSet(q) \cup ToSet(r)
         /\ Distinct(q) /\ Distinct(r) /\ ToSet(q) \cap ToSet(r) = {}
              => Distinct(q \o r)
<1>1. /\ DOMAIN (q \o r) = 1 .. Len(q) + Len(r)
      /\ DOMAIN q = 1 .. Len(q) /\ Len(q) \in Nat
      /\ DOMAIN r = 1 .. Len(r) /\ Len(r) \in Nat
      /\ \A n \in 1 .. Len(q) + Len(r) :
           (q \o r)[n] = IF n <= Len(q) THEN q[n] ELSE r[n - Len(q)]
  OBVIOUS
<1>2. ToSet(q \o r) \subseteq ToSet(q) \cup ToSet(r)
  <2> SUFFICES ASSUME NEW n \in 1 .. Len(q) + Len(r)
               PROVE  (q \o r)[n] \in ToSet(q) \cup ToSet(r)
    BY <1>1 DEF ToSet
  <2>1. CASE n <= Len(q)
    BY <1>1, <2>1 DEF ToSet
  <2>2. CASE n > Len(q)
    <3>1. n - Len(q) \in 1 .. Len(r) /\ (q \o r)[n] = r[n - Len(q)]
      BY <1>1, <2>2
    <3> QED BY <1>1, <3>1 DEF ToSet
  <2> QED BY <1>1, <2>1, <2>2
<1>3. ToSet(q) \subseteq ToSet(q \o r)
  BY <1>1 DEF ToSet
<1>4. ToSet(r) \subseteq ToSet(q \o r)
  <2> SUFFICES ASSUME NEW n \in 1 .. Len(r) PROVE r[n] \in ToSet(q \o r)
    BY <1>1 DEF ToSet
  <2>1. /\ n + Len(q) \in 1 .. Len(q) + Len(r)
        /\ (q \o r)[n + Len(q)] = r[n]
    BY <1>1
  <2> QED BY <1>1, <2>1 DEF ToSet
<1>5. ASSUME Distinct(q), Distinct(r), ToSet(q) \cap ToSet(r) = {}
      PROVE  Distinct(q \o r)
  <2> SUFFICES ASSUME NEW m \in 1 .. Len(q) + Len(r),
                      NEW n \in 1 .. Len(q) + Len(r),
                      (q \o r)[m] = (q \o r)[n]
               PROVE  m = n
    BY <1>1 DEF Distinct
  <2>1. CASE m <= Len(q) /\ n <= Len(q)
    BY <1>1, <1>5, <2>1 DEF Distinct
  <2>2. CASE m > Len(q) /\ n > Len(q)
    <3>1. /\ m - Len(q) \in DOMAIN r /\ n - Len(q) \in DOMAIN r
          /\ r[m - Len(q)] = r[n - Len(q)]
      BY <1>1, <2>2
    <3>2. m - Len(q) = n - Len(q)
      BY <1>5, <3>1 DEF Distinct
    <3> QED BY <1>1, <3>2
  <2>3. CASE m <= Len(q) /\ n > Len(q)
    <3>1. m \in DOMAIN q /\ n - Len(q) \in DOMAIN r
      BY <1>1, <2>3
    <3>2. q[m] \in ToSet(q) /\ r[n - Len(q)] \in ToSet(r)
      BY <3>1 DEF ToSet
    <3> QED BY <1>1, <1>5, <2>3, <3>2
  <2>4. CASE m > Len(q) /\ n <= Len(q)
    <3>1. n \in DOMAIN q /\ m - Len(q) \in DOMAIN r
      BY <1>1, <2>4
    <3>2. q[n] \in ToSet(q) /\ r[m - Len(q)] \in ToSet(r)
      BY <3>1 DEF ToSet
    <3> QED BY <1>1, <1>5, <2>4, <3>2
  <2> QED BY <1>1, <2>1, <2>2, <2>3, <2>4
<1> QED BY <1>2, <1>3, <1>4, <1>5

LEMMA SetOfTail ==
  ASSUME NEW S, NEW q \in Seq(S), q # <<>>
  PROVE  /\ Head(q) \in ToSet(q)
         /\ Tail(q) \in Seq(S)
         /\ ToSet(q) = ToSet(Tail(q)) \cup {Head(q)}
         /\ Distinct(q) => Distinct(Tail(q)) /\ Head(q) \notin ToSet(Tail(q))
<1>1. /\ DOMAIN q = 1 .. Len(q) /\ Len(q) \in Nat /\ Len(q) > 0
      /\ Tail(q) \in Seq(S)
      /\ DOMAIN Tail(q) = 1 .. Len(q) - 1
      /\ \A n \in 1 .. Len(q) - 1 : Tail(q)[n] = q[n + 1]
      /\ Head(q) = q[1]
  OBVIOUS
<1>2. ToSet(Tail(q)) \subseteq ToSet(q)
  BY <1>1 DEF ToSet
<1>3. Head(q) \in ToSet(q)
  BY <1>1 DEF ToSet
<1>4. ToSet(q) \subseteq ToSet(Tail(q)) \cup {Head(q)}
  <2> SUFFICES ASSUME NEW n \in 1 .. Len(q), n # 1 PROVE q[n] \in ToSet(Tail(q))
    BY <1>1 DEF ToSet
  <2>1. n - 1 \in 1 .. Len(q) - 1 /\ Tail(q)[n - 1] = q[n]
    BY <1>1
  <2> QED BY <1>1, <2>1 DEF ToSet
<1>5. Distinct(q) => Distinct(Tail(q)) /\ Head(q) \notin ToSet(Tail(q))
  BY <1>1 DEF ToSet, Distinct
<1> QED BY <1>1, <1>2, <1>3, <1>4, <1>5

\* Every finite set of numbers is listed in order: the place of a number is
\* how many of the set are not above it.
LEMMA Listed ==
  ASSUME NEW S \in SUBSET Nat, IsFiniteSet(S)
  PROVE  /\ InOrder(S) \in Seq(S)
         /\ ToSet(InOrder(S)) = S
         /\ Distinct(InOrder(S))
         /\ \A m, n \in DOMAIN InOrder(S) : m < n => InOrder(S)[m] < InOrder(S)[n]
<1> DEFINE N == Cardinality(S)
           upto(i) == {j \in S : j <= i}
           place == [i \in S |-> Cardinality(upto(i))]
           q == [n \in 1 .. N |-> CHOOSE i \in S : place[i] = n]
<1>1. N \in Nat
  BY FS_CardinalityType
<1>2. \A i \in S : IsFiniteSet(upto(i)) /\ Cardinality(upto(i)) \in 0 .. N
  <2> TAKE i \in S
  <2>1. upto(i) \in SUBSET S
    OBVIOUS
  <2> QED BY <1>1, <2>1, FS_Subset, FS_CardinalityType
<1>3. ASSUME NEW i \in S, NEW j \in S, i < j
      PROVE  Cardinality(upto(i)) < Cardinality(upto(j))
  <2>1. upto(i) \in SUBSET upto(j)
    <3>1. \A k \in S : k <= i => k <= j
      BY <1>3
    <3> QED BY <3>1
  <2>2. j \in upto(j) /\ j \notin upto(i)
    BY <1>3
  <2>3. IsFiniteSet(upto(j))
    BY <1>2
  <2>4. /\ Cardinality(upto(i)) \in Nat
        /\ Cardinality(upto(j)) \in Nat
    BY <1>1, <1>2
  <2> HIDE DEF upto
  <2>5. /\ Cardinality(upto(i)) <= Cardinality(upto(j))
        /\ Cardinality(upto(j)) # Cardinality(upto(i))
    BY <2>1, <2>2, <2>3, FS_Subset
  <2> QED BY <2>4, <2>5
<1>4. \A i \in S : Cardinality(upto(i)) \in 1 .. N
  <2> TAKE i \in S
  <2>1. upto(i) # {}
    OBVIOUS
  <2> QED BY <1>1, <1>2, <2>1, FS_EmptySet
<1>5. place \in [S -> 1 .. N]
  BY <1>4
<1>6. \A i, j \in S : i < j => place[i] < place[j]
  BY <1>3
<1> HIDE DEF place, upto
<1>7. place \in Surjection(S, 1 .. N)
  <2>1. \A i, j \in S : place[i] = place[j] => i = j
    <3> SUFFICES ASSUME NEW i \in S, NEW j \in S, i # j
                 PROVE  place[i] # place[j]
      OBVIOUS
    <3>1. i < j \/ j < i
      OBVIOUS
    <3>2. place[i] \in Nat /\ place[j] \in Nat
      BY <1>1, <1>5
    <3>3. place[i] < place[j] \/ place[j] < place[i]
      BY <1>6, <3>1
    <3> QED BY <3>2, <3>3
  <2>2. place \in Injection(S, 1 .. N)
    BY <1>5, <2>1 DEF Injection, IsInjective
  <2>3. IsFiniteSet(1 .. N) /\ Cardinality(1 .. N) = N
    BY <1>1, FS_Interval
  <2> QED BY <2>2, <2>3, FS_Injection
<1>8. q \in [1 .. N -> S] /\ \A m, n \in DOMAIN q : m < n => q[m] < q[n]
  <2>1. \A n \in 1 .. N : \E i \in S : place[i] = n
    BY <1>7 DEF Surjection
  <2>2. \A n \in 1 .. N : q[n] \in S /\ place[q[n]] = n
    BY <2>1
  <2>3. DOMAIN q = 1 .. N /\ q \in [1 .. N -> S]
    BY <2>2
  <2> HIDE DEF q
  <2>4. ASSUME NEW m \in 1 .. N, NEW n \in 1 .. N, m < n PROVE q[m] < q[n]
    <3>1. /\ q[m] \in Nat /\ q[n] \in Nat
          /\ place[q[m]] = m /\ place[q[n]] = n
      BY <2>2
    <3>2. ASSUME q[n] < q[m] PROVE FALSE
      <4>1. place[q[n]] < place[q[m]]
        BY <1>6, <2>2, <3>2
      <4> QED BY <1>1, <2>4, <3>1, <4>1
    <3>3. q[n] # q[m]
      BY <2>4, <3>1
    <3> QED BY <3>1, <3>2, <3>3
  <2> QED BY <2>3, <2>4
<1>9. /\ InOrder(S) \in [1 .. N -> S]
      /\ \A m, n \in 1 .. N : m < n => InOrder(S)[m] < InOrder(S)[n]
  <2> HIDE DEF q, N
  <2>1. \E r \in [1 .. N -> S] : \A m, n \in DOMAIN r : m < n => r[m] < r[n]
    BY <1>8
  <2> QED BY <2>1 DEF InOrder, N
<1>10. Distinct(InOrder(S))
  <2> SUFFICES ASSUME NEW m \in 1 .. N, NEW n \in 1 .. N, m # n
               PROVE  InOrder(S)[m] # InOrder(S)[n]
    BY <1>9 DEF Distinct
  <2>1. m < n \/ n < m
    OBVIOUS
  <2>2. InOrder(S)[m] \in Nat /\ InOrder(S)[n] \in Nat
    BY <1>9
  <2> HIDE DEF N
  <2> QED BY <1>9, <2>1, <2>2
<1>11. InOrder(S) \in Surjection(1 .. N, S)
  <2>1. InOrder(S) \in Injection(1 .. N, S)
    BY <1>9, <1>10 DEF Injection, IsInjective, Distinct
  <2>2. Cardinality(1 .. N) = Cardinality(S)
    BY <1>1, FS_Interval
  <2> QED BY <2>1, <2>2, FS_Injection
<1>12. ToSet(InOrder(S)) = S
  BY <1>9, <1>11 DEF ToSet, Surjection
<1>13. InOrder(S) \in Seq(S)
  BY <1>1, <1>9
<1> QED BY <1>9, <1>10, <1>12, <1>13

-----------------------------------------------------------------------------
(* The invariant *)

Rows == [key : Keys, state : States]
Lanes == [queue : Seq(Ids), known : SUBSET Ids, replayed : BOOLEAN,
          touched : BOOLEAN]
WorkerStates ==
  [pc : {"off", "start", "replay", "loop", "mark", "run", "save", "done"},
   item : 0 .. MaxRows, verdict : {"completed", "failed"},
   todo : Seq(Ids), cancel : BOOLEAN]
Stops == [pc : {"idle", "cancel", "join"}, todo : Seq(Ids),
          worker : Workers \cup {NoWorker}]
Pasts == [stops : Nat, faults : Nat, crashes : Nat, deaths : Nat]

\* A caller that has looked for its key will find a row left for it.
Owed == (IF chat.pc = "append" THEN 1 ELSE 0) + (IF job.pc = "append" THEN 1 ELSE 0)

Typed ==
  /\ QueueTypeOK
  /\ lane \in Lanes
  /\ past \in Pasts
  /\ Len(rows) + Owed <= MaxRows

\* The queue lists known rows, each once; before the replay nobody works.
Resting == {"off", "start", "done"}

Memory ==
  /\ Distinct(lane.queue)
  /\ ToSet(lane.queue) \subseteq lane.known
  /\ ~lane.replayed => \A w \in Workers : worker[w].pc \in Resting

\* What a replay has read is unknown to memory until it is put there, for no
\* other worker and no chat request touches memory meanwhile.
Replays ==
  \A w \in Workers : worker[w].pc = "replay" =>
    /\ lane.replayed /\ chat.pc # "append"
    /\ Distinct(worker[w].todo)
    /\ ToSet(worker[w].todo) \cap lane.known = {}
    /\ \A v \in Workers \ {w} : worker[v].pc \in Resting

\* An item in a worker's hands has left the queue and is in no other hands.
Busy(w) == worker[w].pc \in {"mark", "run", "save"}

Held ==
  \A w \in Workers : Busy(w) =>
    /\ worker[w].item \in lane.known
    /\ worker[w].item \notin ToSet(lane.queue)
    /\ \A v \in Workers \ {w} : ~(Busy(v) /\ worker[v].item = worker[w].item)

\* A row that may still be executed in this life was not executed in it.
Marking(w, i) == worker[w].pc = "mark" /\ worker[w].item = i

Waits(i) ==
  \/ i \notin lane.known
  \/ i \in ToSet(lane.queue)
  \/ \E w \in Workers : Marking(w, i)

Fresh ==
  \A i \in Ids : /\ runs[i] <= 1 + past.crashes
                 /\ Waits(i) => runs[i] <= past.crashes

\* A row that has ended is not on its way to be executed.
Ended ==
  \A i \in Ids : rows[i].state \in {"completed", "failed"} =>
    /\ i \notin ToSet(lane.queue)
    /\ \A w \in Workers : ~Marking(w, i) /\ ~Reading(w, i)

\* Without a stop request the registry names the only live worker.
Serial ==
  past.stops = 0 =>
    /\ stop.pc = "idle"
    /\ \A w \in Workers : ~Over(w) => registry = w

\* The index admits one active row per key.
OneActive ==
  \A i, j \in Ids :
    /\ rows[i].key = rows[j].key
    /\ rows[i].state \in Active /\ rows[j].state \in Active
    => i = j

\* Before the replay memory knows no running row.
Kept ==
  /\ NothingStranded
  /\ ~lane.replayed => \A i \in lane.known : rows[i].state # "running"

Parts ==
  Memory /\ Replays /\ Held /\ Fresh /\ Ended /\ Serial /\ OneActive /\ Kept

IInv == Typed /\ Parts

-----------------------------------------------------------------------------
(* What the operations do to the rows *)

LEMMA IdsAre ==
  ASSUME Typed
  PROVE  /\ Len(rows) \in Nat /\ Ids = 1 .. Len(rows) /\ Ids \subseteq 1 .. MaxRows
         /\ Len(rows) <= MaxRows /\ MaxRows \in Nat
         /\ \A i \in Ids : rows[i].key \in Keys /\ rows[i].state \in States
<1>1. rows \in Seq(Rows) /\ Len(rows) <= MaxRows
  BY DEF Typed, QueueTypeOK, Rows
<1>2. Len(rows) \in Nat /\ Ids = 1 .. Len(rows) /\ rows \in [1 .. Len(rows) -> Rows]
  BY <1>1 DEF Ids
<1>3. \A i \in Ids : rows[i] \in Rows
  BY <1>2
<1>4. \A i \in Ids : rows[i].key \in Keys /\ rows[i].state \in States
  BY <1>3 DEF Rows
<1> QED BY <1>1, <1>2, <1>4, BoundsAssumption

LEMMA SetRowMoves ==
  ASSUME Typed, NEW i \in Ids, NEW s \in States, SetRow(i, s)
  PROVE  /\ rows' \in Seq(Rows) /\ Len(rows') = Len(rows) /\ Ids' = Ids
         /\ \A j \in Ids : /\ rows'[j].key = rows[j].key
                           /\ rows'[j].state = IF j = i THEN s ELSE rows[j].state
<1>1. rows \in [1 .. Len(rows) -> Rows] /\ Len(rows) \in Nat /\ Ids = 1 .. Len(rows)
  <2>1. rows \in Seq(Rows)
    BY DEF Typed, QueueTypeOK, Rows
  <2> QED BY <2>1 DEF Ids
<1>2. rows' \in [1 .. Len(rows) -> Rows]
  <2>1. [rows[i] EXCEPT !.state = s] \in Rows
    BY <1>1 DEF Rows
  <2> QED BY <1>1, <2>1 DEF SetRow
<1>3. rows' \in Seq(Rows) /\ Len(rows') = Len(rows) /\ Ids' = Ids
  BY <1>1, <1>2 DEF Ids
<1> QED BY <1>1, <1>3 DEF SetRow, Rows

LEMMA AppendMoves ==
  ASSUME Typed, NEW k \in Keys, NEW s \in States, Append1(k, s)
  PROVE  /\ rows' \in Seq(Rows) /\ Len(rows') = Len(rows) + 1
         /\ Ids' = Ids \cup {Len(rows) + 1} /\ Len(rows) + 1 \notin Ids
         /\ \A j \in Ids : rows'[j] = rows[j] /\ runs'[j] = runs[j]
         /\ rows'[Len(rows) + 1] = Inserted(k, s)
         /\ runs' \in [Ids' -> Nat] /\ runs'[Len(rows) + 1] = 0
<1>1. rows \in Seq(Rows) /\ Len(rows) \in Nat /\ Ids = 1 .. Len(rows)
  BY DEF Typed, QueueTypeOK, Rows, Ids
<1>2. runs \in Seq(Nat) /\ Len(runs) = Len(rows)
  <2>1. runs \in [1 .. Len(rows) -> Nat]
    BY <1>1 DEF Typed, QueueTypeOK
  <2> QED BY <1>1, <2>1
<1>3. Inserted(k, s) \in Rows
  BY DEF Inserted, Rows, States
<1>4. /\ rows' \in Seq(Rows) /\ Len(rows') = Len(rows) + 1
      /\ rows'[Len(rows) + 1] = Inserted(k, s)
      /\ \A j \in 1 .. Len(rows) : rows'[j] = rows[j]
  BY <1>1, <1>3 DEF Append1
<1>5. /\ runs' \in Seq(Nat) /\ Len(runs') = Len(rows) + 1
      /\ runs'[Len(rows) + 1] = 0
      /\ \A j \in 1 .. Len(rows) : runs'[j] = runs[j]
  BY <1>1, <1>2 DEF Append1
<1>6. Ids' = 1 .. Len(rows) + 1
  BY <1>1, <1>4 DEF Ids
<1> QED BY <1>1, <1>4, <1>5, <1>6

LEMMA SeqGrows == ASSUME NEW S, NEW T, S \subseteq T PROVE Seq(S) \subseteq Seq(T)
OBVIOUS

\* What is typed stays so when rows are only added.
LEMMA RowsGrow ==
  ASSUME Typed, Ids \subseteq Ids'
  PROVE  lane \in Lanes' /\ worker \in [Workers -> WorkerStates'] /\ stop \in Stops'
<1>1. Seq(Ids) \subseteq Seq(Ids')
  BY SeqGrows
<1> QED BY <1>1 DEF Typed, QueueTypeOK, Lanes, WorkerStates, Stops

LEMMA RoomMeans ==
  ASSUME Typed, Room PROVE Len(rows) + Owed < MaxRows
<1> DEFINE waiting == {c \in {<<1, chat.pc>>, <<2, job.pc>>} : c[2] = "append"}
<1>0. Len(rows) \in Nat /\ Len(rows) + Cardinality(waiting) < MaxRows
  BY IdsAre DEF Room
<1>1. CASE chat.pc = "append" /\ job.pc = "append"
  <2>1. waiting = {<<1, "append">>} \cup {<<2, "append">>}
    BY <1>1
  <2>2. IsFiniteSet({<<1, "append">>}) /\ Cardinality({<<1, "append">>}) = 1
    BY FS_Singleton
  <2>3. Cardinality({<<1, "append">>} \cup {<<2, "append">>}) =
          Cardinality({<<1, "append">>}) + 1
    <3>1. <<2, "append">> \notin {<<1, "append">>}
      OBVIOUS
    <3> QED BY <2>2, <3>1, FS_AddElement
  <2> QED BY <1>1, <2>1, <2>2, <2>3, <1>0 DEF Owed
<1>2. CASE chat.pc = "append" /\ job.pc # "append"
  <2>1. waiting = {<<1, "append">>}
    BY <1>2
  <2>2. Cardinality({<<1, "append">>}) = 1
    BY FS_Singleton
  <2>3. Cardinality(waiting) = 1
    BY <2>1, <2>2
  <2> HIDE DEF waiting
  <2> QED BY <1>2, <2>3, <1>0 DEF Owed
<1>3. CASE chat.pc # "append" /\ job.pc = "append"
  <2>1. waiting = {<<2, "append">>}
    BY <1>3
  <2>2. Cardinality({<<2, "append">>}) = 1
    BY FS_Singleton
  <2>3. Cardinality(waiting) = 1
    BY <2>1, <2>2
  <2> HIDE DEF waiting
  <2> QED BY <1>3, <2>3, <1>0 DEF Owed
<1>4. CASE chat.pc # "append" /\ job.pc # "append"
  <2>1. waiting = {}
    BY <1>4
  <2> QED BY <1>4, <2>1, FS_EmptySet, <1>0 DEF Owed
<1> QED BY <1>1, <1>2, <1>3, <1>4

\* Reading the rows in order gives each of the set once.
LEMMA ReadInOrder ==
  ASSUME Typed, NEW S \in SUBSET Ids
  PROVE  /\ InOrder(S) \in Seq(Ids) /\ ToSet(InOrder(S)) = S
         /\ Distinct(InOrder(S))
<1>1. S \in SUBSET Nat /\ IsFiniteSet(S)
  <2>1. IsFiniteSet(1 .. Len(rows))
    BY IdsAre, FS_Interval
  <2> QED BY <2>1, IdsAre, FS_Subset
<1>2. InOrder(S) \in Seq(S)
  BY <1>1, Listed
<1> QED BY <1>1, <1>2, Listed, SeqGrows

\* A set of rowids that is not empty has a least one.
LEMMA FirstOf ==
  ASSUME Typed, NEW S \in SUBSET Ids, S # {}
  PROVE  Min(S) \in S
<1> DEFINE q == InOrder(S)
<1>1. S \in SUBSET Nat /\ IsFiniteSet(S)
  <2>1. IsFiniteSet(1 .. Len(rows))
    BY IdsAre, FS_Interval
  <2> QED BY <2>1, IdsAre, FS_Subset
<1>2. /\ q \in Seq(S) /\ ToSet(q) = S
      /\ \A m, n \in DOMAIN q : m < n => q[m] < q[n]
  BY <1>1, Listed
<1>3. \A i \in S : \E n \in DOMAIN q : i = q[n]
  BY <1>2 DEF ToSet
<1> HIDE DEF q
<1>4. DOMAIN q = 1 .. Len(q) /\ Len(q) \in Nat /\ Len(q) > 0
  BY <1>2, <1>3
<1>5. q[1] \in S /\ \A i \in S : q[1] <= i
  <2>1. q[1] \in S
    BY <1>2, <1>4
  <2>2. \A n \in DOMAIN q : q[1] <= q[n]
    <3> TAKE n \in DOMAIN q
    <3>0. q[1] \in Nat /\ q[n] \in Nat
      <4>1. q[n] \in S
        BY <1>2
      <4> QED BY <1>1, <2>1, <4>1
    <3>1. CASE n = 1
      BY <3>0, <3>1
    <3>2. CASE n # 1
      <4>1. q[1] < q[n]
        BY <1>2, <1>4, <3>2
      <4> QED BY <3>0, <4>1
    <3> QED BY <3>1, <3>2
  <2> QED BY <1>3, <2>1, <2>2
<1> QED BY <1>5 DEF Min

LEMMA FaultCounts ==
  ASSUME past \in Pasts, past' = [past EXCEPT !.faults = @ + 1]
  PROVE  /\ past' \in Pasts
         /\ past'.crashes = past.crashes /\ past'.stops = past.stops
         /\ past'.faults # 0
BY DEF Pasts

LEMMA Types ==
  ASSUME Typed
  PROVE  /\ lane \in Lanes /\ past \in Pasts /\ stop \in Stops
         /\ worker \in [Workers -> WorkerStates]
         /\ runs \in [Ids -> Nat] /\ rows \in Seq(Rows)
         /\ registry \in Workers \cup {NoWorker} /\ NoWorker \notin Workers
         /\ chat \in [pc : {"idle", "append", "ensure"}, key : Keys]
         /\ job \in [pc : {"idle", "append", "mirror", "ensure"}, key : Keys]
BY NoWorkerAssumption
   DEF Typed, QueueTypeOK, Rows, WorkerStates, Stops

LEMMA TypedAgain ==
  ASSUME lane' \in Lanes', past' \in Pasts, stop' \in Stops',
         worker' \in [Workers -> WorkerStates'], runs' \in [Ids' -> Nat],
         rows' \in Seq(Rows), registry' \in Workers \cup {NoWorker},
         chat' \in [pc : {"idle", "append", "ensure"}, key : Keys],
         job' \in [pc : {"idle", "append", "mirror", "ensure"}, key : Keys],
         Len(rows') \in Nat, Len(rows') + Owed' <= MaxRows
  PROVE  Typed'
<1>1. Len(rows') <= MaxRows
  <2>1. Owed' \in Nat
    BY DEF Owed
  <2> QED BY <2>1, BoundsAssumption
<1> QED
  BY <1>1 DEF Typed, QueueTypeOK, Rows, WorkerStates, Stops, Lanes

LEMMA NewWorkerTyped == Started \in WorkerStates /\ Absent \in WorkerStates
<1>1. <<>> \in Seq(Ids) /\ 0 \in 0 .. MaxRows
  BY BoundsAssumption
<1>2. Absent \in WorkerStates
  BY <1>1 DEF Absent, WorkerStates
<1> QED BY <1>2 DEF Started, WorkerStates

-----------------------------------------------------------------------------
(* The requests *)

\* A worker that is started holds nothing; without a stop request it is the
\* only one.
LEMMA EnsureKeeps ==
  ASSUME IInv, EnsureWorker,
         UNCHANGED <<rows, lane, stop, runs, past>>,
         \/ chat' = [chat EXCEPT !.pc = "idle"] /\ UNCHANGED job
         \/ job' = [job EXCEPT !.pc = "idle"] /\ UNCHANGED chat /\ job.pc = "ensure"
  PROVE  IInv'
<1> USE DEF IInv, Parts
<1>1. \/ UNCHANGED <<worker, registry>>
      \/ \E w \in Workers : /\ \A v \in Workers : registry = v => Over(v)
                            /\ Over(w)
                            /\ worker' = [worker EXCEPT ![w] = Started]
                            /\ registry' = w
  <2>1. \/ UNCHANGED <<worker, registry>>
        \/ /\ registry = NoWorker \/ Over(registry)
           /\ \E w \in Workers : /\ Over(w)
                                 /\ worker' = [worker EXCEPT ![w] = Started]
                                 /\ registry' = w
    BY DEF EnsureWorker, Spare
  <2> QED BY <2>1, NoWorkerAssumption
<1>2. \A w \in Workers : \/ worker'[w] = worker[w]
                         \/ worker'[w] = Started /\ Over(w)
  <2>1. worker \in [Workers -> WorkerStates]
    BY Types
  <2> QED BY <1>1, <2>1
<1>3. Ids' = Ids
  BY DEF Ids
<1>4. Typed'
  <2>1. /\ worker' \in [Workers -> WorkerStates]
        /\ registry' \in Workers \cup {NoWorker}
    BY <1>1, Types, NewWorkerTyped
  <2>2. /\ chat' \in [pc : {"idle", "append", "ensure"}, key : Keys]
        /\ job' \in [pc : {"idle", "append", "mirror", "ensure"}, key : Keys]
    BY Types
  <2>3. Owed' <= Owed /\ Owed \in Nat /\ Owed' \in Nat
    BY Types DEF Owed
  <2>4. Len(rows') + Owed' <= MaxRows
    BY <2>3, IdsAre DEF Typed
  <2> QED BY <1>3, <2>1, <2>2, <2>4, Types, TypedAgain, IdsAre
          DEF Lanes, WorkerStates, Stops
<1>5. Memory' /\ Replays' /\ Held'
  <2>1. \A w \in Workers : \/ worker'[w] = worker[w]
                           \/ worker'[w].pc = "start" /\ worker[w].pc \in {"off", "done"}
    BY <1>2 DEF Over, Started, Absent
  <2>2. Memory'
    BY <2>1 DEF Memory, Resting
  <2>3. Replays'
    BY <2>1, Types DEF Replays, Resting
  <2>4. Held'
    BY <2>1 DEF Held, Busy
  <2> QED BY <2>2, <2>3, <2>4
<1>6. Fresh' /\ Ended'
  BY <1>2, <1>3 DEF Fresh, Ended, Waits, Marking, Reading, Started, Absent
<1>7. Serial'
  BY <1>1, Types DEF Serial, Over, Started, Absent
<1>8. OneActive'
  BY <1>3 DEF OneActive
<1>9. Kept'
  BY <1>2, <1>3 DEF Kept, NothingStranded, Holds, Reading, Noticeable, Over,
                    Started, Absent
<1> QED BY <1>4, <1>5, <1>6, <1>7, <1>8, <1>9

Put(n) == lane' = [lane EXCEPT !.queue = Append(@, n), !.known = @ \cup {n},
                               !.touched = TRUE]

\* A lane with another queue, with its numbers known, is a lane.
LEMMA LaneSet ==
  ASSUME NEW Q, NEW K, NEW q \in Q, NEW d \in K,
         NEW l \in [queue : Q, known : K, replayed : BOOLEAN, touched : BOOLEAN]
  PROVE  /\ [l EXCEPT !.queue = q, !.known = d, !.touched = TRUE]
              \in [queue : Q, known : K, replayed : BOOLEAN, touched : BOOLEAN]
         /\ [l EXCEPT !.touched = TRUE]
              \in [queue : Q, known : K, replayed : BOOLEAN, touched : BOOLEAN]
  OBVIOUS

\* A row that is added leaves everything about the others, and is noticed
\* unless its mirror could not be written.
LEMMA AppendKeeps ==
  ASSUME IInv, NEW k \in Keys, NEW s \in {"pending", "deduped"}, Append1(k, s),
         UNCHANGED <<worker, registry, stop>>,
         \/ UNCHANGED lane \/ Touch
         \/ Put(Len(rows) + 1) /\ chat.pc = "append",
         past' = past \/ past' = [past EXCEPT !.faults = @ + 1],
         s = "pending" =>
           Put(Len(rows) + 1) \/ job'.pc = "mirror" \/ past' # past,
         chat' \in [pc : {"idle", "append", "ensure"}, key : Keys],
         job' \in [pc : {"idle", "append", "mirror", "ensure"}, key : Keys],
         chat'.pc # "append" \/ chat' = chat,
         job.pc = "mirror" => job'.pc = "mirror",
         Len(rows) + 1 + Owed' <= MaxRows
  PROVE  IInv'
<1> USE DEF IInv, Parts
<1>0. PICK n \in Nat : n = Len(rows) + 1
  BY IdsAre
<1>1. /\ rows' \in Seq(Rows) /\ Len(rows') = n
      /\ Ids' = Ids \cup {n} /\ n \notin Ids /\ n \in Nat
      /\ \A j \in Ids : rows'[j] = rows[j] /\ runs'[j] = runs[j]
      /\ rows'[n] = Inserted(k, s)
      /\ runs' \in [Ids' -> Nat] /\ runs'[n] = 0
  <2>1. s \in States
    BY DEF States, Active
  <2> QED BY <1>0, <2>1, AppendMoves, IdsAre
<1>2. /\ lane \in Lanes' /\ worker' \in [Workers -> WorkerStates'] /\ stop' \in Stops'
  BY <1>1, RowsGrow
<1>3. ToSet(lane.queue) \subseteq lane.known /\ lane.known \subseteq Ids
  BY Types DEF Memory, Lanes
<1>4. /\ lane'.replayed = lane.replayed
      /\ lane.touched => lane'.touched
      /\ \/ lane'.queue = lane.queue /\ lane'.known = lane.known
         \/ /\ Put(n) /\ chat.pc = "append"
            /\ lane'.queue = Append(lane.queue, n)
            /\ lane'.known = lane.known \cup {n}
  <2>1. CASE UNCHANGED lane
    BY <2>1
  <2>2. CASE Touch
    BY <2>2, Types DEF Touch, Lanes
  <2>3. CASE Put(Len(rows) + 1) /\ chat.pc = "append"
    BY <1>0, <2>3, Types DEF Put, Lanes
  <2> QED BY <2>1, <2>2, <2>3
<1>4a. s = "pending" => n \in lane'.known \/ job'.pc = "mirror" \/ past' # past
  <2>1. Put(Len(rows) + 1) => n \in lane'.known
    BY <1>0, Types DEF Put, Lanes
  <2> QED BY <2>1
<1>5. /\ ToSet(Append(lane.queue, n)) = ToSet(lane.queue) \cup {n}
      /\ Distinct(Append(lane.queue, n))
      /\ Append(lane.queue, n) \in Seq(Ids')
  <2>1. lane.queue \in Seq(Ids')
    BY <1>2 DEF Lanes
  <2>2. n \notin ToSet(lane.queue)
    BY <1>1, <1>3
  <2> QED BY <1>1, <2>1, <2>2, SetOfAppend DEF Memory
<1>6. Typed'
  <2>1. lane' \in Lanes'
    <3>1. lane'.queue \in Seq(Ids') /\ lane'.known \subseteq Ids'
      BY <1>1, <1>2, <1>3, <1>4, <1>5 DEF Lanes
    <3>2. \/ lane' = lane
          \/ lane' = [lane EXCEPT !.touched = TRUE]
          \/ lane' = [lane EXCEPT !.queue = lane'.queue, !.known = lane'.known,
                                  !.touched = TRUE]
      BY <1>4 DEF Touch, Put
    <3> DEFINE Q == Seq(Ids')
               K == SUBSET Ids'
               L == [queue : Q, known : K, replayed : BOOLEAN, touched : BOOLEAN]
    <3>3. lane \in L /\ lane'.queue \in Q /\ lane'.known \in K
      BY <1>2, <3>1 DEF Lanes
    <3>4. Lanes' = L
      BY DEF Lanes
    <3> HIDE DEF Q, K
    <3>5. /\ [lane EXCEPT !.queue = lane'.queue, !.known = lane'.known,
                          !.touched = TRUE] \in L
          /\ [lane EXCEPT !.touched = TRUE] \in L
      BY <3>3, LaneSet
    <3> QED BY <3>2, <3>3, <3>4, <3>5
  <2>2. past' \in Pasts
    BY Types DEF Pasts
  <2> QED BY <1>0, <1>1, <1>2, <2>1, <2>2, Types, TypedAgain
<1>7. /\ ToSet(lane'.queue) \subseteq ToSet(lane.queue) \cup {n}
      /\ ToSet(lane.queue) \subseteq ToSet(lane'.queue)
      /\ lane'.known \subseteq lane.known \cup {n}
      /\ lane.known \subseteq lane'.known
      /\ n \in ToSet(lane'.queue) <=> n \in lane'.known
  BY <1>1, <1>3, <1>4, <1>5
<1>8. Memory'
  <2>1. Distinct(lane'.queue)
    BY <1>4, <1>5 DEF Memory
  <2>2. ToSet(lane'.queue) \subseteq lane'.known
    BY <1>3, <1>7
  <2> QED BY <1>4, <2>1, <2>2 DEF Memory
<1>9. Replays'
  <2> SUFFICES ASSUME NEW w \in Workers, worker[w].pc = "replay" PROVE
        /\ lane'.replayed /\ chat'.pc # "append" /\ Distinct(worker[w].todo)
        /\ ToSet(worker[w].todo) \cap lane'.known = {}
        /\ \A v \in Workers \ {w} : worker[v].pc \in Resting
    BY DEF Replays
  <2>1. chat.pc # "append"
    BY DEF Replays
  <2> QED BY <1>4, <2>1 DEF Replays
<1>10. \A w \in Workers : Busy(w) => worker[w].item # n
  BY <1>1, <1>3 DEF Held
<1>11. Held'
  BY <1>7, <1>10 DEF Held, Busy
<1>12. Fresh'
  <2>1. past'.crashes = past.crashes /\ past.crashes \in Nat
    BY Types DEF Pasts
  <2>2. \A i \in Ids : Waits(i)' => Waits(i)
    BY <1>1, <1>7 DEF Waits, Marking
  <2> QED BY <1>1, <2>1, <2>2 DEF Fresh
<1>13. Ended'
  <2>1. rows'[n].state \notin {"completed", "failed"}
    BY <1>1 DEF Inserted
  <2> QED BY <1>1, <1>7, <2>1 DEF Ended, Marking, Reading
<1>14. Serial'
  <2>1. past'.stops = past.stops
    BY Types DEF Pasts
  <2> QED BY <2>1 DEF Serial, Over
<1>15. OneActive'
  <2>1. rows'[n].key = k
    BY <1>1 DEF Inserted
  <2>2. rows'[n].state \in Active =>
          \A j \in Ids : rows[j].key = k => rows[j].state \notin Active
    BY <1>1 DEF Inserted, ActiveOn, Active
  <2> QED BY <1>1, <2>1, <2>2 DEF OneActive
<1>16. Kept'
  <2>1. past'.faults = 0 => past' = past /\ past.faults = 0
    BY Types DEF Pasts
  <2>2. rows'[n].state # "running" /\ (rows'[n].state = "pending" => s = "pending")
    BY <1>1 DEF Inserted
  <2>3. ~lane'.replayed => \A i \in lane'.known : rows'[i].state # "running"
    BY <1>1, <1>3, <1>4, <1>7, <2>2 DEF Kept
  <2>4. \A i \in Ids : Noticeable(i) => Noticeable(i)'
    BY <1>1, <1>4, <1>7 DEF Noticeable
  <2>5. ASSUME past'.faults = 0, rows'[n].state = "pending"
        PROVE  n \in ToSet(lane'.queue) \/ Noticeable(n)'
    BY <1>7, <1>4a, <2>1, <2>2, <2>5 DEF Noticeable
  <2>6. NothingStranded'
    <3> SUFFICES ASSUME past'.faults = 0, NEW i \in Ids' PROVE
          /\ rows'[i].state = "pending" =>
               \/ i \in ToSet(lane'.queue) \/ Noticeable(i)'
               \/ \E w \in Workers : Holds(w, i)' \/ Reading(w, i)'
          /\ rows'[i].state = "running" =>
               \/ \E w \in Workers : Holds(w, i)' \/ Reading(w, i)'
               \/ ~lane'.replayed
      BY DEF NothingStranded
    <3>1. CASE i = n
      BY <2>2, <2>5, <3>1
    <3>2. CASE i # n
      <4>1. i \in Ids /\ rows'[i] = rows[i]
        BY <1>1, <3>2
      <4>2. \A w \in Workers : (Holds(w, i)' <=> Holds(w, i)) /\ (Reading(w, i)' <=> Reading(w, i))
        BY DEF Holds, Reading
      <4>3. i \in ToSet(lane.queue) => i \in ToSet(lane'.queue)
        BY <1>7
      <4> QED BY <1>4, <2>1, <2>4, <4>1, <4>2, <4>3 DEF Kept, NothingStranded
    <3> QED BY <3>1, <3>2
  <2> QED BY <2>3, <2>6 DEF Kept
<1> QED
  BY <1>6, <1>8, <1>9, <1>11, <1>12, <1>13, <1>14, <1>15, <1>16

\* A request that goes on without touching anything else.
LEMMA RequestKeeps ==
  ASSUME IInv, UNCHANGED <<rows, worker, registry, stop, runs>>,
         UNCHANGED lane \/ Touch,
         past' = past \/ past' = [past EXCEPT !.faults = @ + 1],
         chat' \in [pc : {"idle", "append", "ensure"}, key : Keys],
         job' \in [pc : {"idle", "append", "mirror", "ensure"}, key : Keys],
         chat'.pc = "append" => ~Replaying,
         job.pc = "mirror" => job'.pc = "mirror" \/ Touch \/ past' # past,
         Len(rows) + Owed' <= MaxRows
  PROVE  IInv'
<1> USE DEF IInv, Parts
<1>1. Ids' = Ids
  BY DEF Ids
<1>2. /\ lane' \in Lanes
      /\ lane'.queue = lane.queue /\ lane'.known = lane.known
      /\ lane'.replayed = lane.replayed
      /\ lane.touched => lane'.touched
      /\ Touch => lane'.touched
  BY Types DEF Touch, Lanes
<1>3. /\ past' \in Pasts
      /\ past'.crashes = past.crashes /\ past'.stops = past.stops
      /\ past'.faults = 0 => past.faults = 0 /\ past' = past
  <2>1. CASE past' = past
    BY <2>1, Types
  <2>2. CASE past' = [past EXCEPT !.faults = @ + 1]
    BY <2>2, Types, FaultCounts
  <2> QED BY <2>1, <2>2
<1>4. Typed'
  BY <1>1, <1>2, <1>3, Types, TypedAgain, IdsAre DEF Lanes, WorkerStates, Stops
<1>5. Memory' /\ Replays' /\ Held'
  <2>1. Memory'
    BY <1>2 DEF Memory
  <2>2. Replays'
    BY <1>2 DEF Replays, Replaying
  <2>3. Held'
    BY <1>2 DEF Held, Busy
  <2> QED BY <2>1, <2>2, <2>3
<1>6. Fresh' /\ Ended' /\ Serial' /\ OneActive'
  <2>1. Fresh'
    BY <1>1, <1>2, <1>3 DEF Fresh, Waits, Marking
  <2>2. Ended' /\ OneActive'
    BY <1>1, <1>2 DEF Ended, OneActive, Marking, Reading
  <2>3. Serial'
    BY <1>3 DEF Serial, Over
  <2> QED BY <2>1, <2>2, <2>3
<1>7. Kept'
  BY <1>1, <1>2, <1>3 DEF Kept, NothingStranded, Holds, Reading, Noticeable
<1> QED BY <1>4, <1>5, <1>6, <1>7

LEMMA ChatKeeps ==
  ASSUME IInv, ChatAsks \/ ChatAppends \/ ChatFails \/ ChatEnsures PROVE IInv'
<1>1. Typed /\ Len(rows) \in Nat
  BY IdsAre DEF IInv
<1>2. chat \in [pc : {"idle", "append", "ensure"}, key : Keys]
  BY <1>1, Types
<1>3. CASE ChatAsks
  <2>1. PICK k \in Keys :
          IF ActiveOn(k) = {}
          THEN chat' = [pc |-> "append", key |-> k] /\ UNCHANGED <<rows, lane, runs>>
          ELSE Append1(k, "deduped") /\ Touch /\ UNCHANGED chat
    BY <1>3 DEF ChatAsks
  <2>2. /\ chat.pc = "idle" /\ ~Replaying /\ Len(rows) + Owed < MaxRows
        /\ UNCHANGED <<worker, registry, job, stop, past>>
    BY <1>1, <1>3, RoomMeans DEF ChatAsks
  <2>3. CASE ActiveOn(k) = {}
    <3>1. chat' = [pc |-> "append", key |-> k] /\ UNCHANGED <<rows, lane, runs>>
      BY <2>1, <2>3
    <3>2. Len(rows) + Owed' <= MaxRows
      BY <1>1, <2>2, <3>1, BoundsAssumption DEF Owed
    <3> QED BY <1>1, <2>2, <3>1, <3>2, Types, RequestKeeps
  <2>4. CASE ActiveOn(k) # {}
    <3>1. Append1(k, "deduped") /\ Touch /\ UNCHANGED chat
      BY <2>1, <2>4
    <3>2. Len(rows) + 1 + Owed' <= MaxRows
      BY <1>1, <2>2, <3>1, BoundsAssumption DEF Owed
    <3> QED BY <1>1, <2>2, <3>1, <3>2, Types, AppendKeeps
  <2> QED BY <2>3, <2>4
<1>4. CASE ChatAppends \/ ChatFails
  <2>1. /\ chat.pc = "append" /\ Append1(chat.key, "pending")
        /\ UNCHANGED <<worker, registry, job, stop>>
        /\ chat' \in {[chat EXCEPT !.pc = "ensure"], [chat EXCEPT !.pc = "idle"]}
    BY <1>4 DEF ChatAppends, ChatFails
  <2>2. \/ Put(Len(rows) + 1) /\ past' = past
        \/ UNCHANGED lane /\ past' = [past EXCEPT !.faults = @ + 1]
    BY <1>4 DEF ChatAppends, ChatFails, Put, Fault
  <2>3. /\ chat.key \in Keys /\ chat'.pc \in {"idle", "ensure"}
        /\ chat' \in [pc : {"idle", "append", "ensure"}, key : Keys]
    BY <1>2, <2>1
  <2>4. Len(rows) + 1 + Owed' <= MaxRows
    <3>1. Len(rows) + Owed <= MaxRows
      BY <1>1 DEF Typed
    <3> QED BY <1>1, <2>1, <2>3, <3>1, BoundsAssumption DEF Owed
  <2>5. past' = [past EXCEPT !.faults = @ + 1] => past' # past
    BY <1>1, Types DEF Pasts
  <2> QED BY <1>1, <2>1, <2>2, <2>3, <2>4, <2>5, Types, AppendKeeps
<1>5. CASE ChatEnsures
  BY <1>5, EnsureKeeps DEF ChatEnsures
<1> QED BY <1>3, <1>4, <1>5

LEMMA JobKeeps ==
  ASSUME IInv, JobAsks \/ JobAppends \/ JobMirrors \/ JobFails \/ JobEnsures
  PROVE  IInv'
<1>1. Typed /\ Len(rows) \in Nat
  BY IdsAre DEF IInv
<1>2. job \in [pc : {"idle", "append", "mirror", "ensure"}, key : Keys]
  BY <1>1, Types
<1>3. CASE JobAsks
  <2>1. PICK k \in Keys :
          IF ActiveOn(k) = {}
          THEN job' = [pc |-> "append", key |-> k] /\ UNCHANGED <<rows, runs>>
          ELSE Append1(k, "deduped") /\ job' = [pc |-> "mirror", key |-> k]
    BY <1>3 DEF JobAsks
  <2>2. /\ job.pc = "idle" /\ Len(rows) + Owed < MaxRows
        /\ UNCHANGED <<lane, worker, registry, chat, stop, past>>
    BY <1>1, <1>3, RoomMeans DEF JobAsks
  <2>3. chat.pc = "append" => ~Replaying
    BY DEF IInv, Parts, Replays, Replaying
  <2>4. CASE ActiveOn(k) = {}
    <3>1. job' = [pc |-> "append", key |-> k] /\ UNCHANGED <<rows, runs>>
      BY <2>1, <2>4
    <3>2. Len(rows) + Owed' <= MaxRows
      BY <1>1, <2>2, <3>1, BoundsAssumption DEF Owed
    <3> QED BY <1>1, <2>2, <2>3, <3>1, <3>2, Types, RequestKeeps
  <2>5. CASE ActiveOn(k) # {}
    <3>1. Append1(k, "deduped") /\ job' = [pc |-> "mirror", key |-> k]
      BY <2>1, <2>5
    <3>2. Len(rows) + 1 + Owed' <= MaxRows
      BY <1>1, <2>2, <3>1, BoundsAssumption DEF Owed
    <3> QED BY <1>1, <2>2, <3>1, <3>2, Types, AppendKeeps
  <2> QED BY <2>4, <2>5
<1>4. CASE JobAppends
  <2>1. /\ job.pc = "append" /\ Append1(job.key, "pending")
        /\ job' = [job EXCEPT !.pc = "mirror"]
        /\ UNCHANGED <<lane, worker, registry, chat, stop, past>>
    BY <1>4 DEF JobAppends
  <2>2. /\ job.key \in Keys /\ job'.pc = "mirror"
        /\ job' \in [pc : {"idle", "append", "mirror", "ensure"}, key : Keys]
    BY <1>2, <2>1
  <2>3. Len(rows) + 1 + Owed' <= MaxRows
    <3>1. Len(rows) + Owed <= MaxRows
      BY <1>1 DEF Typed
    <3> QED BY <1>1, <2>1, <2>2, <3>1, BoundsAssumption DEF Owed
  <2> QED BY <1>1, <2>1, <2>2, <2>3, Types, AppendKeeps
<1>5. CASE JobMirrors \/ JobFails
  <2>1. /\ job.pc = "mirror"
        /\ job' \in {[job EXCEPT !.pc = "ensure"], [job EXCEPT !.pc = "idle"]}
        /\ UNCHANGED <<rows, worker, registry, chat, stop, runs>>
        /\ \/ Touch /\ past' = past
           \/ UNCHANGED lane /\ past' = [past EXCEPT !.faults = @ + 1]
    BY <1>5 DEF JobMirrors, JobFails, Fault
  <2>2. /\ job'.pc \in {"idle", "ensure"}
        /\ job' \in [pc : {"idle", "append", "mirror", "ensure"}, key : Keys]
    BY <1>2, <2>1
  <2>3. Len(rows) + Owed' <= MaxRows
    <3>1. Len(rows) + Owed <= MaxRows
      BY <1>1 DEF Typed
    <3> QED BY <1>1, <2>1, <2>2, <3>1, BoundsAssumption DEF Owed
  <2>4. past' = [past EXCEPT !.faults = @ + 1] => past' # past
    BY <1>1, Types DEF Pasts
  <2>5. chat'.pc = "append" => ~Replaying
    BY <2>1 DEF IInv, Parts, Replays, Replaying
  <2> QED BY <1>1, <2>1, <2>2, <2>3, <2>4, <2>5, Types, RequestKeeps
<1>6. CASE JobEnsures
  BY <1>6, EnsureKeeps DEF JobEnsures
<1> QED BY <1>3, <1>4, <1>5, <1>6

-----------------------------------------------------------------------------
(* The worker with an item in its hands *)

LEMMA TypedStep ==
  ASSUME Typed, UNCHANGED <<chat, job>>, Ids' = Ids,
         rows' \in Seq(Rows), Len(rows') = Len(rows), runs' \in [Ids -> Nat],
         lane' \in Lanes, past' \in Pasts, stop' \in Stops,
         worker' \in [Workers -> WorkerStates],
         registry' \in Workers \cup {NoWorker}
  PROVE  Typed'
<1>1. Owed' = Owed
  BY DEF Owed
<1>2. Len(rows') \in Nat /\ Len(rows') + Owed' <= MaxRows
  BY <1>1, IdsAre DEF Typed
<1> QED BY <1>2, Types, TypedAgain DEF Lanes, WorkerStates, Stops

Touched == UNCHANGED lane \/ Touch

LEMMA TouchedSame ==
  ASSUME Typed, Touched
  PROVE  /\ lane' \in Lanes
         /\ lane'.queue = lane.queue /\ lane'.known = lane.known
         /\ lane'.replayed = lane.replayed
         /\ lane.touched => lane'.touched
BY Types DEF Touched, Touch, Lanes

\* What a worker writes of its item, and when it may let it go.
Writes(i, s) ==
  /\ SetRow(i, s)
  /\ s \in {"running", "completed", "failed"}
  /\ s = "running" => ~Conflicts(i, "running")

LEMMA HandsKeep ==
  ASSUME IInv, NEW w \in Workers, NEW r \in WorkerStates,
         worker[w].pc \in {"loop", "mark", "run", "save"},
         worker' = [worker EXCEPT ![w] = r],
         r.pc \in {"run", "save", "loop", "done"},
         r.pc \in {"run", "save"} => Busy(w) /\ r.item = worker[w].item,
         \/ UNCHANGED rows
         \/ Busy(w) /\ \E s \in States : Writes(worker[w].item, s),
         \/ UNCHANGED runs
         \/ worker[w].pc = "mark" /\ runs' = [runs EXCEPT ![worker[w].item] = @ + 1],
         Busy(w) /\ r.pc \notin {"run", "save"} /\ past'.faults = 0
           => rows'[worker[w].item].state \notin Active,
         Touched, past' \in Pasts, past'.stops = past.stops,
         past'.crashes = past.crashes, past'.faults = 0 => past.faults = 0,
         UNCHANGED <<registry, stop, chat, job>>
  PROVE  IInv'
<1> USE DEF IInv, Parts
<1>1. /\ lane' \in Lanes
      /\ lane'.queue = lane.queue /\ lane'.known = lane.known
      /\ lane'.replayed = lane.replayed
      /\ lane.touched => lane'.touched
  BY TouchedSame
<1>2. PICK k : k = worker[w].item
  OBVIOUS
<1>3. Busy(w) => /\ k \in Ids /\ k \in lane.known /\ k \notin ToSet(lane.queue)
                 /\ \A v \in Workers \ {w} : ~(Busy(v) /\ worker[v].item = k)
  <2>1. lane.known \subseteq Ids
    BY Types DEF Lanes
  <2> QED BY <1>2, <2>1 DEF Held
<1>4. /\ worker'[w] = r
      /\ \A v \in Workers \ {w} : worker'[v] = worker[v]
      /\ worker' \in [Workers -> WorkerStates]
  BY Types
<1>5. lane.replayed /\ \A v \in Workers : worker[v].pc # "replay"
  <2>1. worker[w].pc \notin Resting /\ worker[w].pc # "replay"
    BY DEF Resting
  <2> QED BY <2>1 DEF Memory, Replays
<1>6. /\ rows' \in Seq(Rows) /\ Len(rows') = Len(rows) /\ Ids' = Ids
      /\ \A j \in Ids : rows'[j].key = rows[j].key
      /\ \A j \in Ids : \/ rows'[j].state = rows[j].state
                        \/ /\ j = k /\ Busy(w)
                           /\ rows'[k].state \in {"running", "completed", "failed"}
                           /\ rows'[k].state = "running" => ~Conflicts(k, "running")
  <2>1. CASE UNCHANGED rows
    BY <2>1, Types DEF Ids
  <2>2. CASE Busy(w) /\ \E s \in States : Writes(k, s)
    <3>1. PICK s \in States : Writes(k, s)
      BY <2>2
    <3> QED BY <1>3, <2>2, <3>1, SetRowMoves DEF Writes
  <2> QED BY <1>2, <2>1, <2>2
<1>7. /\ runs' \in [Ids -> Nat]
      /\ \A j \in Ids : \/ runs'[j] = runs[j]
                        \/ j = k /\ worker[w].pc = "mark" /\ runs'[j] = runs[j] + 1
  BY <1>2, Types
<1>8. Typed'
  BY <1>1, <1>4, <1>6, <1>7, Types, TypedStep
<1>9. Memory'
  BY <1>1, <1>5 DEF Memory
<1>10. Replays'
  BY <1>4, <1>5 DEF Replays
<1>11. \A v \in Workers : Busy(v)' => Busy(v) /\ worker'[v].item = worker[v].item
  BY <1>4 DEF Busy
<1>12. Held'
  BY <1>1, <1>11 DEF Held
<1>13. \A v \in Workers : \A i \in Ids : Marking(v, i)' => Marking(v, i) /\ v # w
  BY <1>4 DEF Marking
<1>14. Fresh'
  <2>1. \A i \in Ids : Waits(i)' => Waits(i)
    BY <1>1, <1>13 DEF Waits
  <2>2. past.crashes \in Nat /\ past'.crashes = past.crashes
    BY Types DEF Pasts
  <2>3. ASSUME worker[w].pc = "mark" PROVE k \in Ids /\ ~Waits(k)' /\ Waits(k)
    <3>1. Busy(w) /\ Marking(w, k)
      BY <1>2, <2>3 DEF Busy, Marking
    <3>2. k \in Ids /\ \A v \in Workers : ~Marking(v, k)'
      BY <1>3, <1>13, <3>1 DEF Marking, Busy
    <3> QED BY <1>1, <1>3, <3>1, <3>2 DEF Waits
  <2>4. \A i \in Ids : runs[i] \in Nat /\ runs[i] <= 1 + past.crashes
    BY Types DEF Fresh
  <2>5. ASSUME NEW i \in Ids
        PROVE  /\ runs'[i] <= 1 + past'.crashes
               /\ Waits(i)' => runs'[i] <= past'.crashes
    <3>1. CASE runs'[i] = runs[i]
      BY <2>1, <2>2, <3>1 DEF Fresh
    <3>2. CASE i = k /\ worker[w].pc = "mark" /\ runs'[i] = runs[i] + 1
      BY <2>2, <2>3, <2>4, <3>2 DEF Fresh
    <3> QED BY <1>7, <3>1, <3>2
  <2> QED BY <1>6, <2>5 DEF Fresh
<1>15. Ended'
  <2> SUFFICES ASSUME NEW i \in Ids, rows'[i].state \in {"completed", "failed"}
               PROVE  /\ i \notin ToSet(lane'.queue)
                      /\ \A v \in Workers : ~Marking(v, i)' /\ ~Reading(v, i)'
    BY <1>6 DEF Ended
  <2>1. \A v \in Workers : ~Reading(v, i)'
    BY <1>4, <1>5 DEF Reading
  <2>2. CASE rows'[i].state = rows[i].state
    BY <1>1, <1>13, <2>1, <2>2 DEF Ended
  <2>3. CASE i = k /\ Busy(w)
    <3>1. \A v \in Workers : ~Marking(v, i)'
      BY <1>3, <1>13, <2>3 DEF Marking, Busy
    <3> QED BY <1>1, <1>3, <2>1, <2>3, <3>1
  <2> QED BY <1>6, <2>2, <2>3
<1>16. Serial'
  BY <1>4 DEF Serial, Over
<1>17. OneActive'
  <2> SUFFICES ASSUME NEW i \in Ids, NEW j \in Ids,
                      rows'[i].key = rows'[j].key,
                      rows'[i].state \in Active, rows'[j].state \in Active
               PROVE  i = j
    BY <1>6 DEF OneActive
  <2>1. rows[i].key = rows[j].key
    BY <1>6
  <2>2. ASSUME NEW m \in Ids, rows'[m].state \in Active, rows'[m].state # rows[m].state
        PROVE  m = k /\ \A n \in Ids \ {k} : rows[n].key = rows[k].key
                                               => rows[n].state \notin Active
    BY <1>6, <2>2 DEF Active, Conflicts, ActiveOn
  <2> QED BY <1>6, <2>1, <2>2 DEF OneActive
<1>18. Kept'
  <2> SUFFICES ASSUME past'.faults = 0, NEW i \in Ids PROVE
        /\ rows'[i].state = "pending" =>
             \/ i \in ToSet(lane'.queue) \/ Noticeable(i)'
             \/ \E v \in Workers : Holds(v, i)' \/ Reading(v, i)'
        /\ rows'[i].state = "running" =>
             \/ \E v \in Workers : Holds(v, i)' \/ Reading(v, i)'
             \/ ~lane'.replayed
    BY <1>1, <1>5, <1>6 DEF Kept, NothingStranded
  <2>1. Noticeable(i) => Noticeable(i)'
    BY <1>1 DEF Noticeable
  <2>2. \A v \in Workers : ~Reading(v, i)
    BY <1>5 DEF Reading
  <2>3. \A v \in Workers \ {w} : Holds(v, i) => Holds(v, i)'
    BY <1>4 DEF Holds
  <2>4. ASSUME Busy(w), i = k, rows'[i].state \in Active PROVE Holds(w, i)'
    BY <1>2, <1>4, <2>4 DEF Holds
  <2>5. CASE i = k /\ Busy(w)
    BY <2>4, <2>5 DEF Active
  <2>6. CASE ~(i = k /\ Busy(w))
    <3>1. ~Holds(w, i) /\ rows'[i].state = rows[i].state
      BY <1>2, <1>6, <2>6 DEF Holds, Busy
    <3> QED BY <1>1, <2>1, <2>2, <2>3, <3>1 DEF Kept, NothingStranded
  <2> QED BY <2>5, <2>6
<1> QED
  BY <1>8, <1>9, <1>10, <1>12, <1>14, <1>15, <1>16, <1>17, <1>18

\* Each step of a worker that takes up, executes or ends an item is of this
\* kind.
LEMMA WorkKeeps ==
  ASSUME IInv, NEW w \in Workers,
         \/ Mark(w) \/ MarkRefused(w) \/ MarkFails(w) \/ ExecutorEnds(w)
         \/ Save(w) \/ SaveFails(w) \/ WorkerExits(w)
  PROVE  IInv'
<1> USE DEF IInv, Parts
<1> DEFINE i == worker[w].item
           gone == [Absent EXCEPT !.pc = "done"]
           back == [Absent EXCEPT !.pc = "loop", !.cancel = worker[w].cancel]
<1>1. /\ worker[w] \in WorkerStates /\ worker \in [Workers -> WorkerStates]
      /\ past \in Pasts
  BY Types
<1>2. gone \in WorkerStates /\ back \in WorkerStates
  BY <1>1, NewWorkerTyped DEF WorkerStates
<1>3. /\ gone.pc = "done" /\ back.pc = "loop"
  BY DEF Absent
<1>4. Busy(w) => i \in Ids
  <2>1. lane.known \subseteq Ids
    BY Types DEF Lanes
  <2> QED BY <2>1 DEF Held
<1>5. /\ Fault => /\ past' \in Pasts /\ past'.faults # 0
                  /\ past'.stops = past.stops /\ past'.crashes = past.crashes
      /\ past' = past => past' \in Pasts
      /\ past' = [past EXCEPT !.deaths = 1] =>
           /\ past' \in Pasts /\ past'.faults = past.faults
           /\ past'.stops = past.stops /\ past'.crashes = past.crashes
  BY <1>1 DEF Fault, Pasts
<1>6. CASE Mark(w)
  <2> DEFINE r == IF worker[w].cancel
                  THEN [worker[w] EXCEPT !.pc = "save", !.verdict = "failed"]
                  ELSE [worker[w] EXCEPT !.pc = "run"]
  <2>1. /\ worker[w].pc = "mark" /\ SetRow(i, "running") /\ Touch
        /\ ~Conflicts(i, "running")
        /\ UNCHANGED <<registry, chat, job, stop, past>>
        /\ worker' = [worker EXCEPT ![w] = r]
        /\ UNCHANGED runs \/ runs' = [runs EXCEPT ![i] = @ + 1]
    BY <1>1, <1>6 DEF Mark
  <2>2. r \in WorkerStates /\ r.pc \in {"run", "save"} /\ r.item = i
    BY <1>1 DEF WorkerStates
  <2>3. Busy(w)
    BY <2>1 DEF Busy
  <2>4. \E s \in States : Writes(i, s)
    BY <2>1 DEF Writes, States, Active
  <2> HIDE DEF r
  <2> QED BY <1>5, <2>1, <2>2, <2>3, <2>4, HandsKeep DEF Touched
<1>7. CASE MarkRefused(w)
  <2>1. /\ worker[w].pc = "mark" /\ Conflicts(i, "running")
        /\ worker' = [worker EXCEPT ![w] = gone]
        /\ past' = [past EXCEPT !.deaths = 1]
        /\ UNCHANGED <<rows, lane, registry, chat, job, stop, runs>>
    BY <1>7 DEF MarkRefused
  <2>2. Busy(w)
    BY <2>1 DEF Busy
  <2>3. rows'[i].state \notin Active
    BY <1>4, <2>1, <2>2 DEF OneActive, Conflicts, ActiveOn
  <2> HIDE DEF gone
  <2> QED BY <1>2, <1>3, <1>5, <2>1, <2>3, HandsKeep DEF Touched
<1>8. CASE MarkFails(w)
  <2>1. /\ worker[w].pc = "mark" /\ ~Conflicts(i, "running") /\ Fault
        /\ UNCHANGED rows \/ SetRow(i, "running")
        /\ worker' = [worker EXCEPT ![w] = gone]
        /\ UNCHANGED <<lane, registry, chat, job, stop, runs>>
    BY <1>8 DEF MarkFails
  <2>2. Busy(w)
    BY <2>1 DEF Busy
  <2>3. UNCHANGED rows \/ \E s \in States : Writes(i, s)
    BY <2>1 DEF Writes, States, Active
  <2> HIDE DEF gone
  <2> QED BY <1>2, <1>3, <1>5, <2>1, <2>2, <2>3, HandsKeep DEF Touched
<1>9. CASE ExecutorEnds(w)
  <2>1. PICK v \in {"completed", "failed"} :
          worker' = [worker EXCEPT ![w].pc = "save", ![w].verdict = v]
    BY <1>9 DEF ExecutorEnds
  <2> DEFINE r == [worker[w] EXCEPT !.pc = "save", !.verdict = v]
  <2>2. worker' = [worker EXCEPT ![w] = r]
    BY <1>1, <2>1
  <2>3. /\ worker[w].pc = "run"
        /\ UNCHANGED <<rows, lane, registry, chat, job, stop, runs, past>>
    BY <1>9 DEF ExecutorEnds
  <2>4. r \in WorkerStates /\ r.pc = "save" /\ r.item = i
    BY <1>1 DEF WorkerStates
  <2>5. Busy(w)
    BY <2>3 DEF Busy
  <2> HIDE DEF r
  <2> QED BY <1>5, <2>2, <2>3, <2>4, <2>5, HandsKeep DEF Touched
<1>10. CASE Save(w)
  <2>1. /\ worker[w].pc = "save" /\ SetRow(i, worker[w].verdict) /\ Touch
        /\ worker' = [worker EXCEPT ![w] = back]
        /\ UNCHANGED <<registry, chat, job, stop, runs, past>>
    BY <1>10 DEF Save
  <2>2. Busy(w)
    BY <2>1 DEF Busy
  <2>3. worker[w].verdict \in {"completed", "failed"}
    BY <1>1 DEF WorkerStates
  <2>4. \E s \in States : Writes(i, s)
    BY <2>1, <2>3 DEF Writes, States, Active
  <2>5. rows'[i].state \notin Active
    <3>1. worker[w].verdict \in States
      BY <2>3 DEF States
    <3>2. rows'[i].state = worker[w].verdict
      BY <1>4, <2>1, <2>2, <3>1, SetRowMoves
    <3> QED BY <2>3, <3>2 DEF Active
  <2> HIDE DEF back
  <2> QED BY <1>2, <1>3, <1>5, <2>1, <2>2, <2>4, <2>5, HandsKeep DEF Touched
<1>11. CASE SaveFails(w)
  <2> DEFINE r == IF worker[w].verdict = "completed"
                  THEN [worker[w] EXCEPT !.verdict = "failed"] ELSE back
  <2>1. /\ worker[w].pc = "save" /\ Fault
        /\ UNCHANGED rows \/ SetRow(i, worker[w].verdict)
        /\ worker' = [worker EXCEPT ![w] = r]
        /\ UNCHANGED <<lane, registry, chat, job, stop, runs>>
    BY <1>1, <1>11 DEF SaveFails
  <2>2. Busy(w)
    BY <2>1 DEF Busy
  <2>3. worker[w].verdict \in {"completed", "failed"}
    BY <1>1 DEF WorkerStates
  <2>4. UNCHANGED rows \/ \E s \in States : Writes(i, s)
    BY <2>1, <2>3 DEF Writes, States, Active
  <2>5. /\ r \in WorkerStates /\ r.pc \in {"save", "loop"}
        /\ r.pc = "save" => r.item = i
    <3> HIDE DEF back
    <3>1. CASE worker[w].verdict = "completed"
      BY <1>1, <2>1, <3>1 DEF WorkerStates
    <3>2. CASE worker[w].verdict # "completed"
      BY <1>2, <1>3, <3>2
    <3> QED BY <3>1, <3>2
  <2> HIDE DEF r
  <2> QED BY <1>5, <2>1, <2>2, <2>4, <2>5, HandsKeep DEF Touched
<1>12. CASE WorkerExits(w)
  <2>1. /\ worker[w].pc = "loop" /\ worker' = [worker EXCEPT ![w] = gone]
        /\ UNCHANGED <<rows, lane, registry, chat, job, stop, runs, past>>
    BY <1>12 DEF WorkerExits
  <2>2. ~Busy(w)
    BY <2>1 DEF Busy
  <2> HIDE DEF gone
  <2> QED BY <1>2, <1>3, <1>5, <2>1, <2>2, HandsKeep DEF Touched
<1> QED BY <1>6, <1>7, <1>8, <1>9, <1>10, <1>11, <1>12

-----------------------------------------------------------------------------
(* The replay and the queue *)

\* The steps of a worker that has nothing in its hands keep the others and
\* only fill or empty memory.
LEMMA Begins ==
  ASSUME IInv, NEW w \in Workers, ReplayBegins(w) PROVE IInv'
<1> USE DEF IInv, Parts
<1> DEFINE unknown == {i \in Ids \ lane.known : rows[i].state \in Active}
<1>1. /\ worker[w].pc = "start" /\ chat.pc # "append"
      /\ \A v \in Workers : worker[v].pc # "replay"
      /\ UNCHANGED <<rows, registry, chat, job, stop, runs, past>>
  BY DEF ReplayBegins, Replaying
<1>2. /\ worker[w] \in WorkerStates /\ worker \in [Workers -> WorkerStates]
      /\ lane \in Lanes
  BY Types
<1>3. Ids' = Ids
  BY <1>1 DEF Ids
<1>4. /\ InOrder(unknown) \in Seq(Ids) /\ ToSet(InOrder(unknown)) = unknown
      /\ Distinct(InOrder(unknown))
  BY ReadInOrder
<1>5. /\ \A v \in Workers \ {w} : worker'[v] = worker[v]
      /\ worker'[w].pc \in {"loop", "replay"} /\ worker'[w].item = worker[w].item
      /\ worker' \in [Workers -> WorkerStates] /\ lane' \in Lanes
      /\ lane'.queue = lane.queue /\ lane'.known = lane.known
      /\ lane'.touched = lane.touched /\ lane'.replayed
      /\ worker'[w].pc = "replay" <=> ~lane.replayed
      /\ ~lane.replayed => worker'[w].todo = InOrder(unknown)
  <2>1. CASE lane.replayed
    <3>1. worker' = [worker EXCEPT ![w].pc = "loop"] /\ UNCHANGED lane
      BY <2>1 DEF ReplayBegins
    <3> QED BY <1>2, <2>1, <3>1 DEF WorkerStates
  <2>2. CASE ~lane.replayed
    <3>1. /\ worker' = [worker EXCEPT ![w].pc = "replay", ![w].todo = InOrder(unknown)]
          /\ lane' = [lane EXCEPT !.replayed = TRUE]
      BY <2>2 DEF ReplayBegins, Unknown
    <3> HIDE DEF unknown
    <3> QED BY <1>2, <1>4, <2>2, <3>1 DEF WorkerStates, Lanes
  <2> QED BY <2>1, <2>2
<1>6. Typed'
  BY <1>1, <1>3, <1>5, Types, TypedStep
<1>7. Memory'
  BY <1>5 DEF Memory
<1>8. Replays'
  <2> SUFFICES ASSUME NEW v \in Workers, worker'[v].pc = "replay" PROVE
        /\ lane'.replayed /\ chat'.pc # "append" /\ Distinct(worker'[v].todo)
        /\ ToSet(worker'[v].todo) \cap lane'.known = {}
        /\ \A u \in Workers \ {v} : worker'[u].pc \in Resting
    BY DEF Replays
  <2>1. v = w /\ ~lane.replayed
    BY <1>1, <1>5
  <2> QED BY <1>1, <1>4, <1>5, <2>1 DEF Memory
<1>9. Held'
  <2>1. ~Busy(w) /\ ~Busy(w)' /\ \A v \in Workers \ {w} : Busy(v)' <=> Busy(v)
    BY <1>1, <1>5 DEF Busy
  <2> QED BY <1>5, <2>1 DEF Held
<1>10. Fresh'
  <2>1. \A v \in Workers : \A i \in Ids : Marking(v, i)' => Marking(v, i)
    BY <1>1, <1>5 DEF Marking
  <2> QED BY <1>1, <1>3, <1>5, <2>1 DEF Fresh, Waits
<1>11. Ended'
  <2>1. \A v \in Workers : \A i \in Ids : Marking(v, i)' => Marking(v, i)
    BY <1>1, <1>5 DEF Marking
  <2>2. \A v \in Workers : \A i \in Ids : Reading(v, i)' => rows[i].state \in Active
    BY <1>1, <1>4, <1>5 DEF Reading
  <2> QED BY <1>1, <1>3, <1>5, <2>1, <2>2 DEF Ended, Active
<1>12. Serial'
  <2>1. \A v \in Workers : Over(v)' <=> Over(v)
    BY <1>1, <1>5 DEF Over
  <2> QED BY <1>1, <2>1 DEF Serial
<1>13. OneActive'
  BY <1>1, <1>3 DEF OneActive
<1>14. Kept'
  <2> SUFFICES ASSUME past.faults = 0, NEW i \in Ids, rows[i].state \in Active PROVE
        /\ rows[i].state = "pending" =>
             \/ i \in ToSet(lane.queue) \/ Noticeable(i)'
             \/ \E v \in Workers : Holds(v, i)' \/ Reading(v, i)'
        /\ rows[i].state = "running" =>
             \E v \in Workers : Holds(v, i)' \/ Reading(v, i)'
    BY <1>1, <1>3, <1>5 DEF Kept, NothingStranded, Active
  <2>1. CASE lane.replayed
    <3>1. \A v \in Workers : Holds(v, i) => Holds(v, i)'
      BY <1>1, <1>5 DEF Holds
    <3>2. \A v \in Workers : ~Reading(v, i)
      BY <1>1 DEF Reading
    <3>3. Noticeable(i) => Noticeable(i)'
      BY <1>1, <1>5, <2>1 DEF Noticeable
    <3> QED BY <2>1, <3>1, <3>2, <3>3 DEF Kept, NothingStranded
  <2>2. CASE ~lane.replayed
    <3>1. i \notin lane.known => Reading(w, i)'
      BY <1>4, <1>5, <2>2 DEF Reading
    <3>2. \A v \in Workers : ~Holds(v, i) /\ ~Reading(v, i)
      BY <1>1, <2>2 DEF Memory, Resting, Holds, Reading
    <3>3. rows[i].state = "running" => i \notin lane.known
      BY <2>2 DEF Kept
    <3> QED BY <3>1, <3>2, <3>3 DEF Kept, NothingStranded, Noticeable
  <2> QED BY <2>1, <2>2
<1> QED
  BY <1>6, <1>7, <1>8, <1>9, <1>10, <1>11, <1>12, <1>13, <1>14

\* What holds while a worker replays.
LEMMA InReplay ==
  ASSUME IInv, NEW w \in Workers, worker[w].pc = "replay"
  PROVE  /\ lane.replayed
         /\ \A v \in Workers : ~Busy(v) /\ \A i : ~Holds(v, i) /\ ~Marking(v, i)
         /\ \A v \in Workers : \A i : Reading(v, i) <=> v = w /\ i \in ToSet(worker[w].todo)
         /\ ToSet(worker[w].todo) \subseteq Ids \ lane.known
         /\ worker[w].todo \in Seq(Ids)
<1>1. \A v \in Workers \ {w} : worker[v].pc \in Resting
  BY DEF IInv, Parts, Replays
<1>2. worker[w].todo \in Seq(Ids)
  BY Types DEF IInv, WorkerStates
<1>3. ToSet(worker[w].todo) \subseteq Ids \ lane.known
  BY <1>2, SetOfSeq DEF IInv, Parts, Replays
<1>4. \A v \in Workers : ~Busy(v) /\ \A i : ~Holds(v, i) /\ ~Marking(v, i)
  BY <1>1 DEF Busy, Holds, Marking, Resting
<1>5. \A v \in Workers : \A i : Reading(v, i) <=> v = w /\ i \in ToSet(worker[w].todo)
  BY <1>1 DEF Reading, Resting
<1> QED BY <1>2, <1>3, <1>4, <1>5 DEF IInv, Parts, Replays

LEMMA Resets ==
  ASSUME IInv, NEW w \in Workers, ReplayResets(w) PROVE IInv'
<1> USE DEF IInv, Parts
<1>1. /\ worker[w].pc = "replay" /\ Interrupted(w) # {}
      /\ SetRow(Min(Interrupted(w)), "pending") /\ Touch
      /\ UNCHANGED <<worker, registry, chat, job, stop, runs, past>>
  BY DEF ReplayResets
<1>2. PICK k : k = Min(Interrupted(w))
  OBVIOUS
<1>3. k \in Ids /\ k \in ToSet(worker[w].todo) /\ rows[k].state = "running"
  <2>1. Interrupted(w) \in SUBSET Ids
    BY <1>1, InReplay DEF Interrupted
  <2>2. k \in Interrupted(w)
    BY <1>1, <1>2, <2>1, FirstOf
  <2> QED BY <2>1, <2>2 DEF Interrupted
<1>4. /\ rows' \in Seq(Rows) /\ Len(rows') = Len(rows) /\ Ids' = Ids
      /\ \A j \in Ids : /\ rows'[j].key = rows[j].key
                        /\ rows'[j].state = IF j = k THEN "pending" ELSE rows[j].state
  <2>1. "pending" \in States
    BY DEF States, Active
  <2> QED BY <1>1, <1>2, <1>3, <2>1, SetRowMoves
<1>5. /\ lane' \in Lanes
      /\ lane'.queue = lane.queue /\ lane'.known = lane.known
      /\ lane'.replayed = lane.replayed
      /\ lane.touched => lane'.touched
  BY <1>1, TouchedSame DEF Touched
<1>6. Typed'
  BY <1>1, <1>4, <1>5, Types, TypedStep
<1>7. Memory' /\ Replays' /\ Held'
  BY <1>1, <1>5 DEF Memory, Replays, Held, Busy
<1>8. Fresh' /\ Serial'
  BY <1>1, <1>4, <1>5 DEF Fresh, Serial, Waits, Marking, Over
<1>9. Ended'
  BY <1>1, <1>4, <1>5 DEF Ended, Marking, Reading
<1>10. OneActive'
  <2>1. \A j \in Ids : rows'[j].state \in Active => rows[j].state \in Active
    BY <1>3, <1>4 DEF Active
  <2> QED BY <1>4, <2>1 DEF OneActive
<1>11. Kept'
  <2>1. lane'.replayed
    BY <1>1, <1>5, InReplay
  <2>2. Reading(w, k)'
    BY <1>1, <1>3 DEF Reading
  <2>3. \A i \in Ids : Noticeable(i) => Noticeable(i)'
    BY <1>1, <1>5 DEF Noticeable
  <2>4. \A v \in Workers : \A i \in Ids : /\ Holds(v, i)' <=> Holds(v, i)
                                          /\ Reading(v, i)' <=> Reading(v, i)
    BY <1>1 DEF Holds, Reading
  <2> QED BY <1>1, <1>4, <1>5, <2>1, <2>2, <2>3, <2>4 DEF Kept, NothingStranded
<1> QED BY <1>6, <1>7, <1>8, <1>9, <1>10, <1>11

LEMMA Puts ==
  ASSUME IInv, NEW w \in Workers, ReplayPuts(w) PROVE IInv'
<1> USE DEF IInv, Parts
<1> DEFINE todo == worker[w].todo
<1>1. /\ worker[w].pc = "replay" /\ Interrupted(w) = {}
      /\ lane' = [lane EXCEPT !.queue = @ \o todo, !.known = @ \cup ToSet(todo)]
      /\ worker' = [worker EXCEPT ![w].pc = "loop", ![w].todo = <<>>]
      /\ UNCHANGED <<rows, registry, chat, job, stop, runs, past>>
  BY DEF ReplayPuts
<1>2. /\ worker[w] \in WorkerStates /\ worker \in [Workers -> WorkerStates]
      /\ lane \in Lanes
  BY Types
<1>3. Ids' = Ids
  BY <1>1 DEF Ids
<1>4. /\ todo \in Seq(Ids) /\ ToSet(todo) \subseteq Ids \ lane.known
      /\ Distinct(todo) /\ lane.replayed
      /\ \A v \in Workers \ {w} : worker[v].pc \in Resting
  BY <1>1, InReplay DEF Replays
<1>5. /\ lane.queue \o todo \in Seq(Ids)
      /\ ToSet(lane.queue \o todo) = ToSet(lane.queue) \cup ToSet(todo)
      /\ Distinct(lane.queue \o todo)
  <2>1. lane.queue \in Seq(Ids)
    BY <1>2 DEF Lanes
  <2>2. ToSet(lane.queue) \cap ToSet(todo) = {}
    BY <1>4 DEF Memory
  <2>3. lane.queue \o todo \in Seq(Ids)
    BY <1>4, <2>1
  <2> QED BY <1>4, <2>1, <2>2, <2>3, SetOfConcat DEF Memory
<1>6. /\ lane' \in Lanes /\ lane'.queue = lane.queue \o todo
      /\ lane'.known = lane.known \cup ToSet(todo)
      /\ lane'.replayed = lane.replayed /\ lane'.touched = lane.touched
  <2>1. PICK q, K : q = lane.queue \o todo /\ K = lane.known \cup ToSet(todo)
    OBVIOUS
  <2>2. q \in Seq(Ids) /\ K \in SUBSET Ids
    BY <1>2, <1>4, <1>5, <2>1 DEF Lanes
  <2>3. lane' = [lane EXCEPT !.queue = q, !.known = K]
    BY <1>1, <2>1
  <2> QED BY <1>2, <2>1, <2>2, <2>3 DEF Lanes
<1>7. /\ \A v \in Workers \ {w} : worker'[v] = worker[v]
      /\ worker'[w].pc = "loop" /\ worker' \in [Workers -> WorkerStates]
  <2> DEFINE r == [worker[w] EXCEPT !.pc = "loop", !.todo = <<>>]
  <2>1. r \in WorkerStates /\ r.pc = "loop"
    <3>1. <<>> \in Seq(Ids)
      OBVIOUS
    <3> QED BY <1>2, <3>1 DEF WorkerStates
  <2>2. worker' = [worker EXCEPT ![w] = r]
    BY <1>1, <1>2
  <2> HIDE DEF r
  <2> QED BY <1>2, <2>1, <2>2
<1>8. Typed'
  BY <1>1, <1>3, <1>6, <1>7, Types, TypedStep
<1>9. Memory'
  BY <1>4, <1>5, <1>6 DEF Memory
<1>10. \A v \in Workers : worker'[v].pc \in Resting \cup {"loop"}
  BY <1>4, <1>7
<1>11. Replays' /\ Held'
  BY <1>10 DEF Replays, Held, Busy, Resting
<1>12. \A v \in Workers : \A i : ~Marking(v, i)' /\ ~Reading(v, i)'
  BY <1>10 DEF Marking, Reading, Resting
<1>13. Fresh'
  BY <1>1, <1>3, <1>4, <1>5, <1>6, <1>12 DEF Fresh, Waits
<1>14. Ended'
  <2>1. \A i \in ToSet(todo) : Reading(w, i)
    BY <1>1 DEF Reading
  <2> QED BY <1>1, <1>3, <1>5, <1>6, <1>12, <2>1 DEF Ended
<1>15. Serial'
  BY <1>1, <1>7 DEF Serial, Over
<1>16. OneActive'
  BY <1>1, <1>3 DEF OneActive
<1>17. Kept'
  <2> SUFFICES ASSUME past.faults = 0, NEW i \in Ids, rows[i].state \in Active
               PROVE  /\ rows[i].state = "pending"
                      /\ i \in ToSet(lane'.queue) \/ Noticeable(i)'
    BY <1>1, <1>3, <1>4, <1>6 DEF Kept, NothingStranded, Active
  <2>1. Noticeable(i) => i \in ToSet(todo) \/ Noticeable(i)'
    BY <1>1, <1>6 DEF Noticeable
  <2>2. \A v \in Workers : ~Holds(v, i) /\ (Reading(v, i) => i \in ToSet(todo))
    BY <1>1, InReplay
  <2>3. i \in ToSet(todo) => rows[i].state # "running"
    BY <1>1 DEF Interrupted
  <2> QED BY <1>4, <1>5, <1>6, <2>1, <2>2, <2>3 DEF Kept, NothingStranded, Active
<1> QED
  BY <1>8, <1>9, <1>11, <1>13, <1>14, <1>15, <1>16, <1>17

LEMMA ResetsFail ==
  ASSUME IInv, NEW w \in Workers, ReplayFails(w) PROVE IInv'
<1> USE DEF IInv, Parts
<1> DEFINE todo == worker[w].todo
           gone == [Absent EXCEPT !.pc = "done"]
           met == {i \in ToSet(todo) : i <= Min(Interrupted(w))}
<1>1. /\ worker[w].pc = "replay" /\ Interrupted(w) # {} /\ Fault
      /\ UNCHANGED rows \/ SetRow(Min(Interrupted(w)), "pending")
      /\ lane' = [lane EXCEPT !.known = @ \cup met]
      /\ worker' = [worker EXCEPT ![w] = gone]
      /\ UNCHANGED <<registry, chat, job, stop, runs>>
  BY DEF ReplayFails
<1>2. PICK k : k = Min(Interrupted(w))
  OBVIOUS
<1>3. k \in Ids /\ rows[k].state = "running"
  <2>1. Interrupted(w) \in SUBSET Ids
    BY <1>1, InReplay DEF Interrupted
  <2>2. k \in Interrupted(w)
    BY <1>1, <1>2, <2>1, FirstOf
  <2> QED BY <2>1, <2>2 DEF Interrupted
<1>4. /\ rows' \in Seq(Rows) /\ Len(rows') = Len(rows) /\ Ids' = Ids
      /\ \A j \in Ids : /\ rows'[j].key = rows[j].key
                        /\ rows'[j].state \in {rows[j].state, "pending"}
                        /\ rows'[j].state # rows[j].state => rows[j].state = "running"
  <2>1. CASE UNCHANGED rows
    BY <2>1, Types DEF Ids
  <2>2. CASE SetRow(k, "pending")
    <3>1. "pending" \in States
      BY DEF States, Active
    <3> QED BY <1>3, <2>2, <3>1, SetRowMoves
  <2> QED BY <1>1, <1>2, <2>1, <2>2
<1>5. /\ met \subseteq Ids \ lane.known /\ lane.replayed
      /\ \A v \in Workers : \A i : ~Holds(v, i) /\ ~Marking(v, i)
  BY <1>1, InReplay
<1>6. /\ lane' \in Lanes /\ lane'.queue = lane.queue
      /\ lane'.known = lane.known \cup met
      /\ lane'.replayed = lane.replayed
  <2> HIDE DEF met
  <2> QED BY <1>1, <1>5, Types DEF Lanes
<1>7. /\ past' \in Pasts /\ past'.faults # 0
      /\ past'.stops = past.stops /\ past'.crashes = past.crashes
  BY <1>1, Types DEF Fault, Pasts
<1>8. /\ \A v \in Workers \ {w} : worker'[v] = worker[v]
      /\ worker'[w].pc = "done" /\ worker' \in [Workers -> WorkerStates]
      /\ \A v \in Workers : worker'[v].pc \in Resting
  <2>1. gone \in WorkerStates /\ gone.pc = "done"
    BY NewWorkerTyped DEF WorkerStates, Absent
  <2>2. \A v \in Workers \ {w} : worker[v].pc \in Resting
    BY <1>1 DEF Replays
  <2> HIDE DEF gone
  <2> QED BY <1>1, <2>1, <2>2, Types DEF Resting
<1>9. Typed'
  BY <1>1, <1>4, <1>6, <1>7, <1>8, Types, TypedStep
<1>10. Memory'
  BY <1>5, <1>6 DEF Memory
<1>11. Replays' /\ Held'
  BY <1>8 DEF Replays, Held, Busy, Resting
<1>12. \A v \in Workers : \A i : ~Marking(v, i)' /\ ~Reading(v, i)'
  BY <1>8 DEF Marking, Reading, Resting
<1>13. Fresh'
  BY <1>1, <1>4, <1>6, <1>7, <1>12 DEF Fresh, Waits
<1>14. Ended'
  BY <1>4, <1>6, <1>12 DEF Ended
<1>15. Serial'
  BY <1>1, <1>7, <1>8 DEF Serial, Over
<1>16. OneActive'
  BY <1>4 DEF OneActive, Active
<1>17. Kept'
  BY <1>5, <1>6, <1>7 DEF Kept, NothingStranded
<1> QED
  BY <1>9, <1>10, <1>11, <1>13, <1>14, <1>15, <1>16, <1>17

\* A worker that takes an item of the queue changes only itself.
LEMMA TakesItem ==
  ASSUME worker \in [Workers -> WorkerStates], NEW w \in Workers,
         NEW k \in 0 .. MaxRows,
         worker' = [worker EXCEPT ![w].pc = "mark", ![w].item = k]
  PROVE  /\ \A v \in Workers \ {w} : worker'[v] = worker[v]
         /\ worker'[w].pc = "mark" /\ worker'[w].item = k
         /\ worker' \in [Workers -> WorkerStates]
<1>1. worker[w] \in WorkerStates
  OBVIOUS
<1>2. worker' = [worker EXCEPT ![w] = [worker[w] EXCEPT !.pc = "mark", !.item = k]]
  OBVIOUS
<1>3. [worker[w] EXCEPT !.pc = "mark", !.item = k] \in WorkerStates
  BY <1>1 DEF WorkerStates
<1> QED BY <1>1, <1>2, <1>3 DEF WorkerStates

LEMMA Dequeues ==
  ASSUME IInv, NEW w \in Workers, Dequeue(w) PROVE IInv'
<1> USE DEF IInv, Parts
<1>1. /\ worker[w].pc = "loop" /\ lane.queue # <<>>
      /\ worker' = [worker EXCEPT ![w].pc = "mark", ![w].item = Head(lane.queue)]
      /\ lane' = [lane EXCEPT !.queue = Tail(@)]
      /\ UNCHANGED <<rows, registry, chat, job, stop, runs, past>>
  BY DEF Dequeue
<1>2. /\ worker \in [Workers -> WorkerStates] /\ lane \in Lanes
      /\ lane.queue \in Seq(Ids)
  BY Types DEF Lanes
<1>3. Ids' = Ids
  BY <1>1 DEF Ids
<1>4. PICK k : k = Head(lane.queue)
  OBVIOUS
<1>5. /\ k \in ToSet(lane.queue) /\ Tail(lane.queue) \in Seq(Ids)
      /\ ToSet(lane.queue) = ToSet(Tail(lane.queue)) \cup {k}
      /\ Distinct(Tail(lane.queue)) /\ k \notin ToSet(Tail(lane.queue))
  BY <1>1, <1>2, <1>4, SetOfTail DEF Memory
<1>6. k \in Ids /\ k \in lane.known /\ k \in 0 .. MaxRows
  <2>1. ToSet(lane.queue) \subseteq lane.known /\ lane.known \subseteq Ids
    BY <1>2 DEF Memory, Lanes
  <2>2. k \in Ids /\ Ids \subseteq 1 .. MaxRows
    BY <1>5, <2>1, IdsAre
  <2> QED BY <1>5, <2>1, <2>2
<1>7. /\ lane' \in Lanes /\ lane'.queue = Tail(lane.queue)
      /\ lane'.known = lane.known
      /\ lane'.replayed = lane.replayed /\ lane'.touched = lane.touched
  BY <1>1, <1>2, <1>5 DEF Lanes
<1>8. /\ \A v \in Workers \ {w} : worker'[v] = worker[v]
      /\ worker'[w].pc = "mark" /\ worker'[w].item = k
      /\ worker' \in [Workers -> WorkerStates]
  BY <1>1, <1>2, <1>4, <1>6, TakesItem
<1>9. lane.replayed /\ \A v \in Workers : worker[v].pc # "replay"
  <2>1. worker[w].pc \notin Resting /\ worker[w].pc # "replay"
    BY <1>1 DEF Resting
  <2> QED BY <2>1 DEF Memory, Replays
<1>10. Typed'
  BY <1>1, <1>3, <1>7, <1>8, Types, TypedStep
<1>11. Memory'
  BY <1>5, <1>7, <1>9 DEF Memory
<1>12. Replays'
  BY <1>8, <1>9 DEF Replays
<1>13. Held'
  <2> SUFFICES ASSUME NEW v \in Workers, Busy(v)' PROVE
        /\ worker'[v].item \in lane'.known
        /\ worker'[v].item \notin ToSet(lane'.queue)
        /\ \A u \in Workers \ {v} : ~(Busy(u)' /\ worker'[u].item = worker'[v].item)
    BY DEF Held
  <2>1. \A u \in Workers \ {w} : /\ Busy(u)' <=> Busy(u)
                                 /\ worker'[u].item = worker[u].item
                                 /\ Busy(u) => worker[u].item # k
    BY <1>5, <1>8 DEF Busy, Held
  <2>2. CASE v = w
    BY <1>5, <1>6, <1>7, <1>8, <2>1, <2>2
  <2>3. CASE v # w
    BY <1>5, <1>7, <1>8, <2>1, <2>3 DEF Held
  <2> QED BY <2>2, <2>3
<1>14. \A v \in Workers : \A i : Marking(v, i)' => Marking(v, i) \/ i = k
  BY <1>8 DEF Marking
<1>15. Fresh'
  <2>1. \A i \in Ids : Waits(i)' => Waits(i)
    BY <1>5, <1>7, <1>14 DEF Waits
  <2> QED BY <1>1, <1>3, <2>1 DEF Fresh
<1>16. Ended'
  <2>1. \A v \in Workers : \A i : ~Reading(v, i)'
    BY <1>8, <1>9 DEF Reading
  <2> QED BY <1>1, <1>3, <1>5, <1>7, <1>14, <2>1 DEF Ended
<1>17. Serial'
  BY <1>1, <1>8 DEF Serial, Over
<1>18. OneActive'
  BY <1>1, <1>3 DEF OneActive
<1>19. Kept'
  <2>1. \A v \in Workers : \A i : /\ Holds(v, i) => Holds(v, i)'
                                  /\ ~Reading(v, i)
    BY <1>1, <1>8, <1>9 DEF Holds, Reading
  <2>2. Holds(w, k)'
    BY <1>8 DEF Holds
  <2>3. \A i \in Ids : Noticeable(i) => Noticeable(i)'
    BY <1>1, <1>7 DEF Noticeable
  <2> QED BY <1>1, <1>3, <1>5, <1>7, <1>9, <2>1, <2>2, <2>3
          DEF Kept, NothingStranded
<1> QED
  BY <1>10, <1>11, <1>12, <1>13, <1>15, <1>16, <1>17, <1>18, <1>19

LEMMA Refreshes ==
  ASSUME IInv, NEW w \in Workers, Refresh(w) PROVE IInv'
<1> USE DEF IInv, Parts
<1> DEFINE unknown == {i \in Ids \ lane.known : rows[i].state \in {"pending"}}
<1>1. /\ worker[w].pc = "loop" /\ lane.queue = <<>>
      /\ lane' = [lane EXCEPT !.queue = InOrder(unknown), !.known = @ \cup Ids,
                              !.touched = InOrder(unknown) # <<>>]
      /\ UNCHANGED <<rows, worker, registry, chat, job, stop, runs, past>>
  BY DEF Refresh, Unknown
<1>2. Ids' = Ids
  BY <1>1 DEF Ids
<1>3. /\ InOrder(unknown) \in Seq(Ids) /\ ToSet(InOrder(unknown)) = unknown
      /\ Distinct(InOrder(unknown))
  BY ReadInOrder
<1>4. /\ lane' \in Lanes /\ lane'.queue = InOrder(unknown) /\ lane'.known = Ids
      /\ lane'.replayed = lane.replayed
  <2> HIDE DEF unknown
  <2> QED BY <1>1, <1>3, Types DEF Lanes
<1>5. lane.replayed /\ \A v \in Workers : worker[v].pc # "replay"
  <2>1. worker[w].pc \notin Resting /\ worker[w].pc # "replay"
    BY <1>1 DEF Resting
  <2> QED BY <2>1 DEF Memory, Replays
<1>6. ToSet(lane.queue) = {} /\ unknown \subseteq Ids \ lane.known /\ lane.known \subseteq Ids
  BY <1>1, SetOfEmpty, Types DEF Lanes
<1>7. Typed'
  BY <1>1, <1>2, <1>4, Types, TypedStep
<1>8. Memory'
  BY <1>3, <1>4, <1>5, <1>6 DEF Memory
<1>9. Replays'
  BY <1>1, <1>5 DEF Replays
<1>10. Held'
  BY <1>1, <1>3, <1>4, <1>6 DEF Held, Busy
<1>11. Fresh'
  <2>1. \A i \in Ids : Waits(i)' => Waits(i)
    BY <1>1, <1>3, <1>4, <1>6 DEF Waits, Marking
  <2> QED BY <1>1, <1>2, <2>1 DEF Fresh
<1>12. Ended'
  <2>1. \A i \in unknown : rows[i].state = "pending"
    OBVIOUS
  <2> HIDE DEF unknown
  <2> QED BY <1>1, <1>2, <1>3, <1>4, <2>1 DEF Ended, Marking, Reading
<1>13. Serial' /\ OneActive'
  BY <1>1, <1>2 DEF Serial, OneActive, Over
<1>14. Kept'
  <2>1. \A i \in Ids : Noticeable(i) /\ rows[i].state = "pending"
                         => i \in ToSet(lane'.queue)
    BY <1>3, <1>4 DEF Noticeable
  <2>2. \A v \in Workers : \A i \in Ids : /\ Holds(v, i)' <=> Holds(v, i)
                                          /\ Reading(v, i)' <=> Reading(v, i)
    BY <1>1 DEF Holds, Reading
  <2> QED BY <1>1, <1>2, <1>4, <1>5, <1>6, <2>1, <2>2 DEF Kept, NothingStranded
<1> QED
  BY <1>7, <1>8, <1>9, <1>10, <1>11, <1>12, <1>13, <1>14

-----------------------------------------------------------------------------
(* Stop requests and crashes *)

\* A stop request ends rows and tells a worker, and takes nothing out of its
\* hands.
LEMMA StopHolds ==
  ASSUME IInv, past' \in Pasts, past'.stops # 0,
         past'.crashes = past.crashes, past'.faults = 0 => past.faults = 0,
         Touched, UNCHANGED <<chat, job, runs>>, stop' \in Stops,
         registry' \in Workers \cup {NoWorker},
         worker' \in [Workers -> WorkerStates],
         \A v \in Workers : /\ worker'[v].pc = worker[v].pc
                            /\ worker'[v].item = worker[v].item
                            /\ worker'[v].todo = worker[v].todo,
         UNCHANGED rows \/ \E k \in Ids : SetRow(k, "cancelled")
  PROVE  IInv'
<1> USE DEF IInv, Parts
<1>1. /\ lane' \in Lanes
      /\ lane'.queue = lane.queue /\ lane'.known = lane.known
      /\ lane'.replayed = lane.replayed
      /\ lane.touched => lane'.touched
  BY TouchedSame
<1>2. /\ rows' \in Seq(Rows) /\ Len(rows') = Len(rows) /\ Ids' = Ids
      /\ \A j \in Ids : /\ rows'[j].key = rows[j].key
                        /\ rows'[j].state \in {rows[j].state, "cancelled"}
  <2>1. CASE UNCHANGED rows
    BY <2>1, Types DEF Ids
  <2>2. CASE \E k \in Ids : SetRow(k, "cancelled")
    <3>1. "cancelled" \in States
      BY DEF States
    <3> QED BY <2>2, <3>1, SetRowMoves
  <2> QED BY <2>1, <2>2
<1>3. Typed'
  BY <1>1, <1>2, Types, TypedStep
<1>4. Memory' /\ Held'
  BY <1>1 DEF Memory, Held, Busy
<1>5. Replays'
  BY <1>1 DEF Replays
<1>6. Fresh'
  BY <1>1, <1>2 DEF Fresh, Waits, Marking
<1>7. Ended'
  BY <1>1, <1>2 DEF Ended, Marking, Reading
<1>8. Serial'
  BY DEF Serial
<1>9. OneActive'
  BY <1>2 DEF OneActive, Active
<1>10. Kept'
  <2>1. \A v \in Workers : \A i \in Ids : /\ Holds(v, i)' <=> Holds(v, i)
                                          /\ Reading(v, i)' <=> Reading(v, i)
    BY DEF Holds, Reading
  <2>2. \A i \in Ids : Noticeable(i) => Noticeable(i)'
    BY <1>1 DEF Noticeable
  <2>3. lane.known \subseteq Ids
    BY Types DEF Lanes
  <2>4. NothingStranded'
    BY <1>1, <1>2, <2>1, <2>2 DEF Kept, NothingStranded
  <2>5. ~lane'.replayed => \A i \in lane'.known : rows'[i].state # "running"
    BY <1>1, <1>2, <2>3 DEF Kept
  <2> QED BY <2>4, <2>5 DEF Kept
<1> QED BY <1>3, <1>4, <1>5, <1>6, <1>7, <1>8, <1>9, <1>10

LEMMA StopKeeps ==
  ASSUME IInv, StopAsks \/ Stopping \/ StopFails PROVE IInv'
<1> USE DEF IInv, Parts
<1>1. /\ stop \in Stops /\ past \in Pasts /\ worker \in [Workers -> WorkerStates]
      /\ registry \in Workers \cup {NoWorker} /\ NoStop \in Stops
  BY Types DEF NoStop, Stops
<1>2. stop.pc # "idle" => past.stops # 0
  BY DEF Serial
<1>3. CASE StopAsks
  <2> DEFINE todo == InOrder({i \in Ids : rows[i].state = "pending"})
  <2>1. /\ stop' = [NoStop EXCEPT !.pc = "cancel", !.todo = todo]
        /\ past' = [past EXCEPT !.stops = @ + 1]
        /\ UNCHANGED <<rows, lane, worker, registry, chat, job, runs>>
    BY <1>3 DEF StopAsks
  <2>2. todo \in Seq(Ids)
    BY ReadInOrder
  <2> HIDE DEF todo
  <2>3. stop' \in Stops
    BY <1>1, <2>1, <2>2 DEF Stops
  <2>4. /\ past' \in Pasts /\ past'.stops # 0
        /\ past'.crashes = past.crashes /\ past'.faults = past.faults
    BY <1>1, <2>1 DEF Pasts
  <2> QED BY <1>1, <2>1, <2>3, <2>4, StopHolds DEF Touched
<1>4. CASE StopCancels
  <2>1. /\ stop.pc = "cancel" /\ stop.todo # <<>>
        /\ SetRow(Head(stop.todo), "cancelled") /\ Touch
        /\ stop' = [stop EXCEPT !.todo = Tail(@)]
        /\ UNCHANGED <<worker, registry, chat, job, runs, past>>
    BY <1>4 DEF StopCancels
  <2>2. stop.todo \in Seq(Ids)
    BY <1>1 DEF Stops
  <2>3. Head(stop.todo) \in Ids /\ Tail(stop.todo) \in Seq(Ids)
    BY <2>1, <2>2, SetOfSeq, SetOfTail
  <2>4. stop' \in Stops
    BY <1>1, <2>1, <2>3 DEF Stops
  <2>5. \E k \in Ids : SetRow(k, "cancelled")
    BY <2>1, <2>3
  <2>6. past.stops # 0
    BY <1>2, <2>1
  <2> QED BY <1>1, <2>1, <2>4, <2>5, <2>6, StopHolds DEF Touched
<1>5. CASE StopSignals
  <2>1. /\ stop.pc = "cancel"
        /\ UNCHANGED <<rows, lane, registry, chat, job, runs, past>>
        /\ \/ stop' = NoStop /\ UNCHANGED worker
           \/ /\ registry # NoWorker
              /\ stop' = [stop EXCEPT !.pc = "join", !.worker = registry]
              /\ worker' = [worker EXCEPT ![registry].cancel = TRUE]
    BY <1>5 DEF StopSignals
  <2>2. stop' \in Stops
    BY <1>1, <2>1 DEF Stops
  <2>3. /\ worker' \in [Workers -> WorkerStates]
        /\ \A v \in Workers : /\ worker'[v].pc = worker[v].pc
                              /\ worker'[v].item = worker[v].item
                              /\ worker'[v].todo = worker[v].todo
    <3>1. CASE UNCHANGED worker
      BY <1>1, <3>1
    <3>2. CASE /\ registry # NoWorker
               /\ worker' = [worker EXCEPT ![registry].cancel = TRUE]
      BY <1>1, <3>2 DEF WorkerStates
    <3> QED BY <2>1, <3>1, <3>2
  <2>4. past.stops # 0
    BY <1>2, <2>1
  <2> QED BY <1>1, <2>1, <2>2, <2>3, <2>4, StopHolds DEF Touched
<1>6. CASE StopJoins
  <2>1. /\ stop.pc = "join" /\ registry' = NoWorker /\ stop' = NoStop
        /\ UNCHANGED <<rows, lane, worker, chat, job, runs, past>>
    BY <1>6 DEF StopJoins
  <2>2. past.stops # 0
    BY <1>2, <2>1
  <2> QED BY <1>1, <2>1, <2>2, StopHolds DEF Touched
<1>7. CASE StopFails
  <2>1. /\ stop.pc = "cancel" /\ Fault /\ stop' = NoStop
        /\ UNCHANGED <<rows, lane, worker, registry, chat, job, runs>>
    BY <1>7 DEF StopFails
  <2>2. /\ past' \in Pasts /\ past'.faults # 0 /\ past'.stops = past.stops
        /\ past'.crashes = past.crashes
    BY <1>1, <2>1 DEF Fault, Pasts
  <2>3. past'.stops # 0
    BY <1>2, <2>1, <2>2
  <2> QED BY <1>1, <2>1, <2>2, <2>3, StopHolds DEF Touched
<1> QED BY <1>3, <1>4, <1>5, <1>6, <1>7 DEF Stopping

\* A crash empties memory and all hands; every execution so far belongs to an
\* earlier life.
LEMMA Booting ==
  ASSUME NEW w \in Workers, Booted(w)
  PROVE  /\ \A v \in Workers : worker'[v] = IF v = w THEN Started ELSE Absent
         /\ \A v \in Workers : /\ worker'[v].pc \in Resting
                               /\ ~Busy(v)' /\ ~(worker'[v].pc = "replay")
                               /\ \A i : ~Marking(v, i)' /\ ~Reading(v, i)'
         /\ \A v \in Workers : ~Over(v)' => registry' = v
         /\ \A S : Started \in S /\ Absent \in S => worker' \in [Workers -> S]
<1>1. \A v \in Workers : worker'[v] = IF v = w THEN Started ELSE Absent
  BY DEF Booted
<1>2. Started.pc = "start" /\ Absent.pc = "off"
  BY DEF Started, Absent
<1>3. \A v \in Workers : worker'[v].pc = IF v = w THEN "start" ELSE "off"
  BY <1>1, <1>2
<1>4. \A S : Started \in S /\ Absent \in S => worker' \in [Workers -> S]
  BY DEF Booted
<1>5. \A v \in Workers : ~Over(v)' => registry' = v
  BY <1>3 DEF Over, Booted
<1> QED BY <1>1, <1>3, <1>4, <1>5 DEF Resting, Busy, Marking, Reading

LEMMA CrashKeeps ==
  ASSUME IInv, Crash PROVE IInv'
<1> USE DEF IInv, Parts
<1>1. /\ past' = [past EXCEPT !.crashes = @ + 1] /\ lane' = EmptyLane
      /\ chat' = Free /\ job' = Free /\ stop' = NoStop
      /\ UNCHANGED <<rows, runs>>
  BY DEF Crash
<1>2. PICK w \in Workers : Booted(w)
  BY DEF Crash
<1>3. Ids' = Ids
  BY <1>1 DEF Ids
<1>4. /\ lane' \in Lanes /\ lane'.queue = <<>> /\ lane'.known = {}
      /\ lane'.replayed = FALSE /\ lane'.touched = TRUE
      /\ ToSet(lane'.queue) = {} /\ Distinct(lane'.queue)
  BY <1>1, SetOfEmpty DEF EmptyLane, Lanes
<1>5. /\ past' \in Pasts /\ past'.crashes = past.crashes + 1
      /\ past'.stops = past.stops /\ past'.faults = past.faults
      /\ past.crashes \in Nat
  <2>1. past \in Pasts
    BY Types
  <2>2. past' = [past EXCEPT !.crashes = @ + 1]
    BY <1>1
  <2> QED BY <2>1, <2>2 DEF Pasts
<1>6. /\ stop' \in Stops /\ stop'.pc = "idle"
      /\ chat'.pc = "idle" /\ job'.pc = "idle"
  BY <1>1 DEF NoStop, Stops, Free
<1>7. Typed'
  <2>1. Owed' = 0
    BY <1>6 DEF Owed
  <2>2. Len(rows) \in Nat /\ Len(rows) + 0 <= MaxRows
    BY IdsAre
  <2>3. /\ worker' \in [Workers -> WorkerStates] /\ registry' \in Workers \cup {NoWorker}
    BY <1>2, Booting, NewWorkerTyped DEF Booted
  <2>4. chat.key \in Keys
    BY Types
  <2>5. (CHOOSE k \in Keys : TRUE) \in Keys
    BY <2>4
  <2>6. /\ chat' \in [pc : {"idle", "append", "ensure"}, key : Keys]
        /\ job' \in [pc : {"idle", "append", "mirror", "ensure"}, key : Keys]
    BY <1>1, <2>5 DEF Free
  <2> QED BY <1>1, <1>3, <1>4, <1>5, <1>6, <2>1, <2>2, <2>3, <2>6, Types, TypedAgain
          DEF Lanes, WorkerStates, Stops
<1>8. Memory' /\ Replays' /\ Held'
  BY <1>2, <1>4, Booting DEF Memory, Replays, Held
<1>9. Fresh'
  <2>1. \A i \in Ids : runs[i] \in Nat /\ runs[i] <= 1 + past.crashes
    BY Types DEF Fresh
  <2> QED BY <1>1, <1>3, <1>5, <2>1 DEF Fresh
<1>10. Ended'
  BY <1>1, <1>2, <1>3, <1>4, Booting DEF Ended
<1>11. Serial'
  BY <1>2, <1>6, Booting DEF Serial
<1>12. OneActive'
  BY <1>1, <1>3 DEF OneActive
<1>13. Kept'
  BY <1>1, <1>3, <1>4 DEF Kept, NothingStranded, Noticeable
<1> QED BY <1>7, <1>8, <1>9, <1>10, <1>11, <1>12, <1>13

-----------------------------------------------------------------------------
(* The theorems *)

LEMMA InitHolds == Init => IInv
<1> SUFFICES ASSUME Init PROVE IInv
  OBVIOUS
<1>1. /\ rows = <<>> /\ runs = <<>> /\ lane = EmptyLane
      /\ chat = Free /\ job = Free /\ stop = NoStop
      /\ past = [stops |-> 0, faults |-> 0, crashes |-> 0, deaths |-> 0]
  BY DEF Init
<1>2. PICK w \in Workers : /\ registry = w
                           /\ worker = [v \in Workers |-> IF v = w THEN Started ELSE Absent]
  BY DEF Init
<1>3. Ids = {} /\ Len(rows) = 0 /\ rows \in Seq(Rows) /\ runs \in [Ids -> Nat]
  BY <1>1 DEF Ids
<1>4. \A v \in Workers : worker[v].pc = IF v = w THEN "start" ELSE "off"
  BY <1>2 DEF Started, Absent
<1>5. lane.queue = <<>> /\ lane.known = {} /\ lane \in Lanes
  BY <1>1 DEF EmptyLane, Lanes
<1>6. QueueTypeOK
  <2>1. worker \in [Workers -> WorkerStates]
    BY <1>2, NewWorkerTyped
  <2>2. stop \in Stops
    BY <1>1 DEF NoStop, Stops
  <2>3. (CHOOSE k \in Keys : TRUE) \in Keys
    BY KeysAssumption
  <2>4. /\ chat \in [pc : {"idle", "append", "ensure"}, key : Keys]
        /\ job \in [pc : {"idle", "append", "mirror", "ensure"}, key : Keys]
    BY <1>1, <2>3 DEF Free
  <2>5. rows \in Seq([key : Keys, state : States]) /\ Len(rows) <= MaxRows
    BY <1>3, BoundsAssumption DEF Rows
  <2> QED
    BY <1>2, <1>3, <1>5, <2>1, <2>2, <2>4, <2>5
       DEF QueueTypeOK, Lanes, WorkerStates, Stops
<1>7. Typed
  <2>1. Owed = 0
    BY <1>1 DEF Owed, Free
  <2>2. past \in Pasts
    BY <1>1 DEF Pasts
  <2> QED BY <1>3, <1>5, <1>6, <2>1, <2>2, BoundsAssumption DEF Typed
<1>8. Memory /\ Replays /\ Held
  BY <1>4, <1>5, SetOfEmpty DEF Memory, Replays, Held, Busy, Resting
<1>9. Fresh /\ Ended /\ OneActive
  BY <1>3 DEF Fresh, Ended, OneActive
<1>10. Serial
  BY <1>1, <1>2, <1>4 DEF Serial, Over, NoStop
<1>11. Kept
  BY <1>3, <1>5 DEF Kept, NothingStranded
<1> QED BY <1>7, <1>8, <1>9, <1>10, <1>11 DEF IInv, Parts

LEMMA StepHolds == IInv /\ [Next]_vars => IInv'
<1> SUFFICES ASSUME IInv, [Next]_vars PROVE IInv'
  OBVIOUS
<1>1. CASE ChatAsks \/ JobAsks \/ Requests
  BY <1>1, ChatKeeps, JobKeeps DEF Requests
<1>2. ASSUME NEW w \in Workers, Work(w) PROVE IInv'
  BY <1>2, Begins, Resets, Puts, Dequeues, Refreshes, WorkKeeps DEF Work
<1>3. CASE StopAsks \/ Stopping
  BY <1>3, StopKeeps
<1>4. CASE Crash
  BY <1>4, CrashKeeps
<1>5. CASE Faults
  BY <1>5, ChatKeeps, JobKeeps, StopKeeps, ResetsFail, WorkKeeps DEF Faults
<1>6. CASE UNCHANGED vars
  BY <1>6 DEF vars, IInv, Parts, Typed, QueueTypeOK, Owed, Ids, Memory, Replays,
              Held, Busy, Fresh, Waits, Marking, Ended, Reading, Serial, Over,
              OneActive, Kept, NothingStranded, Noticeable, Holds, Lanes
<1> QED BY <1>1, <1>2, <1>3, <1>4, <1>5, <1>6 DEF Next

LEMMA Invariance == Spec => []IInv
BY InitHolds, StepHolds, PTL DEF Spec

\* Rows, memory, workers and callers keep their types, and no caller outgrows
\* the lane (core/pma_queue.py:31).
THEOREM QueueTyped == Spec => []QueueTypeOK
<1>1. IInv => QueueTypeOK
  BY DEF IInv, Typed
<1> QED BY <1>1, Invariance, PTL

\* However the chat, automation jobs, replays, refreshes and stop requests
\* meet, a row is executed at most once in a life of the hub process
\* (core/pma_queue.py:616).
THEOREM OncePerLifeAlways == Spec => []OncePerLife
<1>1. IInv => OncePerLife
  BY DEF IInv, Parts, Fresh, OncePerLife
<1> QED BY <1>1, Invariance, PTL

\* As long as no write failed, no pending or running row is out of sight of
\* memory, workers and the next look at the mirror
\* (core/pma_queue.py:590, :623, :701).
THEOREM NothingStrandedAlways == Spec => []NothingStranded
<1>1. IInv => NothingStranded
  BY DEF IInv, Parts, Kept
<1> QED BY <1>1, Invariance, PTL

\* Without a stop request the items of a lane are executed one at a time
\* (pma_routes/runtime_state.py:226).
THEOREM SerialAlways == Spec => []SerialUnlessStopped
<1>1. IInv => SerialUnlessStopped
  BY DEF IInv, Parts, Serial, Over, SerialUnlessStopped
<1> QED BY <1>1, Invariance, PTL

\* A step makes a row active only by adding it, by a reset of a running row, or
\* by a mark, and a marked row has not ended.
LEMMA EndedSpared ==
  ASSUME IInv, [Next]_vars, NEW i \in Ids,
         rows[i].state \in {"completed", "failed"}
  PROVE  rows'[i].state \notin Active
<1>1. Typed /\ rows[i].state \notin Active
  BY DEF IInv, Active
<1>2. CASE UNCHANGED rows
  BY <1>1, <1>2
<1>3. ASSUME NEW k \in Keys, NEW s \in {"pending", "deduped"}, Append1(k, s)
      PROVE  rows'[i].state \notin Active
  <2>1. s \in States
    BY DEF States, Active
  <2> QED BY <1>1, <1>3, <2>1, AppendMoves
<1>4. ASSUME NEW k \in Ids, NEW s \in States, SetRow(k, s), s \in Active => k # i
      PROVE  rows'[i].state \notin Active
  BY <1>1, <1>4, SetRowMoves
<1>5. CASE ChatAsks \/ ChatAppends \/ ChatFails
  <2>1. chat.key \in Keys
    BY <1>1, Types
  <2> QED BY <1>2, <1>3, <1>5, <2>1 DEF ChatAsks, ChatAppends, ChatFails
<1>6. CASE JobAsks \/ JobAppends
  <2>1. job.key \in Keys
    BY <1>1, Types
  <2> QED BY <1>2, <1>3, <1>6, <2>1 DEF JobAsks, JobAppends
<1>7. ASSUME NEW w \in Workers, ReplayResets(w) \/ ReplayFails(w)
      PROVE  rows'[i].state \notin Active
  <2>1. Interrupted(w) \in SUBSET Ids /\ Interrupted(w) # {}
    BY <1>7, InReplay DEF ReplayResets, ReplayFails, Interrupted
  <2>2. Min(Interrupted(w)) \in Interrupted(w)
    BY <1>1, <2>1, FirstOf
  <2>3. Min(Interrupted(w)) \in Ids /\ Min(Interrupted(w)) # i
    BY <2>1, <2>2 DEF Interrupted
  <2>4. "pending" \in States
    BY DEF States, Active
  <2> QED BY <1>2, <1>4, <1>7, <2>3, <2>4 DEF ReplayResets, ReplayFails
<1>8. ASSUME NEW w \in Workers, Mark(w) \/ MarkFails(w)
      PROVE  rows'[i].state \notin Active
  <2>1. worker[w].pc = "mark"
    BY <1>8 DEF Mark, MarkFails
  <2>2. worker[w].item \in Ids /\ Marking(w, worker[w].item)
    BY <1>1, <2>1, Types DEF IInv, Parts, Held, Busy, Marking, Lanes
  <2>3. worker[w].item # i
    BY <2>2 DEF IInv, Parts, Ended
  <2>4. "running" \in States
    BY DEF States, Active
  <2> QED BY <1>2, <1>4, <1>8, <2>2, <2>3, <2>4 DEF Mark, MarkFails
<1>9. ASSUME NEW w \in Workers, Save(w) \/ SaveFails(w)
      PROVE  rows'[i].state \notin Active
  <2>1. worker[w].pc = "save"
    BY <1>9 DEF Save, SaveFails
  <2>2. worker[w].item \in Ids
    BY <1>1, <2>1, Types DEF IInv, Parts, Held, Busy, Lanes
  <2>3. worker[w].verdict \in {"completed", "failed"}
    BY <1>1, Types DEF WorkerStates
  <2>4. worker[w].verdict \in States /\ worker[w].verdict \notin Active
    BY <2>3 DEF States, Active
  <2> QED BY <1>2, <1>4, <1>9, <2>2, <2>4 DEF Save, SaveFails
<1>10. CASE StopCancels
  <2>1. Head(stop.todo) \in Ids
    BY <1>1, <1>10, Types, SetOfSeq, SetOfTail DEF StopCancels, Stops
  <2>2. "cancelled" \in States /\ "cancelled" \notin Active
    BY DEF States, Active
  <2> QED BY <1>4, <1>10, <2>1, <2>2 DEF StopCancels
<1>11. ASSUME NEW w \in Workers,
              \/ ReplayBegins(w) \/ ReplayPuts(w) \/ Dequeue(w) \/ Refresh(w)
              \/ MarkRefused(w) \/ ExecutorEnds(w) \/ WorkerExits(w)
       PROVE  UNCHANGED rows
  BY <1>11 DEF ReplayBegins, ReplayPuts, Dequeue, Refresh, MarkRefused,
               ExecutorEnds, WorkerExits
<1>12. CASE \/ ChatEnsures \/ JobMirrors \/ JobFails \/ JobEnsures
            \/ StopAsks \/ StopSignals \/ StopJoins \/ StopFails \/ Crash
            \/ UNCHANGED vars
  <2>1. UNCHANGED rows
    BY <1>12 DEF ChatEnsures, JobMirrors, JobFails, JobEnsures, StopAsks,
                 StopSignals, StopJoins, StopFails, Crash, vars
  <2> QED BY <1>2, <2>1
<1> QED
  BY <1>2, <1>5, <1>6, <1>7, <1>8, <1>9, <1>10, <1>11, <1>12
     DEF Next, Requests, Work, Stopping, Faults

\* A row that has ended with an execution is not made active again by a replay,
\* a refresh or a copy that memory still holds (core/pma_queue.py:575, :641).
THEOREM EndedNeverActiveAlways == Spec => EndedNeverActive
<1>1. IInv /\ [Next]_vars =>
        [\A i \in Ids : rows[i].state \in {"completed", "failed"}
                          => rows'[i].state \notin Active]_vars
  BY EndedSpared
<1> QED BY <1>1, Invariance, PTL DEF Spec, EndedNeverActive
=============================================================================
