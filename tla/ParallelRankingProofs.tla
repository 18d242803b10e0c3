------------------------ MODULE ParallelRankingProofs ------------------------
(***************************************************************************)
(* RankingIsExact and the advance of the progress, for every number of     *)
(* workers and rows and every number of orders per row.                    *)
(***************************************************************************)
EXTENDS ParallelRanking, FunctionSums

Counts == [completed : Nat, evaluated : Nat]
Errors == {"none", "stopped", "failed"}
WorkerRecords ==
  [at : {"idle", "ranking", "ranked", "returned", "exited"}, task : 0 .. NumTasks,
   counts : Counts, inflight : Nat, error : Errors]
Messages == [worker : Workers, counts : Counts, row : 0 .. NumTasks]

RankingTypeOK ==
  /\ next \in Nat
  /\ worker \in [Workers -> WorkerRecords]
  /\ channel \in Seq(Messages)
  /\ at \in {"spawned", "receiving", "joining", "returned"}
  /\ open \in BOOLEAN
  /\ counts \in [Workers -> Counts]
  /\ ranked \in SUBSET Tasks
  /\ joined \in 0 .. NumWorkers
  /\ failure \in Errors /\ outcome \in Errors \cup {"ok"}
  /\ stopped \in BOOLEAN

Busy(w) == worker[w].at \in {"ranking", "ranked"}
Over(w) == worker[w].at \in {"returned", "exited"}
RowsIn(c) == {c[i].row : i \in DOMAIN c} \ {0}
RowsOnce(c) == \A i, j \in DOMAIN c : c[i].row # 0 /\ i # j => c[i].row # c[j].row
Sent == RowsIn(channel)

\* Each claimed row is in one place: with its worker, in the channel or with
\* the coordinator.
PlacesInv ==
  /\ \A w \in Workers :
       IF Busy(w)
       THEN worker[w].task \in Tasks /\ worker[w].task <= next /\ worker[w].task \notin ranked \cup Sent
       ELSE worker[w].task = 0
  /\ \A v, w \in Workers : Busy(v) /\ Busy(w) /\ v # w => worker[v].task # worker[w].task
  /\ RowsOnce(channel)
  /\ Sent \cap ranked = {}
  /\ \A t \in Sent \cup ranked : t <= next

\* The rows whose ranking has been counted.
Counted == ranked \cup Sent \cup {worker[w].task : w \in {v \in Workers : worker[v].at = "ranked"}}

CompletedByWorkers == SumFunction([w \in Workers |-> worker[w].counts.completed])
EvaluatedByWorkers == SumFunction([w \in Workers |-> worker[w].counts.evaluated])
OrdersOfRows(rows) == SumFunction([t \in Tasks |-> IF t \in rows THEN Orders[t] ELSE 0])

\* What the workers counted is what they ranked.
TotalsInv ==
  /\ CompletedByWorkers = Cardinality(Counted)
  /\ EvaluatedByWorkers = OrdersOfRows(Counted)

\* What a worker has told at most: its counts and the orders in flight.
Told(w) == worker[w].counts.evaluated + IF worker[w].at = "ranking" THEN worker[w].inflight ELSE 0
Within(w, c) ==
  /\ c.completed <= worker[w].counts.completed
  /\ ~Over(w) => c.evaluated <= Told(w)
Below(c, d) == c.completed <= d.completed /\ c.evaluated <= d.evaluated

\* The messages of a worker only grow, and the coordinator is behind them.
GrowthInv ==
  /\ \A w \in Workers : worker[w].at = "idle" => worker[w].inflight = 0
  /\ \A w \in Workers : worker[w].at = "ranking" => worker[w].inflight <= Orders[worker[w].task]
  /\ \A w \in Workers : Within(w, counts[w])
  /\ \A i \in DOMAIN channel : Within(channel[i].worker, channel[i].counts)
  /\ \A i \in DOMAIN channel : Below(counts[channel[i].worker], channel[i].counts)
  /\ \A i, j \in DOMAIN channel : i < j /\ channel[i].worker = channel[j].worker
       => Below(channel[i].counts, channel[j].counts)

\* The last that was told of a worker is all it counted, unless it failed and
\* its last counts are of a row that is lost.
Final(w, c) ==
  /\ c.completed = worker[w].counts.completed
  /\ worker[w].error = "none" => c.evaluated = Told(w)
Silent(w) == \A i \in DOMAIN channel : channel[i].worker # w
LatestInv ==
  /\ \A w \in Workers : Silent(w) => Final(w, counts[w])
  /\ \A i \in DOMAIN channel :
       (\A j \in DOMAIN channel : j > i => channel[j].worker # channel[i].worker)
         => Final(channel[i].worker, channel[i].counts)

\* Without a failure nothing that was claimed is lost, and the workers stop
\* only when everything is claimed.
EndInv ==
  /\ \A w \in Workers : worker[w].error # "none" => Over(w)
  /\ \A w \in Workers : Over(w) /\ worker[w].error = "none" => next >= NumTasks
  /\ \A t \in Tasks : t <= next =>
       \/ t \in Counted
       \/ \E w \in Workers : worker[w].at = "ranking" /\ worker[w].task = t
       \/ \E w \in Workers : worker[w].error # "none"
  /\ at \in {"joining", "returned"} => channel = <<>> /\ \A w \in Workers : Over(w)
  /\ joined > 0 => at \in {"joining", "returned"}
  /\ failure = "none" => \A w \in 1 .. joined : worker[w].error = "none"
  /\ outcome # "none" => at = "returned"
  /\ at = "returned" => joined = NumWorkers
  /\ outcome = "ok" => failure = "none"

RankingInv ==
  RankingTypeOK /\ PlacesInv /\ TotalsInv /\ GrowthInv /\ LatestInv /\ EndInv

-----------------------------------------------------------------------------
(* Type correctness *)

\* What the constants are.
LEMMA Basics ==
  /\ NumTasks \in Nat /\ NumWorkers \in Nat \ {0} /\ NumWorkers <= NumTasks
  /\ Orders \in [Tasks -> Nat \ {0}]
  /\ IsFiniteSet(Workers) /\ IsFiniteSet(Tasks) /\ Cardinality(Tasks) = NumTasks
  <1>1. NumTasks \in Nat /\ NumWorkers \in Nat \ {0} /\ NumWorkers <= NumTasks
    BY RankingAssumption
  <1>2. IsFiniteSet(1 .. NumWorkers) /\ IsFiniteSet(1 .. NumTasks)
        /\ Cardinality(1 .. NumTasks) = NumTasks
    BY <1>1, FS_Interval
  <1>3. QED
    BY <1>1, <1>2, RankingAssumption DEF Workers, Tasks

\* The initial state has its types.
LEMMA InitTypeOK == Init => RankingTypeOK
  <1> SUFFICES ASSUME Init PROVE RankingTypeOK
    OBVIOUS
  <1>1. Zero \in Counts
    BY DEF Zero, Counts
  <1>2. worker \in [Workers -> WorkerRecords]
    BY <1>1, Basics DEF Init, WorkerRecords, Errors
  <1>3. counts \in [Workers -> Counts]
    BY <1>1 DEF Init
  <1>4. channel \in Seq(Messages) /\ joined \in 0 .. NumWorkers
    BY Basics DEF Init
  <1>5. QED
    BY <1>2, <1>3, <1>4 DEF Init, RankingTypeOK, Errors

\* Each step of a worker replaces its own record by another.
LEMMA WorkerRecordStep ==
  ASSUME RankingTypeOK, PlacesInv, NEW w \in Workers, WorkerStep(w)
  PROVE  \E r \in WorkerRecords : worker' = [worker EXCEPT ![w] = r]
  <1>1. worker[w] \in WorkerRecords /\ (AtWork(w) => worker[w].task \in Tasks)
    BY DEF RankingTypeOK, PlacesInv, AtWork, Busy
  <1>0. 0 \in 0 .. NumTasks
    BY Basics
  <1>2. \A e \in Errors : Ended(w, e) \in WorkerRecords
    BY <1>0, <1>1 DEF Ended, WorkerRecords
  <1>3. "none" \in Errors /\ "stopped" \in Errors /\ "failed" \in Errors
    BY DEF Errors
  <1>4. CASE TakeTask(w)
    <2> DEFINE r == [worker[w] EXCEPT !.at = "ranking", !.task = next + 1]
    <2>1. next + 1 \in 0 .. NumTasks
      BY <1>4, Basics DEF TakeTask, RankingTypeOK
    <2>2. r \in WorkerRecords
      BY <1>1, <2>1 DEF WorkerRecords
    <2>3. worker' = [worker EXCEPT ![w] = r]
      BY <1>4 DEF TakeTask
    <2>4. QED
      BY <2>2, <2>3
  <1>5. CASE RunDry(w)
    BY <1>2, <1>3, <1>5 DEF RunDry
  <1>6. CASE Observe(w)
    <2>1. PICK n \in (worker[w].inflight + 1) .. Orders[worker[w].task] :
            worker' = [worker EXCEPT ![w].inflight = n]
      BY <1>6 DEF Observe
    <2>2. n \in Nat
      BY <1>1, <1>6, <2>1, Basics DEF WorkerRecords, Observe
    <2> DEFINE r == [worker[w] EXCEPT !.inflight = n]
    <2>3. r \in WorkerRecords
      BY <1>1, <2>2 DEF WorkerRecords
    <2>4. worker' = [worker EXCEPT ![w] = r]
      BY <2>1
    <2>5. QED
      BY <2>3, <2>4
  <1>7. CASE FinishRow(w)
    <2> DEFINE r == [worker[w] EXCEPT !.at = "ranked", !.counts = RowCounts(w)]
    <2>1. RowCounts(w) \in Counts
      BY <1>1, <1>7, Basics DEF FinishRow, RowCounts, Plus, WorkerRecords, Counts
    <2>2. r \in WorkerRecords
      BY <1>1, <2>1 DEF WorkerRecords
    <2>3. worker' = [worker EXCEPT ![w] = r]
      BY <1>7 DEF FinishRow
    <2>4. QED
      BY <2>2, <2>3
  <1>8. CASE SendRow(w)
    <2> DEFINE r == [worker[w] EXCEPT !.at = "idle", !.task = 0, !.inflight = 0]
    <2>1. r \in WorkerRecords
      BY <1>0, <1>1 DEF WorkerRecords
    <2>2. worker' = [worker EXCEPT ![w] = r]
      BY <1>8 DEF SendRow
    <2>3. QED
      BY <2>1, <2>2
  <1>9. CASE StopBetweenRows(w)
    BY <1>2, <1>3, <1>9 DEF StopBetweenRows
  <1>10. CASE FailUnreported(w)
    <2>1. ErrorsAfter(0) \subseteq Errors
      BY <1>3 DEF ErrorsAfter
    <2>2. QED
      BY <1>2, <1>10, <2>1 DEF FailUnreported
  <1>11. CASE FailReported(w)
    <2>1. \A n : ErrorsAfter(n) \subseteq Errors
      BY <1>3 DEF ErrorsAfter
    <2>2. QED
      BY <1>2, <1>11, <2>1 DEF FailReported
  <1>12. CASE Panic(w)
    BY <1>2, <1>3, <1>12 DEF Panic
  <1>13. CASE ThreadExit(w)
    <2> DEFINE r == [worker[w] EXCEPT !.at = "exited"]
    <2>1. r \in WorkerRecords
      BY <1>1 DEF WorkerRecords
    <2>2. worker' = [worker EXCEPT ![w] = r]
      BY <1>13 DEF ThreadExit
    <2>3. QED
      BY <2>1, <2>2
  <1>14. QED
    BY <1>4, <1>5, <1>6, <1>7, <1>8, <1>9, <1>10, <1>11, <1>12, <1>13 DEF WorkerStep

\* Appending to the channel.
LEMMA Appended ==
  ASSUME NEW c \in Seq(Messages), NEW m \in Messages
  PROVE  /\ Append(c, m) \in Seq(Messages)
         /\ Len(c) \in Nat /\ DOMAIN c = 1 .. Len(c)
         /\ DOMAIN Append(c, m) = 1 .. Len(c) + 1
         /\ \A i \in DOMAIN c : Append(c, m)[i] = c[i] /\ c[i] \in Messages
         /\ Append(c, m)[Len(c) + 1] = m
         /\ RowsIn(Append(c, m)) = RowsIn(c) \cup ({m.row} \ {0})
  <1>1. /\ Append(c, m) \in Seq(Messages)
        /\ Len(c) \in Nat /\ DOMAIN c = 1 .. Len(c)
        /\ DOMAIN Append(c, m) = 1 .. Len(c) + 1
        /\ \A i \in DOMAIN c : Append(c, m)[i] = c[i] /\ c[i] \in Messages
        /\ Append(c, m)[Len(c) + 1] = m
    OBVIOUS
  <1>2. ASSUME NEW t PROVE t \in RowsIn(Append(c, m)) <=> t \in RowsIn(c) \cup ({m.row} \ {0})
    <2>1. t \in RowsIn(Append(c, m)) <=> t # 0 /\ \E i \in 1 .. Len(c) + 1 : t = Append(c, m)[i].row
      BY <1>1 DEF RowsIn
    <2>2. t \in RowsIn(c) <=> t # 0 /\ \E i \in 1 .. Len(c) : t = c[i].row
      BY <1>1 DEF RowsIn
    <2>3. \A i \in 1 .. Len(c) + 1 : i \in 1 .. Len(c) \/ i = Len(c) + 1
      BY <1>1
    <2>4. Len(c) + 1 \in 1 .. Len(c) + 1 /\ \A i \in 1 .. Len(c) : i \in 1 .. Len(c) + 1
      BY <1>1
    <2>5. (\E i \in 1 .. Len(c) + 1 : t = Append(c, m)[i].row)
            <=> (\E i \in 1 .. Len(c) : t = c[i].row) \/ t = m.row
      BY <1>1, <2>3, <2>4
    <2>6. QED
      BY <2>1, <2>2, <2>5
  <1>3. QED
    BY <1>1, <1>2

\* Taking the head from the channel.
LEMMA Received ==
  ASSUME NEW c \in Seq(Messages), c # <<>>
  PROVE  /\ Tail(c) \in Seq(Messages)
         /\ Len(c) \in Nat \ {0} /\ DOMAIN c = 1 .. Len(c)
         /\ DOMAIN Tail(c) = 1 .. Len(c) - 1
         /\ \A i \in 1 .. Len(c) - 1 : Tail(c)[i] = c[i + 1] /\ i + 1 \in DOMAIN c
         /\ Head(c) = c[1] /\ 1 \in DOMAIN c /\ Head(c) \in Messages
         /\ RowsIn(c) = RowsIn(Tail(c)) \cup ({Head(c).row} \ {0})
  <1>1. /\ Tail(c) \in Seq(Messages)
        /\ Len(c) \in Nat \ {0} /\ DOMAIN c = 1 .. Len(c)
        /\ DOMAIN Tail(c) = 1 .. Len(c) - 1
        /\ \A i \in 1 .. Len(c) - 1 : Tail(c)[i] = c[i + 1] /\ i + 1 \in DOMAIN c
        /\ Head(c) = c[1] /\ 1 \in DOMAIN c /\ Head(c) \in Messages
    OBVIOUS
  <1>2. ASSUME NEW t PROVE t \in RowsIn(c) <=> t \in RowsIn(Tail(c)) \cup ({Head(c).row} \ {0})
    <2>1. t \in RowsIn(c) <=> t # 0 /\ \E i \in 1 .. Len(c) : t = c[i].row
      BY <1>1 DEF RowsIn
    <2>2. t \in RowsIn(Tail(c)) <=> t # 0 /\ \E i \in 1 .. Len(c) - 1 : t = c[i + 1].row
      <3>1. t \in RowsIn(Tail(c)) <=> t # 0 /\ \E i \in 1 .. Len(c) - 1 : t = Tail(c)[i].row
        BY <1>1 DEF RowsIn
      <3>2. QED
        BY <1>1, <3>1
    <2>3. ASSUME NEW i \in 1 .. Len(c), t = c[i].row
          PROVE  (\E j \in 1 .. Len(c) - 1 : t = c[j + 1].row) \/ t = Head(c).row
      <3>1. CASE i = 1
        BY <1>1, <2>3, <3>1
      <3>2. CASE i # 1
        <4>1. i - 1 \in 1 .. Len(c) - 1 /\ t = c[(i - 1) + 1].row
          BY <1>1, <2>3, <3>2
        <4>2. QED
          BY <4>1
      <3>3. QED
        BY <3>1, <3>2
    <2>4. QED
      BY <1>1, <2>1, <2>2, <2>3
  <1>3. QED
    BY <1>1, <1>2

\* A step of a worker leaves the others and the coordinator alone, and sends at
\* most one message, in its own name.
LEMMA WorkerFrame ==
  ASSUME RankingTypeOK, PlacesInv, NEW w \in Workers, WorkerStep(w)
  PROVE  /\ worker' \in [Workers -> WorkerRecords]
         /\ \A v \in Workers \ {w} : worker'[v] = worker[v]
         /\ UNCHANGED <<at, open, counts, ranked, joined, failure, outcome, stopped>>
         /\ channel' = channel \/ \E m \in Messages : m.worker = w /\ channel' = Append(channel, m)
         /\ next' \in Nat /\ next <= next'
  <1>1. \E r \in WorkerRecords : worker' = [worker EXCEPT ![w] = r]
    BY WorkerRecordStep
  <1>2. worker \in [Workers -> WorkerRecords] /\ next \in Nat
    BY DEF RankingTypeOK
  <1>3. worker' \in [Workers -> WorkerRecords] /\ \A v \in Workers \ {w} : worker'[v] = worker[v]
    BY <1>1, <1>2
  <1>4. UNCHANGED <<at, open, counts, ranked, joined, failure, outcome, stopped>>
    BY DEF WorkerStep, TakeTask, RunDry, Observe, FinishRow, SendRow, StopBetweenRows,
           FailUnreported, FailReported, Panic, ThreadExit, coordinator
  <1>5. next' \in Nat /\ next <= next'
    BY <1>2 DEF WorkerStep, TakeTask, RunDry, Observe, FinishRow, SendRow, StopBetweenRows,
                FailUnreported, FailReported, Panic, ThreadExit, Claimed
  <1>6. worker[w] \in WorkerRecords /\ worker[w].counts \in Counts
    BY <1>2 DEF WorkerRecords
  <1>7. AtWork(w) => worker[w].task \in Tasks /\ Orders[worker[w].task] \in Nat
    BY Basics DEF PlacesInv, AtWork, Busy
  <1>8. \A c \in Counts, t \in 0 .. NumTasks : Message(w, c, t) \in Messages /\ Message(w, c, t).worker = w
    BY DEF Message, Messages
  <1>9. \A n \in Nat : Plus(worker[w].counts, 0, n) \in Counts /\ Plus(worker[w].counts, 1, n) \in Counts
    BY <1>6 DEF Plus, Counts
  <1>10. 0 \in 0 .. NumTasks /\ worker[w].task \in 0 .. NumTasks /\ worker[w].inflight \in Nat
    BY <1>6, Basics DEF WorkerRecords
  <1>11. CASE Observe(w)
    <2>1. PICK n \in (worker[w].inflight + 1) .. Orders[worker[w].task] :
            channel' = Append(channel, Message(w, Plus(worker[w].counts, 0, n), 0))
      BY <1>11 DEF Observe, Send
    <2>2. n \in Nat
      BY <1>7, <1>10, <1>11, <2>1 DEF Observe
    <2>3. QED
      BY <1>3, <1>4, <1>5, <1>8, <1>9, <1>10, <2>1, <2>2
  <1>12. CASE FinishRow(w)
    <2>1. channel' = Append(channel, Message(w, RowCounts(w), 0)) /\ RowCounts(w) \in Counts
      BY <1>7, <1>9, <1>12 DEF FinishRow, Send, RowCounts
    <2>2. QED
      BY <1>3, <1>4, <1>5, <1>8, <1>10, <2>1
  <1>13. CASE SendRow(w)
    <2>1. channel' = Append(channel, Message(w, worker[w].counts, worker[w].task))
      BY <1>13 DEF SendRow, Send
    <2>2. QED
      BY <1>3, <1>4, <1>5, <1>6, <1>8, <1>10, <2>1
  <1>14. CASE FailReported(w)
    <2>1. PICK n \in worker[w].inflight .. Orders[worker[w].task] :
            channel' = Append(channel, Message(w, Plus(worker[w].counts, 0, n), 0))
      BY <1>14 DEF FailReported, Send
    <2>2. n \in Nat
      BY <1>7, <1>10, <1>14, <2>1 DEF FailReported
    <2>3. QED
      BY <1>3, <1>4, <1>5, <1>8, <1>9, <1>10, <2>1, <2>2
  <1>15. CASE ~(Observe(w) \/ FinishRow(w) \/ SendRow(w) \/ FailReported(w))
    <2>1. channel' = channel
      BY <1>15 DEF WorkerStep, TakeTask, RunDry, StopBetweenRows, FailUnreported, Panic, ThreadExit
    <2>2. QED
      BY <1>3, <1>4, <1>5, <2>1
  <1>16. QED
    BY <1>11, <1>12, <1>13, <1>14, <1>15

\* Every step keeps them.
LEMMA NextTypeOK ==
  ASSUME RankingTypeOK, PlacesInv, [Next]_vars
  PROVE  RankingTypeOK'
  <1>1. CASE \E w \in Workers : WorkerStep(w)
    <2>1. PICK w \in Workers : WorkerStep(w)
      BY <1>1
    <2>2. channel' \in Seq(Messages)
      <3>1. channel \in Seq(Messages)
        BY DEF RankingTypeOK
      <3>2. channel' = channel \/ \E m \in Messages : channel' = Append(channel, m)
        BY <2>1, WorkerFrame
      <3>3. QED
        BY <3>1, <3>2, Appended
    <2>3. QED
      BY <2>1, <2>2, WorkerFrame DEF RankingTypeOK
  <1>2. CASE Receive
    <2>1. /\ Head(channel) \in Messages /\ channel' \in Seq(Messages)
          /\ counts' = [counts EXCEPT ![Head(channel).worker] = Head(channel).counts]
          /\ ranked' = ranked \cup ({Head(channel).row} \ {0})
      BY <1>2, Received DEF Receive, RankingTypeOK, Latest
    <2>2. counts' \in [Workers -> Counts]
      BY <2>1 DEF RankingTypeOK, Messages
    <2>3. \A t \in 0 .. NumTasks : {t} \ {0} \subseteq Tasks
      BY Basics DEF Tasks
    <2>4. ranked' \in SUBSET Tasks
      BY <2>1, <2>3 DEF RankingTypeOK, Messages
    <2>5. QED
      BY <1>2, <2>1, <2>2, <2>4 DEF Receive, RankingTypeOK
  <1>3. CASE Join
    <2>1. joined + 1 \in Workers /\ worker[joined + 1].error \in Errors
      BY <1>3 DEF Join, RankingTypeOK, WorkerRecords
    <2>2. joined' \in 0 .. NumWorkers /\ failure' \in Errors
      BY <1>3, <2>1, Basics DEF Join, FailureAfter, RankingTypeOK, Workers
    <2>3. QED
      BY <1>3, <2>2 DEF Join, RankingTypeOK
  <1>4. CASE BeginReceiving \/ EndOfChannel \/ Return \/ Stop \/ UNCHANGED vars
    BY <1>4 DEF BeginReceiving, EndOfChannel, Return, Stop, vars, coordinator, RankingTypeOK,
                SenderDropped, Errors
  <1>5. QED
    BY <1>1, <1>2, <1>3, <1>4 DEF Next, CoordinatorStep

-----------------------------------------------------------------------------
(* Rows are in one place *)

\* A worker ends with a verdict, and tells what it did of its row or does not.
Quit(w, e) ==
  /\ worker[w].at \in {"idle", "ranking"}
  /\ worker' = [worker EXCEPT ![w] = Ended(w, e)]
  /\ e = "none" => worker[w].at = "idle" /\ next >= NumTasks
  /\ \/ channel' = channel
     \/ /\ worker[w].at = "ranking"
        /\ \E n \in worker[w].inflight .. Orders[worker[w].task] :
             channel' = Append(channel, Message(w, Plus(worker[w].counts, 0, n), 0))

\* Every step of a worker is one of six.
LEMMA StepKinds ==
  ASSUME NEW w \in Workers, WorkerStep(w)
  PROVE  \/ TakeTask(w) \/ Observe(w) \/ FinishRow(w) \/ SendRow(w) \/ ThreadExit(w)
         \/ \E e \in Errors : Quit(w, e)
  <1>1. CASE RunDry(w)
    BY <1>1 DEF RunDry, Quit, Errors
  <1>2. CASE StopBetweenRows(w)
    BY <1>2 DEF StopBetweenRows, Quit, Errors
  <1>3. CASE Panic(w)
    BY <1>3 DEF Panic, Quit, Errors, AtWork
  <1>4. CASE FailUnreported(w)
    BY <1>4 DEF FailUnreported, Quit, Errors, AtWork, ErrorsAfter
  <1>5. CASE FailReported(w)
    <2>1. PICK n \in worker[w].inflight .. Orders[worker[w].task] :
            /\ channel' = Append(channel, Message(w, Plus(worker[w].counts, 0, n), 0))
            /\ \E e \in ErrorsAfter(n) : worker' = [worker EXCEPT ![w] = Ended(w, e)]
      BY <1>5 DEF FailReported, Send
    <2>2. PICK e \in ErrorsAfter(n) : worker' = [worker EXCEPT ![w] = Ended(w, e)]
      BY <2>1
    <2>3. e \in Errors \ {"none"}
      BY <2>2 DEF ErrorsAfter, Errors
    <2>4. QED
      BY <1>5, <2>1, <2>2, <2>3 DEF FailReported, Quit, AtWork
  <1>6. QED
    BY <1>1, <1>2, <1>3, <1>4, <1>5 DEF WorkerStep

\* A message without a row, or with one that is new, keeps rows apart.
LEMMA AppendedOnce ==
  ASSUME NEW c \in Seq(Messages), NEW m \in Messages, RowsOnce(c), m.row = 0 \/ m.row \notin RowsIn(c)
  PROVE  RowsOnce(Append(c, m))
  <1>1. \A i \in DOMAIN c : c[i].row # 0 => c[i].row \in RowsIn(c)
    BY DEF RowsIn
  <1>2. \A i \in DOMAIN Append(c, m) : i \in DOMAIN c \/ i = Len(c) + 1
    BY Appended
  <1>3. QED
    BY <1>1, <1>2, Appended DEF RowsOnce

\* The row of the head is nowhere else.
LEMMA ReceivedOnce ==
  ASSUME NEW c \in Seq(Messages), c # <<>>, RowsOnce(c)
  PROVE  RowsOnce(Tail(c)) /\ (Head(c).row # 0 => Head(c).row \notin RowsIn(Tail(c)))
  <1>1. \A i \in DOMAIN Tail(c) : Tail(c)[i] = c[i + 1] /\ i + 1 \in DOMAIN c /\ i + 1 # 1
    BY Received
  <1>2. \A i, j \in DOMAIN Tail(c) : i # j => i + 1 # j + 1
    BY Received
  <1>3. RowsOnce(Tail(c))
    BY <1>1, <1>2 DEF RowsOnce
  <1>4. \A i \in DOMAIN Tail(c) : Head(c).row # 0 => Tail(c)[i].row # Head(c).row
    BY <1>1, Received DEF RowsOnce
  <1>5. QED
    BY <1>3, <1>4 DEF RowsIn

\* The rows in the channel are rows.
LEMMA SentAreTasks ==
  ASSUME RankingTypeOK
  PROVE  Sent \subseteq Tasks
  <1>1. \A i \in DOMAIN channel : channel[i] \in Messages
    BY DEF RankingTypeOK
  <1>2. \A t \in 0 .. NumTasks : t # 0 => t \in Tasks
    BY Basics DEF Tasks
  <1>3. QED
    BY <1>1, <1>2 DEF Sent, RowsIn, Messages

\* A message of progress carries no row, and counts up to the orders of one.
LEMMA ProgressMessage ==
  ASSUME RankingTypeOK, PlacesInv, NEW w \in Workers
  PROVE  /\ Observe(w) \/ FinishRow(w)
              => \E m \in Messages : m.row = 0 /\ channel' = Append(channel, m)
         /\ \A e \in Errors : Quit(w, e) =>
              channel' = channel \/ \E m \in Messages : m.row = 0 /\ channel' = Append(channel, m)
  <1>1. worker[w].counts \in Counts /\ worker[w].inflight \in Nat /\ 0 \in 0 .. NumTasks
    BY Basics DEF RankingTypeOK, WorkerRecords
  <1>2. \A n \in Nat : Plus(worker[w].counts, 0, n) \in Counts /\ Plus(worker[w].counts, 1, n) \in Counts
    BY <1>1 DEF Plus, Counts
  <1>3. \A c \in Counts : Message(w, c, 0) \in Messages /\ Message(w, c, 0).row = 0
    BY <1>1 DEF Message, Messages
  <1>4. worker[w].at = "ranking" => Orders[worker[w].task] \in Nat
    BY Basics DEF PlacesInv, Busy
  <1>5. CASE Observe(w)
    <2>1. PICK n \in (worker[w].inflight + 1) .. Orders[worker[w].task] :
            channel' = Append(channel, Message(w, Plus(worker[w].counts, 0, n), 0))
      BY <1>5 DEF Observe, Send
    <2>2. n \in Nat
      BY <1>1, <1>4, <1>5, <2>1 DEF Observe, AtWork
    <2>3. QED
      BY <1>2, <1>3, <2>1, <2>2
  <1>6. CASE FinishRow(w)
    BY <1>2, <1>3, <1>4, <1>6 DEF FinishRow, Send, RowCounts, AtWork
  <1>7. ASSUME NEW e \in Errors, Quit(w, e), channel' # channel
        PROVE  \E m \in Messages : m.row = 0 /\ channel' = Append(channel, m)
    <2>1. worker[w].at = "ranking"
      BY <1>7 DEF Quit
    <2>2. PICK n \in worker[w].inflight .. Orders[worker[w].task] :
            channel' = Append(channel, Message(w, Plus(worker[w].counts, 0, n), 0))
      BY <1>7 DEF Quit
    <2>3. n \in Nat
      BY <1>1, <1>4, <2>1, <2>2
    <2>4. QED
      BY <1>2, <1>3, <2>2, <2>3
  <1>8. QED
    BY <1>5, <1>6, <1>7

\* Such a message adds nothing to the rows sent.
LEMMA NoRowAppended ==
  ASSUME RankingTypeOK, PlacesInv,
         \E m \in Messages : m.row = 0 /\ channel' = Append(channel, m)
  PROVE  Sent' = Sent /\ RowsOnce(channel')
  <1>1. PICK m \in Messages : m.row = 0 /\ channel' = Append(channel, m)
    OBVIOUS
  <1>2. channel \in Seq(Messages) /\ RowsOnce(channel)
    BY DEF RankingTypeOK, PlacesInv
  <1>3. RowsIn(channel') = RowsIn(channel)
    <2>1. RowsIn(Append(channel, m)) = RowsIn(channel) \cup ({m.row} \ {0})
      BY <1>2, Appended
    <2>2. {m.row} \ {0} = {}
      BY <1>1
    <2>3. QED
      BY <1>1, <2>1, <2>2
  <1>4. QED
    BY <1>1, <1>2, <1>3, AppendedOnce DEF Sent

\* Rows stay apart when a worker that is not claiming one keeps its row, loses
\* it or sends it.
LEMMA PlacesKept ==
  ASSUME RankingTypeOK, PlacesInv, NEW w \in Workers,
         \A v \in Workers \ {w} : worker'[v] = worker[v],
         ranked' = ranked, next' \in Nat, next <= next',
         \/ Busy(w) /\ Busy(w)' /\ worker'[w].task = worker[w].task /\ Sent' = Sent
         \/ ~Busy(w)' /\ worker'[w].task = 0 /\ Sent' = Sent
         \/ Busy(w) /\ ~Busy(w)' /\ worker'[w].task = 0 /\ Sent' = Sent \cup {worker[w].task},
         RowsOnce(channel')
  PROVE  PlacesInv'
  <1>1. Sent \cup ranked \subseteq Tasks /\ next \in Nat
    BY SentAreTasks DEF RankingTypeOK
  <1>2. \A t \in Tasks : t <= next => t <= next'
    BY <1>1, Basics DEF Tasks
  <1>3. \A v \in Workers : Busy(v)' => Busy(v) /\ worker'[v].task = worker[v].task
    BY DEF Busy
  <1>4. \A v \in Workers : ~Busy(v)' => worker'[v].task = 0
    BY DEF Busy, PlacesInv
  <1>5. \A v \in Workers : Busy(v)' => worker'[v].task \in Tasks /\ worker'[v].task <= next'
    BY <1>2, <1>3 DEF PlacesInv
  <1>6. \A v \in Workers : Busy(v)' => worker'[v].task \notin ranked' \cup Sent'
    BY <1>3 DEF PlacesInv
  <1>7. \A u, v \in Workers : Busy(u)' /\ Busy(v)' /\ u # v => worker'[u].task # worker'[v].task
    BY <1>3 DEF PlacesInv
  <1>8. Sent' \cap ranked' = {} /\ \A t \in Sent' \cup ranked' : t <= next'
    BY <1>1, <1>2 DEF PlacesInv
  <1>9. QED
    BY <1>4, <1>5, <1>6, <1>7, <1>8 DEF PlacesInv

\* Every step keeps each claimed row in one place.
LEMMA NextPlaces ==
  ASSUME RankingTypeOK, PlacesInv, [Next]_vars
  PROVE  PlacesInv'
  <1>1. channel \in Seq(Messages) /\ next \in Nat /\ worker \in [Workers -> WorkerRecords]
        /\ ranked \in SUBSET Tasks
    BY DEF RankingTypeOK
  <1>2. RowsIn(channel) = Sent
    BY DEF Sent
  <1>3. ASSUME NEW w \in Workers, WorkerStep(w) PROVE PlacesInv'
    <2>1. /\ \A v \in Workers \ {w} : worker'[v] = worker[v]
          /\ worker' \in [Workers -> WorkerRecords]
          /\ ranked' = ranked /\ next' \in Nat /\ next <= next'
      BY <1>3, WorkerFrame
    <2>2. CASE TakeTask(w)
      <3>1. /\ worker'[w].at = "ranking" /\ worker'[w].task = next + 1
            /\ next + 1 \in Tasks /\ next' = next + 1 /\ channel' = channel
        BY <1>1, <2>2, Basics DEF TakeTask, Claimed, Tasks
      <3>2. next + 1 \notin Sent \cup ranked
        BY <1>1 DEF PlacesInv
      <3>3. Sent' = Sent
        BY <3>1 DEF Sent
      <3>4. \A v \in Workers : IF Busy(v)'
              THEN worker'[v].task \in Tasks /\ worker'[v].task <= next'
                   /\ worker'[v].task \notin ranked' \cup Sent'
              ELSE worker'[v].task = 0
        BY <1>1, <2>1, <3>1, <3>2, <3>3 DEF PlacesInv, Busy, Tasks
      <3>5. \A u, v \in Workers : Busy(u)' /\ Busy(v)' /\ u # v => worker'[u].task # worker'[v].task
        BY <1>1, <2>1, <3>1 DEF PlacesInv, Busy
      <3>6. \A t \in Sent' \cup ranked' : t <= next'
        <4>1. \A t \in Tasks : t <= next => t <= next'
          BY <1>1, <3>1, Basics DEF Tasks
        <4>2. QED
          BY <1>1, <2>1, <3>3, <4>1, SentAreTasks DEF PlacesInv
      <3>7. QED
        BY <2>1, <3>1, <3>3, <3>4, <3>5, <3>6 DEF PlacesInv
    <2>3. CASE Observe(w) \/ FinishRow(w)
      <3>1. /\ Busy(w) /\ Busy(w)' /\ worker'[w].task = worker[w].task
        <4>1. CASE Observe(w)
          <5>1. PICK n : worker' = [worker EXCEPT ![w].inflight = n]
            BY <4>1 DEF Observe
          <5>2. QED
            BY <1>1, <4>1, <5>1 DEF Observe, AtWork, Busy
        <4>2. CASE FinishRow(w)
          BY <1>1, <4>2 DEF FinishRow, AtWork, Busy
        <4>3. QED
          BY <2>3, <4>1, <4>2
      <3>2. \E m \in Messages : m.row = 0 /\ channel' = Append(channel, m)
        BY <1>3, <2>3, ProgressMessage
      <3>3. Sent' = Sent /\ RowsOnce(channel')
        BY <3>2, NoRowAppended
      <3>4. QED
        BY <2>1, <3>1, <3>3, PlacesKept
    <2>4. CASE SendRow(w)
      <3>1. /\ Busy(w) /\ ~Busy(w)' /\ worker'[w].task = 0
            /\ channel' = Append(channel, Message(w, worker[w].counts, worker[w].task))
        BY <1>1, <2>4 DEF SendRow, Send, Busy
      <3>2. /\ Message(w, worker[w].counts, worker[w].task) \in Messages
            /\ Message(w, worker[w].counts, worker[w].task).row = worker[w].task
        BY <1>1 DEF Message, Messages, WorkerRecords
      <3>3. worker[w].task \in Tasks /\ worker[w].task \notin Sent
        BY <3>1 DEF PlacesInv
      <3>4. worker[w].task # 0
        BY <3>3, Basics DEF Tasks
      <3>5. Sent' = Sent \cup {worker[w].task} /\ RowsOnce(channel')
        BY <1>1, <3>1, <3>2, <3>3, <3>4, Appended, AppendedOnce DEF PlacesInv, Sent
      <3>6. QED
        BY <2>1, <3>1, <3>5, PlacesKept
    <2>5. CASE ThreadExit(w)
      <3>1. ~Busy(w)' /\ worker'[w].task = 0 /\ channel' = channel
        BY <1>1, <2>5 DEF ThreadExit, Busy, PlacesInv
      <3>2. Sent' = Sent /\ RowsOnce(channel')
        BY <3>1 DEF PlacesInv, Sent
      <3>3. QED
        BY <2>1, <3>1, <3>2, PlacesKept
    <2>6. CASE \E e \in Errors : Quit(w, e)
      <3>1. PICK e \in Errors : Quit(w, e)
        BY <2>6
      <3>2. ~Busy(w)' /\ worker'[w].task = 0
        BY <1>1, <3>1 DEF Quit, Ended, Busy
      <3>3. channel' = channel \/ \E m \in Messages : m.row = 0 /\ channel' = Append(channel, m)
        BY <3>1, ProgressMessage
      <3>4. Sent' = Sent /\ RowsOnce(channel')
        BY <3>3, NoRowAppended DEF PlacesInv, Sent
      <3>5. QED
        BY <2>1, <3>2, <3>4, PlacesKept
    <2>7. QED
      BY <1>3, <2>2, <2>3, <2>4, <2>5, <2>6, StepKinds
  <1>4. CASE Receive
    <2>1. /\ channel # <<>> /\ channel' = Tail(channel) /\ worker' = worker /\ next' = next
          /\ ranked' = ranked \cup ({Head(channel).row} \ {0})
      BY <1>4 DEF Receive
    <2>2. RowsOnce(channel)
      BY DEF PlacesInv
    <2>3. /\ Sent = Sent' \cup ({Head(channel).row} \ {0})
          /\ RowsOnce(channel') /\ Sent' \cap ({Head(channel).row} \ {0}) = {}
      BY <1>1, <2>1, <2>2, Received, ReceivedOnce DEF Sent
    <2>4. Sent' \cup ranked' = Sent \cup ranked /\ Sent' \cap ranked' = {}
      BY <2>1, <2>3 DEF PlacesInv
    <2>5. QED
      BY <2>1, <2>3, <2>4 DEF PlacesInv, Busy
  <1>5. CASE ~Receive /\ ~\E w \in Workers : WorkerStep(w)
    <2>1. UNCHANGED <<next, worker, channel, ranked>>
      BY <1>5 DEF Next, CoordinatorStep, BeginReceiving, EndOfChannel, Join, Return, Stop,
                  vars, coordinator
    <2>2. QED
      BY <2>1 DEF PlacesInv, Busy, Sent
  <1>6. QED
    BY <1>3, <1>4, <1>5

-----------------------------------------------------------------------------
(* The workers' totals are those of the counted rows *)

\* One more row counted by one worker, with its orders.
LEMMA TotalsAfterOneMore ==
  ASSUME RankingTypeOK, TotalsInv, NEW w \in Workers, NEW t \in Tasks \ Counted,
         worker' \in [Workers -> WorkerRecords],
         \A v \in Workers \ {w} : worker'[v] = worker[v],
         worker'[w].counts = Plus(worker[w].counts, 1, Orders[t]),
         Counted' = Counted \cup {t}, Counted \subseteq Tasks
  PROVE  TotalsInv'
  <1> DEFINE f == [v \in Workers |-> worker[v].counts.completed]
             g == [v \in Workers |-> worker[v].counts.evaluated]
             r == [s \in Tasks |-> IF s \in Counted THEN Orders[s] ELSE 0]
             f1 == [v \in Workers |-> worker'[v].counts.completed]
             g1 == [v \in Workers |-> worker'[v].counts.evaluated]
             r1 == [s \in Tasks |-> IF s \in Counted' THEN Orders[s] ELSE 0]
  <1>1. IsFiniteSet(Workers) /\ IsFiniteSet(Tasks)
    BY Basics
  <1>2. Orders[t] \in Nat
    BY Basics
  <1>3. /\ f \in [Workers -> Nat] /\ g \in [Workers -> Nat] /\ r \in [Tasks -> Nat]
        /\ f1 \in [Workers -> Nat] /\ g1 \in [Workers -> Nat] /\ r1 \in [Tasks -> Nat]
    BY Basics DEF RankingTypeOK, WorkerRecords, Counts
  <1>4. f1[w] = f[w] + 1 /\ g1[w] = g[w] + Orders[t] /\ r[t] = 0 /\ r1[t] = Orders[t]
    BY DEF Plus
  <1>5. /\ \A v \in Workers \ {w} : f1[v] = f[v] /\ g1[v] = g[v]
        /\ \A s \in Tasks \ {t} : r1[s] = r[s]
    OBVIOUS
  <1>6. /\ SumFunction(f) = CompletedByWorkers /\ SumFunction(g) = EvaluatedByWorkers
        /\ SumFunction(r) = OrdersOfRows(Counted)
        /\ SumFunction(f1) = CompletedByWorkers' /\ SumFunction(g1) = EvaluatedByWorkers'
        /\ SumFunction(r1) = OrdersOfRows(Counted)'
    BY DEF CompletedByWorkers, EvaluatedByWorkers, OrdersOfRows
  <1> HIDE DEF f, g, r, f1, g1, r1
  <1>7. /\ SumFunction(f) \in Nat /\ SumFunction(g) \in Nat /\ SumFunction(r) \in Nat
        /\ SumFunction(f1) \in Nat /\ SumFunction(g1) \in Nat /\ SumFunction(r1) \in Nat
    BY <1>1, <1>3, SumIsNatural
  <1>8. SumFunction(f1) + f[w] = SumFunction(f) + f1[w]
    BY <1>1, <1>3, <1>5, SumAfterUpdate
  <1>9. SumFunction(g1) + g[w] = SumFunction(g) + g1[w]
    BY <1>1, <1>3, <1>5, SumAfterUpdate
  <1>10. SumFunction(r1) + r[t] = SumFunction(r) + r1[t]
    BY <1>1, <1>3, <1>5, SumAfterUpdate
  <1>11. Cardinality(Counted) \in Nat /\ Cardinality(Counted') = Cardinality(Counted) + 1
    <2>1. IsFiniteSet(Counted)
      BY <1>1, FS_Subset
    <2>2. QED
      BY <2>1, FS_AddElement, FS_CardinalityType
  <1>12. f[w] \in Nat /\ g[w] \in Nat
    BY <1>3
  <1>13. SumFunction(f1) = SumFunction(f) + 1
    BY <1>4, <1>7, <1>8, <1>12
  <1>14. SumFunction(g1) = SumFunction(g) + Orders[t]
    BY <1>2, <1>4, <1>7, <1>9, <1>12
  <1>15. SumFunction(r1) = SumFunction(r) + Orders[t]
    BY <1>2, <1>4, <1>7, <1>10
  <1>16. QED
    BY <1>6, <1>11, <1>13, <1>14, <1>15 DEF TotalsInv

\* Totals depend on the workers' counts and the rows counted alone.
LEMMA TotalsKept ==
  ASSUME TotalsInv, \A v \in Workers : worker'[v].counts = worker[v].counts, Counted' = Counted
  PROVE  TotalsInv'
  <1>1. CompletedByWorkers' = CompletedByWorkers /\ EvaluatedByWorkers' = EvaluatedByWorkers
    BY DEF CompletedByWorkers, EvaluatedByWorkers
  <1>2. QED
    BY <1>1 DEF TotalsInv, OrdersOfRows

\* The rows counted, one by one.
LEMMA CountedIsMember ==
  /\ \A t : t \in Counted <=>
       t \in ranked \/ t \in Sent \/ \E w \in Workers : worker[w].at = "ranked" /\ worker[w].task = t
  /\ \A t : t \in Counted' <=>
       t \in ranked' \/ t \in Sent' \/ \E w \in Workers : worker'[w].at = "ranked" /\ worker'[w].task = t
  BY DEF Counted

\* Only rows are counted.
LEMMA CountedAreTasks ==
  ASSUME RankingTypeOK, PlacesInv
  PROVE  Counted \subseteq Tasks
  <1>1. \A w \in Workers : worker[w].at = "ranked" => worker[w].task \in Tasks
    BY DEF PlacesInv, Busy
  <1>2. QED
    BY <1>1, SentAreTasks, CountedIsMember DEF RankingTypeOK

\* A row counted for a worker is counted once more only when it is ranked, and
\* stays counted when the worker sends it.
LEMMA CountedByOne ==
  ASSUME NEW w \in Workers, ranked' = ranked, \A v \in Workers \ {w} : worker'[v] = worker[v]
  PROVE  /\ worker[w].at # "ranked" /\ worker'[w].at # "ranked" /\ Sent' = Sent => Counted' = Counted
         /\ worker[w].at # "ranked" /\ worker'[w].at = "ranked" /\ Sent' = Sent
              => Counted' = Counted \cup {worker'[w].task}
         /\ worker[w].at = "ranked" /\ worker'[w].at # "ranked" /\ Sent' = Sent \cup {worker[w].task}
              => Counted' = Counted
  <1> DEFINE others == ranked \cup {worker[v].task : v \in {u \in Workers \ {w} : worker[u].at = "ranked"}}
  <1>1. Counted = others \cup Sent \cup (IF worker[w].at = "ranked" THEN {worker[w].task} ELSE {})
    BY DEF Counted
  <1>2. Counted' = others \cup Sent' \cup (IF worker'[w].at = "ranked" THEN {worker'[w].task} ELSE {})
    <2>1. ASSUME NEW t
          PROVE  (\E v \in Workers : worker'[v].at = "ranked" /\ worker'[v].task = t)
                   <=> \/ \E v \in Workers \ {w} : worker[v].at = "ranked" /\ worker[v].task = t
                       \/ worker'[w].at = "ranked" /\ worker'[w].task = t
      OBVIOUS
    <2>2. QED
      BY <2>1 DEF Counted
  <1> HIDE DEF others
  <1>3. QED
    BY <1>1, <1>2

\* What a step of a worker does to the rows counted.
LEMMA CountedAfter ==
  ASSUME RankingTypeOK, PlacesInv, NEW w \in Workers, WorkerStep(w)
  PROVE  /\ FinishRow(w) => Counted' = Counted \cup {worker[w].task} /\ worker[w].task \notin Counted
         /\ ~FinishRow(w) => Counted' = Counted /\ worker'[w].counts = worker[w].counts
  <1>1. /\ \A v \in Workers \ {w} : worker'[v] = worker[v]
        /\ ranked' = ranked
    BY WorkerFrame
  <1>2. worker \in [Workers -> WorkerRecords] /\ channel \in Seq(Messages)
    BY DEF RankingTypeOK
  <1>0. FinishRow(w) => worker'[w].at = "ranked"
    BY <1>2 DEF FinishRow
  <1>3. CASE TakeTask(w) \/ ThreadExit(w)
    <2>1. /\ worker[w].at # "ranked" /\ worker'[w].at # "ranked" /\ Sent' = Sent
          /\ worker'[w].counts = worker[w].counts
      <3>1. CASE TakeTask(w)
        BY <1>2, <3>1 DEF TakeTask, Sent
      <3>2. CASE ThreadExit(w)
        BY <1>2, <3>2 DEF ThreadExit, Sent
      <3>3. QED
        BY <1>3, <3>1, <3>2
    <2>2. ~FinishRow(w)
      BY <1>0, <2>1
    <2>3. QED
      BY <1>1, <2>1, <2>2, CountedByOne
  <1>4. CASE Observe(w)
    <2>1. /\ worker[w].at # "ranked" /\ worker'[w].at # "ranked"
          /\ worker'[w].counts = worker[w].counts
      <3>1. PICK n : worker' = [worker EXCEPT ![w].inflight = n]
        BY <1>4 DEF Observe
      <3>2. QED
        BY <1>2, <1>4, <3>1 DEF Observe, AtWork
    <2>2. Sent' = Sent
      BY <1>4, ProgressMessage, NoRowAppended
    <2>3. ~FinishRow(w)
      BY <1>0, <2>1
    <2>4. QED
      BY <1>1, <2>1, <2>2, <2>3, CountedByOne
  <1>5. CASE FinishRow(w)
    <2>1. worker[w].at = "ranking" /\ worker'[w].at = "ranked" /\ worker'[w].task = worker[w].task
      BY <1>2, <1>5 DEF FinishRow, AtWork
    <2>2. Sent' = Sent
      BY <1>5, ProgressMessage, NoRowAppended
    <2>3. worker[w].task \notin Counted
      BY <2>1, CountedIsMember DEF PlacesInv, Busy
    <2>4. QED
      BY <1>1, <1>5, <2>1, <2>2, <2>3, CountedByOne
  <1>6. CASE SendRow(w)
    <2>1. /\ worker[w].at = "ranked" /\ worker'[w].at # "ranked" /\ worker'[w].counts = worker[w].counts
          /\ channel' = Append(channel, Message(w, worker[w].counts, worker[w].task))
      BY <1>2, <1>6 DEF SendRow, Send
    <2>2. /\ Message(w, worker[w].counts, worker[w].task) \in Messages
          /\ Message(w, worker[w].counts, worker[w].task).row = worker[w].task
      BY <1>2 DEF Message, Messages, WorkerRecords
    <2>3. worker[w].task # 0
      BY <2>1, Basics DEF PlacesInv, Busy, Tasks
    <2>4. Sent' = Sent \cup {worker[w].task}
      BY <1>2, <2>1, <2>2, <2>3, Appended DEF Sent
    <2>5. ~FinishRow(w)
      BY <1>0, <2>1
    <2>6. QED
      BY <1>1, <2>1, <2>4, <2>5, CountedByOne
  <1>7. CASE \E e \in Errors : Quit(w, e)
    <2>1. PICK e \in Errors : Quit(w, e)
      BY <1>7
    <2>2. /\ worker[w].at # "ranked" /\ worker'[w].at = "returned"
          /\ worker'[w].counts = worker[w].counts
      BY <1>2, <2>1 DEF Quit, Ended
    <2>3. Sent' = Sent
      <3>1. CASE channel' = channel
        BY <3>1 DEF Sent
      <3>2. CASE channel' # channel
        BY <2>1, <3>2, ProgressMessage, NoRowAppended
      <3>3. QED
        BY <3>1, <3>2
    <2>4. ~FinishRow(w)
      BY <1>0, <2>2
    <2>5. QED
      BY <1>1, <2>2, <2>3, <2>4, CountedByOne
  <1>8. QED
    BY <1>3, <1>4, <1>5, <1>6, <1>7, StepKinds

\* Every step keeps the totals those of the rows counted.
LEMMA NextTotals ==
  ASSUME RankingTypeOK, PlacesInv, TotalsInv, [Next]_vars
  PROVE  TotalsInv'
  <1>1. ASSUME NEW w \in Workers, WorkerStep(w) PROVE TotalsInv'
    <2>1. /\ \A v \in Workers \ {w} : worker'[v] = worker[v]
          /\ worker' \in [Workers -> WorkerRecords]
      BY <1>1, WorkerFrame
    <2>2. CASE FinishRow(w)
      <3>1. Counted' = Counted \cup {worker[w].task} /\ worker[w].task \notin Counted
        BY <1>1, <2>2, CountedAfter
      <3>2. worker'[w].counts = Plus(worker[w].counts, 1, Orders[worker[w].task])
        BY <2>2 DEF FinishRow, RowCounts, RankingTypeOK
      <3>3. worker[w].task \in Tasks
        BY <2>2 DEF FinishRow, AtWork, PlacesInv, Busy
      <3>4. QED
        BY <2>1, <3>1, <3>2, <3>3, CountedAreTasks, TotalsAfterOneMore
    <2>3. CASE ~FinishRow(w)
      <3>1. Counted' = Counted /\ worker'[w].counts = worker[w].counts
        BY <1>1, <2>3, CountedAfter
      <3>2. QED
        BY <2>1, <3>1, TotalsKept
    <2>4. QED
      BY <2>2, <2>3
  <1>2. CASE Receive
    <2>1. /\ channel # <<>> /\ channel' = Tail(channel) /\ worker' = worker
          /\ ranked' = ranked \cup ({Head(channel).row} \ {0})
      BY <1>2 DEF Receive
    <2>2. Sent = Sent' \cup ({Head(channel).row} \ {0})
      BY <2>1, Received DEF Sent, RankingTypeOK
    <2>3. Counted' = Counted
      BY <2>1, <2>2, CountedIsMember
    <2>4. QED
      BY <2>1, <2>3, TotalsKept
  <1>3. CASE ~Receive /\ ~\E w \in Workers : WorkerStep(w)
    <2>1. UNCHANGED <<worker, channel, ranked>>
      BY <1>3 DEF Next, CoordinatorStep, BeginReceiving, EndOfChannel, Join, Return, Stop,
                  vars, coordinator
    <2>2. Counted' = Counted
      BY <2>1 DEF Counted, Sent
    <2>3. QED
      BY <2>1, <2>2, TotalsKept
  <1>4. QED
    BY <1>1, <1>2, <1>3

-----------------------------------------------------------------------------
(* Counts only grow, and the last of a worker is what it counted *)

\* A step of a worker tells nothing and takes nothing back, or it tells what it
\* counted, no less than before.
LEMMA WorkerAdvances ==
  ASSUME RankingTypeOK, PlacesInv, GrowthInv, EndInv, NEW w \in Workers, WorkerStep(w)
  PROVE  /\ worker'[w].at = "idle" => worker'[w].inflight = 0
         /\ worker'[w].at = "ranking" => worker'[w].inflight <= Orders[worker'[w].task]
         /\ \A c \in Counts : Within(w, c) => Within(w, c)'
         /\ \/ channel' = channel /\ \A c \in Counts : Final(w, c) => Final(w, c)'
            \/ \E m \in Messages : /\ m.worker = w /\ channel' = Append(channel, m)
                                   /\ Within(w, m.counts)' /\ Final(w, m.counts)'
                                   /\ \A d \in Counts : Within(w, d) => Below(d, m.counts)
  <1> DEFINE before == worker[w]
             after == worker'[w]
  <1>1. /\ before \in WorkerRecords /\ worker \in [Workers -> WorkerRecords]
        /\ before.counts.completed \in Nat /\ before.counts.evaluated \in Nat
        /\ before.inflight \in Nat /\ before.counts \in Counts
    BY DEF RankingTypeOK, WorkerRecords, Counts
  <1>2. before.at \in {"ranking", "ranked"} => before.task \in Tasks /\ Orders[before.task] \in Nat
    BY Basics DEF PlacesInv, Busy
  <1>3. /\ before.at = "idle" => before.inflight = 0
        /\ before.at = "ranking" => before.inflight <= Orders[before.task]
    BY DEF GrowthInv
  <1>4. /\ \A c \in Counts : c.completed \in Nat /\ c.evaluated \in Nat
        /\ \A n \in Nat : Plus(before.counts, 0, n) \in Counts /\ Plus(before.counts, 1, n) \in Counts
    BY <1>1 DEF Counts, Plus
  <1>5. \A c \in Counts, t \in 0 .. NumTasks :
          /\ Message(w, c, t) \in Messages
          /\ Message(w, c, t).worker = w /\ Message(w, c, t).counts = c
    BY DEF Message, Messages
  <1>6. 0 \in 0 .. NumTasks
    BY Basics
  <1>7. CASE TakeTask(w)
    <2>1. /\ before.at = "idle" /\ after.at = "ranking" /\ after.task = next + 1
          /\ after.counts = before.counts /\ after.inflight = before.inflight
          /\ after.error = before.error /\ channel' = channel /\ next + 1 \in Tasks
      BY <1>1, <1>7, Basics DEF TakeTask, RankingTypeOK, Tasks
    <2>2. Orders[after.task] \in Nat
      BY <2>1, Basics
    <2>3. QED
      BY <1>1, <1>3, <1>4, <2>1, <2>2 DEF Within, Final, Told, Over
  <1>8. CASE Observe(w)
    <2>1. PICK n \in (before.inflight + 1) .. Orders[before.task] :
            /\ channel' = Append(channel, Message(w, Plus(before.counts, 0, n), 0))
            /\ worker' = [worker EXCEPT ![w].inflight = n]
      BY <1>8 DEF Observe, Send
    <2>2. /\ before.at = "ranking" /\ after.at = "ranking" /\ after.task = before.task
          /\ after.counts = before.counts /\ after.inflight = n /\ after.error = before.error
      <3>1. worker' = [worker EXCEPT ![w].inflight = n]
        BY <2>1
      <3>2. before.at = "ranking"
        BY <1>8 DEF Observe, AtWork
      <3>3. QED
        BY <1>1, <3>1, <3>2 DEF WorkerRecords
    <2>3. n \in Nat /\ before.inflight <= n /\ n <= Orders[before.task]
      BY <1>1, <1>2, <2>1, <2>2
    <2>4. PICK m \in Messages : /\ m.worker = w /\ channel' = Append(channel, m)
                                /\ m.counts = Plus(before.counts, 0, n)
      BY <1>4, <1>5, <1>6, <2>1, <2>3
    <2>5. m.counts.completed = before.counts.completed /\ m.counts.evaluated = before.counts.evaluated + n
      BY <1>1, <2>3, <2>4 DEF Plus
    <2>6. Within(w, m.counts)' /\ Final(w, m.counts)'
      BY <1>1, <2>2, <2>3, <2>5 DEF Within, Final, Told, Over
    <2>7. \A d \in Counts : Within(w, d) => Below(d, m.counts) /\ Within(w, d)'
      BY <1>1, <1>4, <2>2, <2>3, <2>5 DEF Within, Told, Over, Below
    <2>8. QED
      BY <2>2, <2>3, <2>4, <2>6, <2>7
  <1>9. CASE FinishRow(w)
    <2> DEFINE n == Orders[before.task]
    <2>1. /\ channel' = Append(channel, Message(w, Plus(before.counts, 1, n), 0))
          /\ before.at = "ranking" /\ after.at = "ranked"
          /\ after.counts = Plus(before.counts, 1, n) /\ after.error = before.error
      BY <1>1, <1>9 DEF FinishRow, Send, RowCounts, AtWork
    <2>2. n \in Nat /\ before.inflight <= n
      BY <1>2, <1>3, <2>1
    <2>3. PICK m \in Messages : /\ m.worker = w /\ channel' = Append(channel, m)
                                /\ m.counts = Plus(before.counts, 1, n)
      BY <1>4, <1>5, <1>6, <2>1, <2>2
    <2>4. /\ m.counts.completed = before.counts.completed + 1
          /\ m.counts.evaluated = before.counts.evaluated + n
          /\ after.counts = m.counts
      BY <2>1, <2>3 DEF Plus
    <2> HIDE DEF n
    <2>5. Within(w, m.counts)' /\ Final(w, m.counts)'
      BY <1>1, <2>1, <2>2, <2>4 DEF Within, Final, Told, Over
    <2>6. \A d \in Counts : Within(w, d) => Below(d, m.counts) /\ Within(w, d)'
      BY <1>1, <1>4, <2>1, <2>2, <2>4, SMTT(40) DEF Within, Told, Over, Below
    <2>7. QED
      BY <2>1, <2>3, <2>5, <2>6
  <1>10. CASE SendRow(w)
    <2>1. /\ channel' = Append(channel, Message(w, before.counts, before.task))
          /\ before.at = "ranked" /\ after.at = "idle" /\ after.inflight = 0
          /\ after.counts = before.counts /\ after.error = before.error
      BY <1>1, <1>10 DEF SendRow, Send
    <2>2. PICK m \in Messages : /\ m.worker = w /\ channel' = Append(channel, m)
                                /\ m.counts = before.counts
      BY <1>1, <1>5, <2>1 DEF WorkerRecords
    <2>3. Within(w, m.counts)' /\ Final(w, m.counts)'
      BY <1>1, <2>1, <2>2 DEF Within, Final, Told, Over
    <2>4. \A d \in Counts : Within(w, d) => Below(d, m.counts) /\ Within(w, d)'
      BY <1>1, <1>4, <2>1, <2>2 DEF Within, Told, Over, Below
    <2>5. QED
      BY <2>1, <2>2, <2>3, <2>4
  <1>11. CASE ThreadExit(w)
    <2>1. /\ before.at = "returned" /\ after.at = "exited" /\ after.counts = before.counts
          /\ after.error = before.error /\ channel' = channel
      BY <1>1, <1>11 DEF ThreadExit
    <2>2. QED
      BY <1>1, <1>4, <2>1 DEF Within, Final, Told, Over
  <1>12. CASE \E e \in Errors : Quit(w, e)
    <2>1. PICK e \in Errors : Quit(w, e)
      BY <1>12
    <2>2. /\ before.at \in {"idle", "ranking"} /\ after.at = "returned"
          /\ after.counts = before.counts /\ after.error = e
          /\ e = "none" => before.at = "idle"
      BY <1>1, <2>1 DEF Quit, Ended
    <2>3. \A c \in Counts : Within(w, c) => Within(w, c)'
      BY <1>1, <1>4, <2>2 DEF Within, Told, Over
    <2>4. CASE channel' = channel
      <3>1. \A c \in Counts : Final(w, c) => Final(w, c)'
        <4>1. ASSUME NEW c \in Counts, Final(w, c) PROVE Final(w, c)'
          <5>1. CASE e = "none"
            <6>1. before.error = "none"
              BY <2>2 DEF EndInv, Over
            <6>2. QED
              BY <1>1, <1>4, <2>2, <4>1, <5>1, <6>1 DEF Final, Told
          <5>2. CASE e # "none"
            BY <2>2, <4>1, <5>2 DEF Final
          <5>3. QED
            BY <5>1, <5>2
        <4>2. QED
          BY <4>1
      <3>2. QED
        BY <2>2, <2>3, <2>4, <3>1
    <2>5. CASE channel' # channel
      <3>1. before.at = "ranking"
        BY <2>1, <2>5 DEF Quit
      <3>2. PICK n \in before.inflight .. Orders[before.task] :
              channel' = Append(channel, Message(w, Plus(before.counts, 0, n), 0))
        BY <2>1, <2>5 DEF Quit
      <3>3. n \in Nat /\ before.inflight <= n
        BY <1>1, <1>2, <3>1, <3>2
      <3>4. PICK m \in Messages : /\ m.worker = w /\ channel' = Append(channel, m)
                                  /\ m.counts = Plus(before.counts, 0, n)
        BY <1>4, <1>5, <1>6, <3>2, <3>3
      <3>5. m.counts.completed = before.counts.completed /\ m.counts.evaluated = before.counts.evaluated + n
        BY <1>1, <3>3, <3>4 DEF Plus
      <3>6. Within(w, m.counts)' /\ Final(w, m.counts)'
        BY <1>1, <2>2, <3>1, <3>5 DEF Within, Final, Told, Over
      <3>7. \A d \in Counts : Within(w, d) => Below(d, m.counts) /\ Within(w, d)'
        BY <1>1, <1>4, <2>2, <3>1, <3>3, <3>5 DEF Within, Told, Over, Below
      <3>8. QED
        BY <2>2, <3>4, <3>6, <3>7
    <2>6. QED
      BY <2>4, <2>5
  <1>13. QED
    BY <1>7, <1>8, <1>9, <1>10, <1>11, <1>12, StepKinds

\* What holds of one worker and of what it told survives the steps of others.
LEMMA OthersKeep ==
  ASSUME NEW v, worker'[v] = worker[v]
  PROVE  /\ \A c : Within(v, c)' <=> Within(v, c)
         /\ \A c : Final(v, c)' <=> Final(v, c)
  BY DEF Within, Final, Told, Over

\* Messages and the coordinator's counts are counts of what a worker did.
LEMMA CountsAreCounts ==
  ASSUME RankingTypeOK
  PROVE  /\ channel \in Seq(Messages)
         /\ \A w \in Workers : counts[w] \in Counts
         /\ \A i \in DOMAIN channel : channel[i].worker \in Workers /\ channel[i].counts \in Counts
         /\ \A c \in Counts : c.completed \in Nat /\ c.evaluated \in Nat
  <1>1. channel \in Seq(Messages) /\ \A w \in Workers : counts[w] \in Counts
    BY DEF RankingTypeOK
  <1>2. \A m \in Messages : m.worker \in Workers /\ m.counts \in Counts
    BY DEF Messages
  <1>3. \A i \in DOMAIN channel : channel[i] \in Messages
    BY <1>1
  <1>4. QED
    BY <1>1, <1>2, <1>3 DEF Counts

\* The counts that were told only grow.
LEMMA NextGrowth ==
  ASSUME RankingTypeOK, PlacesInv, GrowthInv, EndInv, [Next]_vars
  PROVE  GrowthInv'
  <1>1. ASSUME NEW w \in Workers, WorkerStep(w) PROVE GrowthInv'
    <2>1. /\ \A v \in Workers \ {w} : worker'[v] = worker[v]
          /\ counts' = counts
      BY <1>1, WorkerFrame
    <2>2. /\ worker'[w].at = "idle" => worker'[w].inflight = 0
          /\ worker'[w].at = "ranking" => worker'[w].inflight <= Orders[worker'[w].task]
          /\ \A c \in Counts : Within(w, c) => Within(w, c)'
      BY <1>1, WorkerAdvances
    <2>3. \A v \in Workers :
            /\ worker'[v].at = "idle" => worker'[v].inflight = 0
            /\ worker'[v].at = "ranking" => worker'[v].inflight <= Orders[worker'[v].task]
      BY <2>1, <2>2 DEF GrowthInv
    <2>4. \A v \in Workers : \A c \in Counts : Within(v, c) => Within(v, c)'
      BY <2>1, <2>2, OthersKeep
    <2>5. ASSUME NEW v \in Workers PROVE Within(v, counts[v])'
      <3>1. PICK c \in Counts : c = counts[v]
        BY CountsAreCounts
      <3>2. Within(v, c)'
        BY <2>4, <3>1 DEF GrowthInv
      <3>3. QED
        BY <2>1, <3>1, <3>2
    <2>6. CASE channel' = channel
      <3>1. ASSUME NEW i \in DOMAIN channel' PROVE Within(channel[i].worker, channel[i].counts)'
        <4>1. i \in DOMAIN channel
          BY <2>6
        <4>2. PICK v \in Workers, c \in Counts : v = channel[i].worker /\ c = channel[i].counts
          BY <4>1, CountsAreCounts
        <4>3. Within(v, c)'
          BY <2>4, <4>1, <4>2 DEF GrowthInv
        <4>4. QED
          BY <2>6, <4>2, <4>3
      <3>2. QED
        BY <2>1, <2>3, <2>5, <2>6, <3>1 DEF GrowthInv
    <2>7. CASE \E m \in Messages : /\ m.worker = w /\ channel' = Append(channel, m)
                                   /\ Within(w, m.counts)'
                                   /\ \A d \in Counts : Within(w, d) => Below(d, m.counts)
      <3>1. PICK m \in Messages : /\ m.worker = w /\ channel' = Append(channel, m)
                                  /\ Within(w, m.counts)'
                                  /\ \A d \in Counts : Within(w, d) => Below(d, m.counts)
        BY <2>7
      <3>2. /\ Len(channel) \in Nat /\ DOMAIN channel = 1 .. Len(channel)
            /\ DOMAIN channel' = 1 .. Len(channel) + 1
            /\ \A i \in DOMAIN channel : channel'[i] = channel[i]
            /\ channel'[Len(channel) + 1] = m
        BY <3>1, Appended, CountsAreCounts
      <3>3. \A i \in DOMAIN channel' : i \in DOMAIN channel \/ i = Len(channel) + 1
        BY <3>2
      <3>4. ASSUME NEW i \in DOMAIN channel' PROVE Within(channel[i].worker, channel[i].counts)'
        <4>1. CASE i = Len(channel) + 1
          BY <3>1, <3>2, <4>1
        <4>2. CASE i \in DOMAIN channel
          <5>1. PICK v \in Workers, c \in Counts : v = channel[i].worker /\ c = channel[i].counts
            BY <4>2, CountsAreCounts
          <5>2. Within(v, c)'
            BY <2>4, <4>2, <5>1 DEF GrowthInv
          <5>3. QED
            BY <3>2, <4>2, <5>1, <5>2
        <4>3. QED
          BY <3>3, <4>1, <4>2
      <3>5. ASSUME NEW i \in DOMAIN channel' PROVE Below(counts[channel'[i].worker], channel'[i].counts)
        <4>1. CASE i = Len(channel) + 1
          BY <3>1, <3>2, <4>1, CountsAreCounts DEF GrowthInv
        <4>2. CASE i \in DOMAIN channel
          BY <3>2, <4>2 DEF GrowthInv
        <4>3. QED
          BY <3>3, <4>1, <4>2
      <3>6. ASSUME NEW i \in DOMAIN channel', NEW j \in DOMAIN channel',
                   i < j, channel'[i].worker = channel'[j].worker
            PROVE  Below(channel'[i].counts, channel'[j].counts)
        <4>1. i \in DOMAIN channel
          BY <3>2, <3>6
        <4>2. CASE j = Len(channel) + 1
          <5>1. channel[i].worker = w /\ channel[i].counts \in Counts
            BY <3>1, <3>2, <3>6, <4>1, <4>2, CountsAreCounts
          <5>2. QED
            BY <3>1, <3>2, <4>1, <4>2, <5>1 DEF GrowthInv
        <4>3. CASE j \in DOMAIN channel
          BY <3>2, <3>6, <4>1, <4>3 DEF GrowthInv
        <4>4. QED
          BY <3>3, <4>2, <4>3
      <3>7. QED
        BY <2>1, <2>3, <2>5, <3>4, <3>5, <3>6 DEF GrowthInv
    <2>8. QED
      BY <1>1, <2>6, <2>7, WorkerAdvances
  <1>2. CASE Receive
    <2> DEFINE m == Head(channel)
               n == Len(channel) - 1
    <2>1. /\ channel # <<>> /\ channel' = Tail(channel) /\ worker' = worker
          /\ counts' = [counts EXCEPT ![m.worker] = m.counts]
      BY <1>2 DEF Receive, Latest
    <2>2. /\ n \in Nat /\ DOMAIN channel = 1 .. n + 1 /\ DOMAIN channel' = 1 .. n
          /\ \A i \in 1 .. n : channel'[i] = channel[i + 1] /\ i + 1 \in DOMAIN channel /\ 1 < i + 1
          /\ m = channel[1] /\ 1 \in DOMAIN channel /\ m \in Messages
      BY <2>1, Received, CountsAreCounts
    <2>3. /\ m.worker \in Workers /\ counts'[m.worker] = m.counts
          /\ \A v \in Workers \ {m.worker} : counts'[v] = counts[v]
      BY <2>1, <2>2, CountsAreCounts DEF RankingTypeOK
    <2> HIDE DEF m, n
    <2>4. ASSUME NEW v \in Workers PROVE Within(v, counts'[v])
      BY <2>2, <2>3 DEF GrowthInv
    <2>5. ASSUME NEW i \in 1 .. n
          PROVE  /\ Within(channel'[i].worker, channel'[i].counts)
                 /\ Below(counts'[channel'[i].worker], channel'[i].counts)
      <3>1. CASE channel[i + 1].worker = m.worker
        BY <2>2, <2>3, <3>1 DEF GrowthInv
      <3>2. CASE channel[i + 1].worker # m.worker
        BY <2>2, <2>3, <3>2, CountsAreCounts DEF GrowthInv
      <3>3. QED
        BY <3>1, <3>2
    <2>6. \A i, j \in 1 .. n : i < j => i + 1 < j + 1
      BY <2>2
    <2>7. \A i, j \in 1 .. n : i < j /\ channel'[i].worker = channel'[j].worker
            => Below(channel'[i].counts, channel'[j].counts)
      BY <2>2, <2>6 DEF GrowthInv
    <2>8. QED
      BY <2>1, <2>2, <2>4, <2>5, <2>7 DEF GrowthInv, Within, Told, Over
  <1>3. CASE ~Receive /\ ~\E w \in Workers : WorkerStep(w)
    <2>1. UNCHANGED <<worker, channel, counts>>
      BY <1>3 DEF Next, CoordinatorStep, BeginReceiving, EndOfChannel, Join, Return, Stop,
                  vars, coordinator
    <2>2. QED
      BY <2>1 DEF GrowthInv, Within, Told, Over
  <1>4. QED
    BY <1>1, <1>2, <1>3

\* The coordinator hears the last of each worker, or has heard it.
LEMMA NextLatest ==
  ASSUME RankingTypeOK, PlacesInv, GrowthInv, LatestInv, EndInv, [Next]_vars
  PROVE  LatestInv'
  <1>1. ASSUME NEW w \in Workers, WorkerStep(w) PROVE LatestInv'
    <2>1. /\ \A v \in Workers \ {w} : worker'[v] = worker[v]
          /\ counts' = counts
      BY <1>1, WorkerFrame
    <2>2. CASE channel' = channel /\ \A c \in Counts : Final(w, c) => Final(w, c)'
      <3>1. \A v \in Workers : \A c \in Counts : Final(v, c) => Final(v, c)'
        BY <2>1, <2>2, OthersKeep
      <3>2. ASSUME NEW v \in Workers, Silent(v)' PROVE Final(v, counts[v])'
        <4>1. PICK c \in Counts : c = counts[v]
          BY CountsAreCounts
        <4>2. Silent(v)
          BY <2>2, <3>2 DEF Silent
        <4>3. Final(v, c)'
          BY <3>1, <4>1, <4>2 DEF LatestInv
        <4>4. QED
          BY <2>1, <4>1, <4>3
      <3>3. ASSUME NEW i \in DOMAIN channel',
                   \A j \in DOMAIN channel' : j > i => channel'[j].worker # channel'[i].worker
            PROVE  Final(channel[i].worker, channel[i].counts)'
        <4>1. i \in DOMAIN channel
          BY <2>2
        <4>2. PICK v \in Workers, c \in Counts : v = channel[i].worker /\ c = channel[i].counts
          BY <4>1, CountsAreCounts
        <4>3. Final(v, c)'
          BY <2>2, <3>1, <3>3, <4>1, <4>2 DEF LatestInv
        <4>4. QED
          BY <2>2, <4>2, <4>3
      <3>4. QED
        BY <3>2, <3>3 DEF LatestInv
    <2>3. CASE \E m \in Messages : /\ m.worker = w /\ channel' = Append(channel, m)
                                   /\ Final(w, m.counts)'
      <3>1. PICK m \in Messages : /\ m.worker = w /\ channel' = Append(channel, m)
                                  /\ Final(w, m.counts)'
        BY <2>3
      <3>2. /\ Len(channel) \in Nat /\ DOMAIN channel = 1 .. Len(channel)
            /\ DOMAIN channel' = 1 .. Len(channel) + 1
            /\ \A i \in DOMAIN channel : channel'[i] = channel[i]
            /\ channel'[Len(channel) + 1] = m
        BY <3>1, Appended, CountsAreCounts
      <3>3. /\ \A i \in DOMAIN channel' : i \in DOMAIN channel \/ i = Len(channel) + 1
            /\ Len(channel) + 1 \in DOMAIN channel'
            /\ \A i \in DOMAIN channel : i \in DOMAIN channel' /\ Len(channel) + 1 > i
        BY <3>2
      <3>4. ASSUME NEW v \in Workers, Silent(v)' PROVE Final(v, counts[v])'
        <4>1. v # w
          BY <3>1, <3>2, <3>3, <3>4 DEF Silent
        <4>2. Silent(v)
          BY <3>2, <3>3, <3>4 DEF Silent
        <4>3. PICK c \in Counts : c = counts[v]
          BY CountsAreCounts
        <4>4. Final(v, c)'
          BY <2>1, <4>1, <4>2, <4>3, OthersKeep DEF LatestInv
        <4>5. QED
          BY <2>1, <4>3, <4>4
      <3>5. ASSUME NEW i \in DOMAIN channel',
                   \A j \in DOMAIN channel' : j > i => channel'[j].worker # channel'[i].worker
            PROVE  Final(channel[i].worker, channel[i].counts)'
        <4>1. CASE i = Len(channel) + 1
          BY <3>1, <3>2, <4>1
        <4>2. CASE i \in DOMAIN channel
          <5>1. channel[i].worker # w
            BY <3>1, <3>2, <3>3, <3>5, <4>2
          <5>2. \A j \in DOMAIN channel : j > i => channel[j].worker # channel[i].worker
            BY <3>2, <3>3, <3>5, <4>2
          <5>3. PICK v \in Workers, c \in Counts : v = channel[i].worker /\ c = channel[i].counts
            BY <4>2, CountsAreCounts
          <5>4. Final(v, c)'
            BY <2>1, <4>2, <5>1, <5>2, <5>3, OthersKeep DEF LatestInv
          <5>5. QED
            BY <3>2, <4>2, <5>3, <5>4
        <4>3. QED
          BY <3>3, <4>1, <4>2
      <3>6. QED
        BY <3>4, <3>5 DEF LatestInv
    <2>4. QED
      BY <1>1, <2>2, <2>3, WorkerAdvances
  <1>2. CASE Receive
    <2> DEFINE m == Head(channel)
               n == Len(channel) - 1
    <2>1. /\ channel # <<>> /\ channel' = Tail(channel) /\ worker' = worker
          /\ counts' = [counts EXCEPT ![m.worker] = m.counts]
      BY <1>2 DEF Receive, Latest
    <2>2. /\ n \in Nat /\ DOMAIN channel = 1 .. n + 1 /\ DOMAIN channel' = 1 .. n
          /\ \A i \in 1 .. n : channel'[i] = channel[i + 1] /\ i + 1 \in DOMAIN channel
          /\ m = channel[1] /\ 1 \in DOMAIN channel /\ m \in Messages
      BY <2>1, Received, CountsAreCounts
    <2>3. /\ m.worker \in Workers /\ counts'[m.worker] = m.counts
          /\ \A v \in Workers \ {m.worker} : counts'[v] = counts[v]
      BY <2>1, <2>2, CountsAreCounts DEF RankingTypeOK
    <2> HIDE DEF m, n
    <2>4. \A j \in DOMAIN channel : j # 1 => j > 1 /\ j - 1 \in 1 .. n /\ channel'[j - 1] = channel[j]
      <3>1. \A j \in DOMAIN channel : j # 1 => j > 1 /\ j - 1 \in 1 .. n /\ (j - 1) + 1 = j
        BY <2>2
      <3>2. QED
        BY <2>2, <3>1
    <2>5. ASSUME NEW v \in Workers, \A i \in 1 .. n : channel'[i].worker # v
          PROVE  Final(v, counts'[v])
      <3>1. CASE v = m.worker
        <4>1. \A j \in DOMAIN channel : j > 1 => channel[j].worker # v
          BY <2>4, <2>5
        <4>2. QED
          BY <2>2, <2>3, <3>1, <4>1 DEF LatestInv
      <3>2. CASE v # m.worker
        <4>1. Silent(v)
          BY <2>2, <2>4, <2>5, <3>2 DEF Silent
        <4>2. QED
          BY <2>3, <3>2, <4>1 DEF LatestInv
      <3>3. QED
        BY <3>1, <3>2
    <2>6. ASSUME NEW i \in 1 .. n, \A j \in 1 .. n : j > i => channel'[j].worker # channel'[i].worker
          PROVE  Final(channel'[i].worker, channel'[i].counts)
      <3>1. \A j \in DOMAIN channel : j > i + 1 => j # 1 /\ j - 1 > i
        BY <2>2
      <3>2. \A j \in DOMAIN channel : j > i + 1 => channel[j].worker # channel[i + 1].worker
        BY <2>2, <2>4, <2>6, <3>1
      <3>3. QED
        BY <2>2, <3>2 DEF LatestInv
    <2>7. \A v \in Workers : Silent(v)' => Final(v, counts[v])'
      BY <2>1, <2>2, <2>5 DEF Silent, Final, Told
    <2>8. \A i \in DOMAIN channel' :
            (\A j \in DOMAIN channel' : j > i => channel'[j].worker # channel'[i].worker)
              => Final(channel[i].worker, channel[i].counts)'
      <3>1. SUFFICES ASSUME NEW i \in 1 .. n,
                            \A j \in 1 .. n : j > i => channel'[j].worker # channel'[i].worker
                     PROVE  Final(channel[i].worker, channel[i].counts)'
        BY <2>2
      <3>2. Final(channel'[i].worker, channel'[i].counts)
        BY <2>6, <3>1
      <3>3. QED
        BY <2>1, <3>2 DEF Final, Told
    <2>9. QED
      BY <2>7, <2>8 DEF LatestInv
  <1>3. CASE ~Receive /\ ~\E w \in Workers : WorkerStep(w)
    <2>1. UNCHANGED <<worker, channel, counts>>
      BY <1>3 DEF Next, CoordinatorStep, BeginReceiving, EndOfChannel, Join, Return, Stop,
                  vars, coordinator
    <2>2. QED
      BY <2>1 DEF LatestInv, Silent, Final, Told
  <1>4. QED
    BY <1>1, <1>2, <1>3

-----------------------------------------------------------------------------
(* Nothing is lost without a failure *)

\* Only a worker that is not over does anything but exit, and rows are claimed
\* one by one.
LEMMA WorkersEnd ==
  ASSUME RankingTypeOK, EndInv, NEW w \in Workers, WorkerStep(w)
  PROVE  /\ Over(w) => ThreadExit(w)
         /\ ~Over(w) => worker[w].error = "none"
         /\ worker'[w].error # "none" => Over(w)'
         /\ Over(w)' /\ worker'[w].error = "none" => next >= NumTasks
         /\ worker[w].error # "none" => worker'[w].error # "none"
         /\ ThreadExit(w) => /\ UNCHANGED <<channel, next>> /\ worker'[w].error = worker[w].error
                             /\ Over(w) /\ Over(w)'
         /\ ~TakeTask(w) => next' = next \/ next >= NumTasks
  <1>1. worker \in [Workers -> WorkerRecords] /\ worker[w] \in WorkerRecords
    BY DEF RankingTypeOK
  <1>2. Over(w) => ThreadExit(w)
    BY DEF Over, WorkerStep, TakeTask, RunDry, Observe, FinishRow, SendRow, StopBetweenRows,
           FailUnreported, FailReported, Panic, AtWork
  <1>3. ~Over(w) => worker[w].error = "none"
    BY DEF EndInv
  <1>4. ThreadExit(w) => /\ UNCHANGED <<channel, next>> /\ worker'[w].error = worker[w].error
                         /\ Over(w) /\ Over(w)'
    BY <1>1 DEF ThreadExit, Over
  <1>5. ~TakeTask(w) => next' = next \/ next >= NumTasks
    BY DEF WorkerStep, RunDry, Observe, FinishRow, SendRow, StopBetweenRows,
           FailUnreported, FailReported, Panic, ThreadExit
  <1>6. CASE ThreadExit(w)
    BY <1>2, <1>3, <1>4, <1>5, <1>6 DEF EndInv
  <1>7. CASE \E e \in Errors : Quit(w, e)
    <2>1. PICK e \in Errors : Quit(w, e)
      BY <1>7
    <2>2. /\ Over(w)' /\ worker'[w].error = e /\ ~Over(w)
          /\ e = "none" => next >= NumTasks
      BY <1>1, <2>1 DEF Quit, Ended, Over
    <2>3. QED
      BY <1>2, <1>3, <1>4, <1>5, <2>2
  <1>8. CASE TakeTask(w) \/ Observe(w) \/ FinishRow(w) \/ SendRow(w)
    <2>1. ~Over(w) /\ ~Over(w)' /\ worker'[w].error = worker[w].error
      <3>1. CASE TakeTask(w)
        BY <1>1, <3>1 DEF TakeTask, Over
      <3>2. CASE Observe(w)
        <4>1. PICK n : worker' = [worker EXCEPT ![w].inflight = n]
          BY <3>2 DEF Observe
        <4>2. QED
          BY <1>1, <3>2, <4>1 DEF Observe, AtWork, Over
      <3>3. CASE FinishRow(w)
        BY <1>1, <3>3 DEF FinishRow, AtWork, Over
      <3>4. CASE SendRow(w)
        BY <1>1, <3>4 DEF SendRow, Over
      <3>5. QED
        BY <1>8, <3>1, <3>2, <3>3, <3>4
    <2>2. QED
      BY <1>2, <1>3, <1>4, <1>5, <2>1
  <1>9. QED
    BY <1>6, <1>7, <1>8, StepKinds

\* A row that was claimed is not lost unless a worker failed.
LEMMA NextEnd ==
  ASSUME RankingTypeOK, PlacesInv, EndInv, [Next]_vars
  PROVE  EndInv'
  <1>1. ASSUME NEW w \in Workers, WorkerStep(w) PROVE EndInv'
    <2>1. /\ \A v \in Workers \ {w} : worker'[v] = worker[v]
          /\ UNCHANGED <<at, ranked, joined, failure, outcome>>
          /\ next \in Nat /\ next' \in Nat /\ next <= next'
          /\ worker \in [Workers -> WorkerRecords]
      BY <1>1, WorkerFrame DEF RankingTypeOK
    <2>2. /\ Over(w) => ThreadExit(w)
          /\ ~Over(w) => worker[w].error = "none"
          /\ worker'[w].error # "none" => Over(w)'
          /\ Over(w)' /\ worker'[w].error = "none" => next >= NumTasks
          /\ worker[w].error # "none" => worker'[w].error # "none"
          /\ ThreadExit(w) => /\ UNCHANGED <<channel, next>> /\ worker'[w].error = worker[w].error
                              /\ Over(w) /\ Over(w)'
          /\ ~TakeTask(w) => next' = next \/ next >= NumTasks
      BY <1>1, WorkersEnd
    <2>3. \A v \in Workers : worker'[v].error # "none" => Over(v)'
      BY <2>1, <2>2 DEF EndInv, Over
    <2>4. \A v \in Workers : Over(v)' /\ worker'[v].error = "none" => next' >= NumTasks
      <3>1. next >= NumTasks => next' >= NumTasks
        BY <2>1, Basics
      <3>2. QED
        BY <2>1, <2>2, <3>1 DEF EndInv, Over
    <2>5. ASSUME NEW t \in Tasks, t <= next'
          PROVE  \/ t \in Counted'
                 \/ \E v \in Workers : worker'[v].at = "ranking" /\ worker'[v].task = t
                 \/ \E v \in Workers : worker'[v].error # "none"
      <3>1. CASE TakeTask(w)
        <4>1. /\ next' = next + 1 /\ worker'[w].at = "ranking" /\ worker'[w].task = next + 1
              /\ worker[w].at = "idle"
          BY <2>1, <3>1 DEF TakeTask, Claimed
        <4>2. CASE t = next + 1
          BY <4>1, <4>2
        <4>3. CASE t # next + 1
          <5>1. t <= next
            BY <2>1, <2>5, <4>1, <4>3 DEF Tasks
          <5>2. Counted' = Counted
            <6>1. ~FinishRow(w)
              BY <4>1 DEF FinishRow, AtWork
            <6>2. QED
              BY <1>1, <6>1, CountedAfter
          <5>3. QED
            BY <2>1, <2>2, <4>1, <5>1, <5>2 DEF EndInv
        <4>4. QED
          BY <4>2, <4>3
      <3>2. CASE ~TakeTask(w)
        <4>1. t <= next
          BY <2>1, <2>2, <2>5, <3>2, Basics DEF Tasks
        <4>2. CASE t \in Counted
          BY <1>1, <4>2, CountedAfter
        <4>3. CASE \E v \in Workers : worker[v].error # "none"
          BY <2>1, <2>2, <4>3
        <4>4. CASE \E v \in Workers \ {w} : worker[v].at = "ranking" /\ worker[v].task = t
          BY <2>1, <4>4
        <4>5. CASE worker[w].at = "ranking" /\ worker[w].task = t
          <5>1. CASE FinishRow(w)
            BY <1>1, <4>5, <5>1, CountedAfter
          <5>2. CASE Observe(w)
            <6>1. PICK n : worker' = [worker EXCEPT ![w].inflight = n]
              BY <5>2 DEF Observe
            <6>2. worker'[w].at = "ranking" /\ worker'[w].task = t
              BY <2>1, <4>5, <6>1
            <6>3. QED
              BY <6>2
          <5>3. CASE \E e \in Errors : Quit(w, e)
            <6>1. PICK e \in Errors : Quit(w, e)
              BY <5>3
            <6>2. worker'[w].error = e /\ e # "none"
              BY <2>1, <4>5, <6>1 DEF Quit, Ended
            <6>3. QED
              BY <6>2
          <5>4. CASE SendRow(w) \/ ThreadExit(w)
            BY <4>5, <5>4 DEF SendRow, ThreadExit
          <5>5. QED
            BY <1>1, <3>2, <5>1, <5>2, <5>3, <5>4, StepKinds
        <4>6. QED
          BY <4>1, <4>2, <4>3, <4>4, <4>5 DEF EndInv
      <3>3. QED
        BY <3>1, <3>2
    <2>6. at' \in {"joining", "returned"} => channel' = <<>> /\ \A v \in Workers : Over(v)'
      BY <2>1, <2>2 DEF EndInv, Over
    <2>7. failure' = "none" => \A v \in 1 .. joined' : worker'[v].error = "none"
      <3>1. ASSUME failure' = "none", NEW v \in 1 .. joined' PROVE worker'[v].error = "none"
        <4>1. v \in Workers /\ joined > 0 /\ worker[v].error = "none"
          BY <2>1, <3>1, Basics DEF EndInv, RankingTypeOK, Workers
        <4>2. Over(w)
          BY <4>1 DEF EndInv
        <4>3. QED
          BY <2>1, <2>2, <4>1, <4>2
      <3>2. QED
        BY <3>1
    <2>8. QED
      BY <2>1, <2>3, <2>4, <2>5, <2>6, <2>7 DEF EndInv
  <1>2. CASE Receive
    <2>1. /\ channel # <<>> /\ channel' = Tail(channel) /\ UNCHANGED <<worker, next, at, joined, failure, outcome>>
          /\ ranked' = ranked \cup ({Head(channel).row} \ {0}) /\ at = "receiving"
      BY <1>2 DEF Receive
    <2>2. Sent = Sent' \cup ({Head(channel).row} \ {0})
      BY <2>1, Received DEF Sent, RankingTypeOK
    <2>3. Counted' = Counted
      BY <2>1, <2>2, CountedIsMember
    <2>4. QED
      BY <2>1, <2>3 DEF EndInv, Over
  <1>3. CASE ~Receive /\ ~\E w \in Workers : WorkerStep(w)
    <2>1. UNCHANGED <<next, worker, channel, ranked>>
      BY <1>3 DEF Next, CoordinatorStep, BeginReceiving, EndOfChannel, Join, Return, Stop,
                  vars, coordinator
    <2>2. Counted' = Counted
      BY <2>1 DEF Counted, Sent
    <2>3. CASE BeginReceiving \/ Stop \/ UNCHANGED vars
      BY <2>1, <2>2, <2>3 DEF EndInv, Over, BeginReceiving, Stop, vars, coordinator, RankingTypeOK
    <2>4. CASE EndOfChannel
      BY <2>1, <2>2, <2>4 DEF EndInv, Over, EndOfChannel
    <2>5. CASE Join
      <3>1. /\ joined' = joined + 1 /\ joined + 1 \in Workers /\ at = "joining" /\ at' = at
            /\ failure' = FailureAfter(joined + 1) /\ outcome' = outcome
        BY <2>5 DEF Join
      <3>2. failure' = "none" => failure = "none" /\ worker[joined + 1].error = "none"
        BY <3>1 DEF FailureAfter
      <3>3. \A v \in 1 .. joined' : v \in 1 .. joined \/ v = joined + 1
        BY <3>1 DEF RankingTypeOK
      <3>4. QED
        BY <2>1, <2>2, <3>1, <3>2, <3>3 DEF EndInv, Over
    <2>6. CASE Return
      BY <2>1, <2>2, <2>6 DEF EndInv, Over, Return, RankingTypeOK, Errors
    <2>7. QED
      BY <1>3, <2>3, <2>4, <2>5, <2>6 DEF Next, CoordinatorStep
  <1>4. QED
    BY <1>1, <1>2, <1>3

-----------------------------------------------------------------------------
(* The theorems *)

\* At the start nothing is claimed, sent or counted.
LEMMA InitRanking == Init => RankingInv
  <1> SUFFICES ASSUME Init PROVE RankingInv
    OBVIOUS
  <1>1. RankingTypeOK
    BY InitTypeOK
  <1>2. /\ \A w \in Workers : worker[w].at = "idle" /\ worker[w].task = 0 /\ worker[w].counts = Zero
                              /\ worker[w].inflight = 0 /\ worker[w].error = "none" /\ counts[w] = Zero
        /\ channel = <<>> /\ ranked = {} /\ next = 0
        /\ at = "spawned" /\ outcome = "none" /\ joined = 0
    BY DEF Init
  <1>3. DOMAIN channel = {} /\ Sent = {} /\ Counted = {}
    <2>1. DOMAIN channel = {}
      BY <1>2
    <2>2. QED
      BY <1>2, <2>1 DEF Sent, RowsIn, Counted
  <1>4. PlacesInv
    BY <1>2, <1>3 DEF PlacesInv, Busy, RowsOnce
  <1>5. TotalsInv
    <2> DEFINE f == [w \in Workers |-> worker[w].counts.completed]
               g == [w \in Workers |-> worker[w].counts.evaluated]
               r == [t \in Tasks |-> IF t \in Counted THEN Orders[t] ELSE 0]
    <2>1. f = [w \in Workers |-> 0] /\ g = [w \in Workers |-> 0] /\ r = [t \in Tasks |-> 0]
      BY <1>2, <1>3 DEF Zero
    <2> HIDE DEF f, g, r
    <2>2. SumFunction(f) = 0 /\ SumFunction(g) = 0 /\ SumFunction(r) = 0
      BY <2>1, Basics, SumOfZeros
    <2>3. Cardinality(Counted) = 0
      BY <1>3, FS_EmptySet
    <2>4. QED
      BY <2>2, <2>3 DEF TotalsInv, CompletedByWorkers, EvaluatedByWorkers, OrdersOfRows, f, g, r
  <1>6. GrowthInv
    BY <1>2, <1>3 DEF GrowthInv, Within, Told, Over, Zero
  <1>7. LatestInv
    BY <1>2, <1>3 DEF LatestInv, Silent, Final, Told, Zero
  <1>8. EndInv
    <2>1. \A t \in Tasks : ~(t <= next)
      BY <1>2, Basics DEF Tasks
    <2>2. \A w \in 1 .. joined : FALSE
      BY <1>2
    <2>3. QED
      BY <1>2, <2>1, <2>2 DEF EndInv, Over
  <1>9. QED
    BY <1>1, <1>4, <1>5, <1>6, <1>7, <1>8 DEF RankingInv

\* Whatever the workers do and in whatever order their messages mix, each row
\* is in one place and the counts are those of the rows (ranking.rs:399-470).
THEOREM RankingInvariant == Spec => []RankingInv
  <1>1. RankingInv /\ [Next]_vars => RankingInv'
    BY NextTypeOK, NextPlaces, NextTotals, NextGrowth, NextLatest, NextEnd DEF RankingInv
  <1>2. QED
    BY <1>1, InitRanking, PTL DEF Spec

\* When the coordinator is done with the channel, the rows it replaced are those
\* counted and its counts are those of the workers.
LEMMA NothingUnderway ==
  ASSUME RankingInv, at \in {"joining", "returned"}
  PROVE  /\ Counted = ranked
         /\ Completed = CompletedByWorkers
         /\ (\A w \in Workers : worker[w].error = "none") => Evaluated = EvaluatedByWorkers
  <1>1. channel = <<>> /\ \A w \in Workers : Over(w)
    BY DEF RankingInv, EndInv
  <1>2. DOMAIN channel = {}
    BY <1>1
  <1>3. Sent = {} /\ \A w \in Workers : worker[w].at # "ranked"
    BY <1>1, <1>2 DEF Sent, RowsIn, Over
  <1>4. Counted = ranked
    BY <1>3 DEF Counted
  <1>5. \A w \in Workers : Final(w, counts[w])
    BY <1>2 DEF RankingInv, LatestInv, Silent
  <1>6. Completed = CompletedByWorkers
    BY <1>5 DEF Final, Completed, CompletedByWorkers
  <1>7. ASSUME \A w \in Workers : worker[w].error = "none"
        PROVE  Evaluated = EvaluatedByWorkers
    <2>1. \A w \in Workers : counts[w].evaluated = worker[w].counts.evaluated
      <3>1. \A w \in Workers : worker[w].counts.evaluated \in Nat
        BY DEF RankingInv, RankingTypeOK, WorkerRecords, Counts
      <3>2. QED
        BY <1>1, <1>5, <1>7, <3>1 DEF Final, Told, Over
    <2>2. QED
      BY <2>1 DEF Evaluated, EvaluatedByWorkers
  <1>8. QED
    BY <1>4, <1>6, <1>7

\* For every number of workers and rows: each selected row is ranked once, a
\* success replaced and counted all of them, and even a failure, an interruption
\* or a panic leaves a count of exactly the rows that were replaced.
THEOREM RankingIsAlwaysExact == Spec => []RankingIsExact
  <1>1. RankingInv => RankingIsExact
    <2> SUFFICES ASSUME RankingInv PROVE RankingIsExact
      OBVIOUS
    <2>1. RowsAreRankedOnce
      <3>1. ASSUME NEW v \in Workers, Busy(v), NEW i \in DOMAIN channel
            PROVE  channel[i].row # worker[v].task
        <4>1. worker[v].task \in Tasks /\ worker[v].task \notin Sent
          BY <3>1 DEF RankingInv, PlacesInv
        <4>2. worker[v].task # 0
          BY <4>1, Basics DEF Tasks
        <4>3. QED
          BY <4>1, <4>2 DEF Sent, RowsIn
      <3>2. QED
        BY <3>1 DEF RankingInv, PlacesInv, Busy, RowsAreRankedOnce
    <2>2. CountsMatchRows
      <3>1. ASSUME outcome # "none" PROVE Completed = Cardinality(ranked)
        BY <3>1, NothingUnderway DEF RankingInv, EndInv, TotalsInv
      <3>2. QED
        BY <3>1 DEF CountsMatchRows
    <2>3. SuccessIsComplete
      <3>1. ASSUME outcome = "ok"
            PROVE  ranked = Tasks /\ Completed = NumTasks /\ Evaluated = SumFunction(Orders)
        <4>1. at = "returned" /\ failure = "none" /\ joined = NumWorkers
          BY <3>1 DEF RankingInv, EndInv
        <4>2. \A w \in Workers : worker[w].error = "none" /\ Over(w)
          BY <4>1 DEF RankingInv, EndInv, Workers
        <4>3. next >= NumTasks
          <5>1. 1 \in Workers
            BY Basics DEF Workers
          <5>2. QED
            BY <4>2, <5>1 DEF RankingInv, EndInv
        <4>4. \A t \in Tasks : t <= next
          BY <4>3, Basics DEF RankingInv, RankingTypeOK, Tasks
        <4>5. Tasks \subseteq Counted
          BY <4>2, <4>4 DEF RankingInv, EndInv, Over
        <4>6. Counted = ranked /\ Completed = CompletedByWorkers /\ Evaluated = EvaluatedByWorkers
          BY <4>1, <4>2, NothingUnderway
        <4>7. Counted = Tasks
          BY <4>5, CountedAreTasks DEF RankingInv
        <4>8. OrdersOfRows(Tasks) = SumFunction(Orders)
          <5>1. [t \in Tasks |-> IF t \in Tasks THEN Orders[t] ELSE 0] = Orders
            BY Basics
          <5>2. QED
            BY <5>1 DEF OrdersOfRows
        <4>9. QED
          BY <4>6, <4>7, <4>8, Basics DEF RankingInv, TotalsInv
      <3>2. QED
        BY <3>1 DEF SuccessIsComplete
    <2>4. QED
      BY <2>1, <2>2, <2>3 DEF RankingIsExact
  <1>2. QED
    BY <1>1, RankingInvariant, PTL

\* The coordinator has not heard of more rows than were selected.
LEMMA CompletedAtMost == RankingInv => Completed <= NumTasks
  <1> SUFFICES ASSUME RankingInv PROVE Completed <= NumTasks
    OBVIOUS
  <1> DEFINE f == [w \in Workers |-> counts[w].completed]
             g == [w \in Workers |-> worker[w].counts.completed]
  <1>1. f \in [Workers -> Nat] /\ g \in [Workers -> Nat]
    BY DEF RankingInv, RankingTypeOK, WorkerRecords, Counts
  <1>2. \A w \in Workers : f[w] <= g[w]
    BY DEF RankingInv, GrowthInv, Within
  <1>3. SumFunction(f) = Completed /\ SumFunction(g) = CompletedByWorkers
    BY DEF Completed, CompletedByWorkers
  <1> HIDE DEF f, g
  <1>4. Completed <= CompletedByWorkers /\ Completed \in Nat
    BY <1>1, <1>2, <1>3, Basics, SumIsMonotonic, SumIsNatural
  <1>5. Cardinality(Counted) <= NumTasks /\ Cardinality(Counted) \in Nat
    BY CountedAreTasks, Basics, FS_Subset, FS_CardinalityType DEF RankingInv
  <1>6. QED
    BY <1>4, <1>5, Basics DEF RankingInv, TotalsInv

\* The observer never sees the ranking go back, however the messages of several
\* workers mix, nor more rows than were selected (ranking.rs:437-455).
THEOREM ProgressNeverGoesBack == Spec => ProgressAdvances
  <1>1. RankingInv' => (Completed <= NumTasks)'
    BY CompletedAtMost, PTL
  <1>2. RankingInv /\ RankingInv' /\ [Next]_vars
          => [Completed <= Completed' /\ Evaluated <= Evaluated' /\ Completed' <= NumTasks]_counts
    <2> SUFFICES ASSUME RankingInv, RankingInv', [Next]_vars, counts' # counts
                 PROVE  Completed <= Completed' /\ Evaluated <= Evaluated' /\ Completed' <= NumTasks
      OBVIOUS
    <2>1. Receive
      <3>1. ~\E w \in Workers : WorkerStep(w)
        BY WorkerFrame DEF RankingInv
      <3>2. QED
        BY <3>1 DEF Next, CoordinatorStep, BeginReceiving, EndOfChannel, Join, Return, Stop,
                    vars, coordinator
    <2> DEFINE f == [w \in Workers |-> counts[w].completed]
               g == [w \in Workers |-> counts[w].evaluated]
               f1 == [w \in Workers |-> counts'[w].completed]
               g1 == [w \in Workers |-> counts'[w].evaluated]
    <2>2. /\ f \in [Workers -> Nat] /\ g \in [Workers -> Nat]
          /\ f1 \in [Workers -> Nat] /\ g1 \in [Workers -> Nat]
      BY DEF RankingInv, RankingTypeOK, Counts
    <2>3. \A w \in Workers : f[w] <= f1[w] /\ g[w] <= g1[w]
      <3>1. PICK m \in Messages : m = Head(channel) /\ 1 \in DOMAIN channel /\ m = channel[1]
        BY <2>1, Received DEF Receive, RankingInv, RankingTypeOK
      <3>2. counts' = [counts EXCEPT ![m.worker] = m.counts]
        BY <2>1, <3>1 DEF Receive, Latest
      <3>3. Below(counts[m.worker], m.counts)
        BY <3>1 DEF RankingInv, GrowthInv
      <3>4. \A w \in Workers : f[w] \in Nat /\ g[w] \in Nat
        BY <2>2
      <3>5. \A w \in Workers : IF w = m.worker THEN counts'[w] = m.counts ELSE counts'[w] = counts[w]
        BY <3>2 DEF RankingInv, RankingTypeOK
      <3>6. QED
        BY <3>3, <3>4, <3>5 DEF Below
    <2>4. /\ SumFunction(f) = Completed /\ SumFunction(g) = Evaluated
          /\ SumFunction(f1) = Completed' /\ SumFunction(g1) = Evaluated'
      BY DEF Completed, Evaluated
    <2> HIDE DEF f, g, f1, g1
    <2>5. Completed <= Completed' /\ Evaluated <= Evaluated'
      BY <2>2, <2>3, <2>4, Basics, SumIsMonotonic
    <2>6. QED
      BY <1>1, <2>5
  <1>3. QED
    BY <1>2, RankingInvariant, PTL DEF Spec, ProgressAdvances
=============================================================================
