--------------------------- MODULE ParallelRanking ---------------------------
(***************************************************************************)
(* Deep ranking on several threads                                         *)
(* (crates/anagram-core/src/ranking.rs, deep_analyze_parallel).            *)
(*                                                                         *)
(* Scoped workers take tasks from a shared counter, rank copies of their   *)
(* rows with deep_analyze_observed and send counts and finished rows over  *)
(* one unbounded channel.  The coordinator, which owns the rows, receives  *)
(* until every sender is gone, then joins the workers one after another.   *)
(*                                                                         *)
(* What a row's ranking computes is a function of the row; its orders are  *)
(* counted in units of the interval between two in-flight counts.          *)
(***************************************************************************)
EXTENDS Naturals, Sequences, FiniteSets, Functions

CONSTANTS
  NumWorkers,  \* threads: the configured number, at most one per task
  NumTasks,    \* rows selected for deep analysis
  Orders       \* orders the ranking of each row evaluates

\* A bag has at least one word and so at least one order; with a single worker
\* or a single row the caller's own thread ranks.
ASSUME RankingAssumption ==
  /\ NumTasks \in Nat /\ NumWorkers \in 2..NumTasks
  /\ Orders \in [1..NumTasks -> Nat \ {0}]

VARIABLES
  next,      \* the shared counter
  worker,    \* the worker threads
  channel,   \* messages on their way to the coordinator
  at,        \* where the coordinator is
  open,      \* whether the coordinator still holds a sender of its own
  counts,    \* the coordinator's latest counts of each worker
  ranked,    \* the rows it has replaced
  joined,    \* workers it has joined
  failure,   \* the error of the last failed worker it has joined
  outcome,   \* what deep_analyze_parallel returned ("none": still running)
  stopped    \* the control is cancelled or its deadline has passed

coordinator == <<at, open, counts, ranked, joined, failure, outcome>>
vars == <<next, worker, channel, coordinator, stopped>>

Workers == 1..NumWorkers
Tasks == 1..NumTasks

Zero == [completed |-> 0, evaluated |-> 0]

\* inflight counts the orders of the current row that were sent.
Init ==
  /\ next = 0
  /\ worker = [w \in Workers |->
       [at |-> "idle", task |-> 0, counts |-> Zero, inflight |-> 0, error |-> "none"]]
  /\ channel = <<>>
  /\ at = "spawned" /\ open = TRUE
  /\ counts = [w \in Workers |-> Zero]
  /\ ranked = {}
  /\ joined = 0
  /\ failure = "none"
  /\ outcome = "none"
  /\ stopped = FALSE

-----------------------------------------------------------------------------
(* A worker *)

Message(w, c, t) == [worker |-> w, counts |-> c, row |-> t]

Send(m) == channel' = Append(channel, m)

\* What a worker has finished, and completed rows and evaluated orders on top.
Plus(c, completed, evaluated) ==
  [completed |-> c.completed + completed, evaluated |-> c.evaluated + evaluated]

AtWork(w) == worker[w].at = "ranking"

\* The closure has returned or unwound, and dropped its sender.
Ended(w, e) ==
  [worker[w] EXCEPT !.at = "returned", !.task = 0, !.inflight = 0, !.error = e]

ClaimedWithoutAdd == next
\* next.fetch_add(1)
Claimed == next + 1

\* The check at the top of the loop passed and there is a task.
TakeTask(w) ==
  /\ worker[w].at = "idle"
  /\ ~stopped
  /\ next < NumTasks
  /\ next' = Claimed
  /\ worker' = [worker EXCEPT ![w].at = "ranking", ![w].task = next + 1]
  /\ UNCHANGED <<channel, coordinator, stopped>>

\* There is no task left.
RunDry(w) ==
  /\ worker[w].at = "idle"
  /\ ~stopped
  /\ next >= NumTasks
  /\ next' = Claimed
  /\ worker' = [worker EXCEPT ![w] = Ended(w, "none")]
  /\ UNCHANGED <<channel, coordinator, stopped>>

\* The observer during the ranking of a row.
Observe(w) ==
  /\ AtWork(w)
  /\ \E n \in (worker[w].inflight + 1)..Orders[worker[w].task] :
       /\ Send(Message(w, Plus(worker[w].counts, 0, n), 0))
       /\ worker' = [worker EXCEPT ![w].inflight = n]
  /\ UNCHANGED <<next, coordinator, stopped>>

RowNotCounted(w) == worker[w].counts
\* Counts are those of everything the worker did, not of the current row.
RowCounts(w) == Plus(worker[w].counts, 1, Orders[worker[w].task])

\* The row is ranked: deep_analyze_observed reports it ...
FinishRow(w) ==
  /\ AtWork(w)
  /\ Send(Message(w, RowCounts(w), 0))
  /\ worker' = [worker EXCEPT ![w].at = "ranked", ![w].counts = RowCounts(w)]
  /\ UNCHANGED <<next, coordinator, stopped>>

\* ... and the worker sends it.
SendRow(w) ==
  /\ worker[w].at = "ranked"
  /\ Send(Message(w, worker[w].counts, worker[w].task))
  /\ worker' = [worker EXCEPT ![w].at = "idle", ![w].task = 0, ![w].inflight = 0]
  /\ UNCHANGED <<next, coordinator, stopped>>

\* The check at the top of the loop.
StopBetweenRows(w) ==
  /\ worker[w].at = "idle"
  /\ stopped
  /\ worker' = [worker EXCEPT ![w] = Ended(w, "stopped")]
  /\ UNCHANGED <<next, channel, coordinator, stopped>>

\* What may end the ranking of a row after n of its orders: an interruption, or
\* before the first order options that it rejects.
ErrorsAfter(n) ==
  (IF stopped THEN {"stopped"} ELSE {}) \cup (IF n = 0 THEN {"failed"} ELSE {})

\* deep_analyze_observed fails before it looks at the row.
FailUnreported(w) ==
  /\ AtWork(w)
  /\ worker[w].inflight = 0
  /\ \E e \in ErrorsAfter(0) : worker' = [worker EXCEPT ![w] = Ended(w, e)]
  /\ UNCHANGED <<next, channel, coordinator, stopped>>

\* The ranking of the row fails: what it did is still reported.
FailReported(w) ==
  /\ AtWork(w)
  /\ \E n \in worker[w].inflight..Orders[worker[w].task] :
       /\ Send(Message(w, Plus(worker[w].counts, 0, n), 0))
       /\ \E e \in ErrorsAfter(n) : worker' = [worker EXCEPT ![w] = Ended(w, e)]
  /\ UNCHANGED <<next, coordinator, stopped>>

\* The join reports a panic as an error like any other.
Panic(w) ==
  /\ AtWork(w)
  /\ worker' = [worker EXCEPT ![w] = Ended(w, "failed")]
  /\ UNCHANGED <<next, channel, coordinator, stopped>>

ThreadExit(w) ==
  /\ worker[w].at = "returned"
  /\ worker' = [worker EXCEPT ![w].at = "exited"]
  /\ UNCHANGED <<next, channel, coordinator, stopped>>

-----------------------------------------------------------------------------
(* The coordinator *)

SenderKept == UNCHANGED open
\* drop(tx): from here on only workers can send.
SenderDropped == open' = FALSE

BeginReceiving ==
  /\ at = "spawned"
  /\ at' = "receiving"
  /\ SenderDropped
  /\ UNCHANGED <<next, worker, channel, counts, ranked, joined, failure, outcome, stopped>>

LastMessageOnly(m) == [w \in Workers |-> IF w = m.worker THEN m.counts ELSE Zero]
\* counts[worker] = (completed, evaluated)
Latest(m) == [counts EXCEPT ![m.worker] = m.counts]

Receive ==
  /\ at = "receiving"
  /\ channel # <<>>
  /\ channel' = Tail(channel)
  /\ counts' = Latest(Head(channel))
  /\ ranked' = ranked \cup ({Head(channel).row} \ {0})
  /\ UNCHANGED <<next, worker, at, open, joined, failure, outcome, stopped>>

\* The receiver's iterator ends once nothing is left and nobody can send.
EndOfChannel ==
  /\ at = "receiving"
  /\ channel = <<>>
  /\ ~open
  /\ \A w \in Workers : worker[w].at \in {"returned", "exited"}
  /\ at' = "joining"
  /\ UNCHANGED <<next, worker, channel, open, counts, ranked, joined, failure,
                 outcome, stopped>>

LastHandleDecides(w) == worker[w].error
\* A worker that ended well does not hide the failure of another.
FailureAfter(w) == IF worker[w].error = "none" THEN failure ELSE worker[w].error

Join ==
  LET w == joined + 1 IN
  /\ at = "joining"
  /\ w \in Workers
  /\ worker[w].at = "exited"
  /\ joined' = w
  /\ failure' = FailureAfter(w)
  /\ UNCHANGED <<next, worker, channel, at, open, counts, ranked, outcome, stopped>>

Return ==
  /\ at = "joining"
  /\ joined = NumWorkers
  /\ at' = "returned"
  /\ outcome' = IF failure # "none" THEN failure
                ELSE IF stopped THEN "stopped" ELSE "ok"
  /\ UNCHANGED <<next, worker, channel, open, counts, ranked, joined, failure, stopped>>

\* Somebody cancels, or the deadline passes.
Stop ==
  /\ ~stopped
  /\ stopped' = TRUE
  /\ UNCHANGED <<next, worker, channel, coordinator>>

-----------------------------------------------------------------------------
WorkerStep(w) ==
  \/ TakeTask(w) \/ RunDry(w) \/ Observe(w) \/ FinishRow(w) \/ SendRow(w)
  \/ StopBetweenRows(w)
  \/ FailUnreported(w) \/ FailReported(w) \/ Panic(w) \/ ThreadExit(w)

CoordinatorStep == BeginReceiving \/ Receive \/ EndOfChannel \/ Join \/ Return

Next == (\E w \in Workers : WorkerStep(w)) \/ CoordinatorStep \/ Stop

Spec == Init /\ [][Next]_vars

\* Threads are scheduled and the ranking of a row is finite work.
FairSpec == Spec /\ WF_vars(CoordinatorStep) /\ \A w \in Workers : WF_vars(WorkerStep(w))

-----------------------------------------------------------------------------
(* Properties *)

\* What the observer of the coordinator is told.
Completed == SumFunction([w \in Workers |-> counts[w].completed])
Evaluated == SumFunction([w \in Workers |-> counts[w].evaluated])

\* No row is ranked by two workers, or again after it was sent.
RowsAreRankedOnce ==
  \A v \in Workers : worker[v].at \in {"ranking", "ranked"} =>
    /\ worker[v].task \notin ranked
    /\ \A i \in DOMAIN channel : channel[i].row # worker[v].task
    /\ \A w \in Workers \ {v} :
         worker[w].at \in {"ranking", "ranked"} => worker[w].task # worker[v].task

\* Success means that every selected row was replaced by its ranking and every
\* order counted, whoever did the work and however messages mixed.
SuccessIsComplete ==
  outcome = "ok" => /\ ranked = Tasks
                    /\ Completed = NumTasks
                    /\ Evaluated = SumFunction(Orders)

\* Even after a failure, an interruption or a panic the rows that were replaced
\* are exactly those counted as completed.
CountsMatchRows == outcome # "none" => Completed = Cardinality(ranked)

\* Workers that claim, rank and report in any order, and stop or fail anywhere,
\* rank each selected row once and count what they ranked (ranking.rs:399-470).
RankingIsExact == RowsAreRankedOnce /\ SuccessIsComplete /\ CountsMatchRows

\* Progress never goes backwards, nor past the rows that were selected.
ProgressAdvances ==
  [][Completed <= Completed' /\ Evaluated <= Evaluated' /\ Completed' <= NumTasks]_counts

\* The coordinator returns, whatever happens to its workers.
RankingReturns == <>(outcome # "none")

\* The observer sees a ranking that only advances and that ends.
RankingAdvances == ProgressAdvances /\ RankingReturns
=============================================================================
