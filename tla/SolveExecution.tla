--------------------------- MODULE SolveExecution ---------------------------
(***************************************************************************)
(* One execution of a request: the solve pipeline                          *)
(* (crates/anagram-core/src/solve.rs) and the desktop's generation-only    *)
(* run (jobs.rs, generate_only), with the statuses they publish            *)
(* (progress.rs, contracts.rs), admission (policy.rs) and the result cache *)
(* seen from one process.                                                  *)
(*                                                                         *)
(* The pipeline is sequential.  Around it the request may be cancelled and *)
(* its deadline may pass at any moment; the pipeline looks at its control  *)
(* at the places where the code does, and a stage that is interrupted in   *)
(* the middle may instead report an error of its own.  The status it keeps *)
(* is seen by others only when it is emitted.                              *)
(*                                                                         *)
(* What a request yields is a function of the request and the corpora,     *)
(* "yield"; executions of the same request follow one another so that a    *)
(* later one meets what an earlier one left in the cache.                  *)
(***************************************************************************)
EXTENDS Naturals

CONSTANTS
  MaxGenerated,   \* bound: bags a request generates
  MaxOrders,      \* bound: orders evaluated
  Budgets,        \* candidate_budget of requests; 0 is unlimited
  DeepLimits,     \* max_deep_analyzed of deployments
  Unlimited,      \* a deployment without that limit
  MaxExecutions   \* bound: executions of the request

ASSUME ExecutionAssumption ==
  /\ {MaxGenerated, MaxOrders, MaxExecutions} \subseteq Nat
  /\ Budgets \subseteq Nat
  /\ DeepLimits \subseteq Nat \ {0}
  /\ Unlimited \notin Nat

VARIABLES
  kind,       \* "ranked" or "bags" (generation only)
  budget,     \* candidate_budget
  yield,      \* what a complete computation of the request gives
  executions, \* number of executions so far
  deepLimit,  \* max_deep_analyzed of the current deployment
  cache,      \* cache configuration: "off", "use" or "rebuild"
  row,        \* the cached row under the request's key
  cancelled,  \* the shared flag of the control
  expired,    \* its deadline has passed
  pc,         \* where the execution is
  status,     \* Progress.status
  emitted,    \* the last status the observer got
  result      \* "none", "ok" or the code of the error

request == <<kind, budget, yield>>
control == <<cancelled, expired>>
deployment == <<executions, deepLimit, cache>>
vars == <<request, deployment, row, control, pc, status, emitted, result>>

Reached == {"exhausted", "candidate_cap"}

\* A cached payload and the yield have the same shape.
Payloads ==
  [generated : 0..MaxGenerated, stop : Reached, selected : 0..MaxGenerated,
   analyzed : 0..MaxGenerated, orders : 0..MaxOrders,
   rescored : 0..MaxGenerated, shown : 0..MaxGenerated]

NoRow == [present |-> FALSE]
Damaged == [present |-> TRUE, intact |-> FALSE]
Kept(p) == [present |-> TRUE, intact |-> TRUE, payload |-> p]

\* A request that reaches its budget stops there; every bag that is kept has at
\* least one order and one place in the shortlist of its group.
Yields(b) ==
  {y \in Payloads :
     /\ y.stop = "candidate_cap" => b # 0 /\ y.generated = b
     /\ b # 0 => y.generated <= b
     /\ y.selected <= y.generated /\ y.analyzed = y.selected
     /\ y.orders >= y.selected
     /\ y.rescored <= y.selected /\ y.shown <= y.generated
     /\ y.generated > 0 => y.selected > 0 /\ y.rescored > 0 /\ y.shown > 0
     /\ y.selected = 0 => y.orders = 0}

\* Rows somebody else may have left: a damaged one, or payloads no execution of
\* this request can have produced.
Foreign(b, y) ==
  {NoRow, Damaged, Kept([y EXCEPT !.analyzed = @ + 1]), Kept([y EXCEPT !.stop = "timed_out"])}
  \cup {Kept([y EXCEPT !.generated = n]) : n \in {b + 1} \ {1}}

Queued ==
  [state |-> "queued", stage |-> "queued", generated |-> 0, selected |-> 0,
   analyzed |-> 0, orders |-> 0, rescored |-> 0, shown |-> 0,
   exhaustion |-> "unknown", data_complete |-> FALSE, hit |-> FALSE,
   rebuilt |-> FALSE, corrupt |-> FALSE, error |-> "none"]

Init ==
  /\ kind \in {"ranked", "bags"}
  /\ budget \in Budgets
  /\ yield \in Yields(budget)
  /\ executions = 1
  /\ deepLimit \in DeepLimits \cup {Unlimited}
  /\ cache \in IF kind = "ranked" THEN {"off", "use", "rebuild"} ELSE {"off"}
  /\ row \in IF cache = "off" THEN {NoRow} ELSE Foreign(budget, yield)
  /\ cancelled = FALSE /\ expired = FALSE
  /\ pc = "new"
  /\ status = Queued /\ emitted = Queued
  /\ result = "none"

-----------------------------------------------------------------------------
(* Control and errors *)

Stopped == cancelled \/ expired
\* Control::check: a cancellation outweighs a deadline.
Reason == IF cancelled THEN "cancelled" ELSE "timed_out"

\* Stages that read files, start threads or look at the control themselves.
Fallible == {"loading", "generate", "generating", "preparing", "ranking",
             "rescoring", "finalizing"}

\* Places where run() checks the control and returns its reason.
Checked == {"queued", "hit", "hitcheck", "hitfinal", "generate", "generated",
            "finalizing", "stored"}

ChecksAtTheEnd == FALSE
\* A generation-only run starts without a check and checks only after generating.
ChecksNow == pc \in Checked /\ (kind = "bags" => pc = "generated")

Proceeds == ChecksNow => ~Stopped

Env == UNCHANGED <<request, deployment, control>>

Err(code) ==
  /\ pc' = "closing"
  /\ result' = code
  /\ UNCHANGED <<status, emitted, row>>
  /\ Env

Interrupted == ChecksNow /\ Stopped /\ Err(Reason)

\* An error of a stage, an interruption it noticed itself included: the code of
\* such an error is the stage's, not the reason.
Fails == pc \in Fallible /\ Err("failed")

-----------------------------------------------------------------------------
(* Progress *)

Emit(s) == status' = s /\ emitted' = s
Keep(s) == status' = s /\ UNCHANGED emitted

Step(from, to) ==
  /\ pc = from
  /\ Proceeds
  /\ pc' = to
  /\ Env

NoResult == UNCHANGED <<row, result>>

\* solve_cached_observed: a request stopped before it is admitted is no job.
Admit ==
  /\ pc = "new"
  /\ kind = "ranked" => ~Stopped
  /\ pc' = "queued"
  /\ Emit(Queued)
  /\ NoResult /\ Env

\* Progress::start.
Start ==
  /\ Step("queued", "loading")
  /\ Emit([status EXCEPT !.state = "running", !.stage = "loading_corpora"])
  /\ NoResult

\* Every source is captured: the identities are complete.
Load ==
  /\ Step("loading", IF cache = "off" THEN "generate" ELSE "lookup")
  /\ Keep([status EXCEPT !.data_complete = TRUE])
  /\ NoResult

-----------------------------------------------------------------------------
(* The cache *)

AnyPayload(p) == TRUE
\* Whether a decoded payload can be the result of this request.
Reusable(p) ==
  /\ budget # 0 => p.generated <= budget
  /\ \/ p.stop = "exhausted"
     \/ p.stop = "candidate_cap" /\ budget > 0 /\ p.generated = budget
  /\ p.selected <= p.generated
  /\ p.analyzed = p.selected
  /\ p.rescored <= p.generated
  /\ p.shown <= p.generated

Rebuilding == [status EXCEPT !.rebuilt = (cache = "rebuild")]

\* Store::lookup and the decoding of what it found.
FindRow ==
  /\ cache = "use"
  /\ row.present /\ row.intact /\ Reusable(row.payload)
  /\ Step("lookup", "hit")
  /\ Keep(Rebuilding)
  /\ NoResult

\* A damaged row is deleted by the lookup, one that decodes to nonsense stays.
FindCorruptRow ==
  /\ cache = "use"
  /\ row.present
  /\ row.intact => ~Reusable(row.payload)
  /\ Step("lookup", "generate")
  /\ Keep([Rebuilding EXCEPT !.corrupt = TRUE])
  /\ row' = IF row.intact THEN row ELSE NoRow
  /\ UNCHANGED result

\* No row, a rebuild, or storage that is busy or broken: not a failure.
FindNothing ==
  /\ Step("lookup", "generate")
  /\ Keep(Rebuilding) \/ Keep(status)
  /\ NoResult

HitPreparing ==
  /\ Step("hit", "hitcheck")
  /\ Emit([status EXCEPT !.stage = "preparing"])
  /\ NoResult

Exhaustion(stop) ==
  CASE stop = "exhausted" -> "exhausted"
    [] stop = "candidate_cap" -> "truncated"
    [] OTHER -> "unknown"

HitCounts ==
  /\ Step("hitcheck", "hitadmit")
  /\ Emit([status EXCEPT !.hit = TRUE, !.generated = row.payload.generated,
                         !.exhaustion = Exhaustion(row.payload.stop),
                         !.selected = row.payload.selected])
  /\ NoResult

NotAdmittedAgain == TRUE
\* DeploymentLimits::admit_deep, also for a shortlist that was cached.
AdmitsDeep == deepLimit # Unlimited => status.selected <= deepLimit

HitFinalizing ==
  /\ AdmitsDeep
  /\ Step("hitadmit", "hitfinal")
  /\ Emit([status EXCEPT !.stage = "finalizing"])
  /\ NoResult

HitResult ==
  /\ Step("hitfinal", "closing")
  /\ Keep([status EXCEPT !.analyzed = row.payload.analyzed,
                         !.orders = row.payload.orders,
                         !.rescored = row.payload.rescored,
                         !.shown = row.payload.shown])
  /\ result' = "ok"
  /\ UNCHANGED row

-----------------------------------------------------------------------------
(* Computing *)

Generate ==
  /\ Step("generate", "generating")
  /\ Emit([status EXCEPT !.stage = "generating"])
  /\ NoResult

\* A generation that was interrupted still returns the bags it has.  The ranked
\* run emits the counts before it checks, the generation-only run does not.
Generated ==
  /\ Step("generating", "generated")
  /\ \E n \in 0..yield.generated, stop \in Reached \cup {"interrupted"} :
       LET s == [status EXCEPT !.generated = n, !.exhaustion = Exhaustion(stop)] IN
       /\ IF stop = "interrupted" THEN Stopped
                                  ELSE n = yield.generated /\ stop = yield.stop
       /\ IF kind = "ranked" THEN Emit(s) ELSE Keep(s)
  /\ NoResult

BagsResult ==
  /\ kind = "bags"
  /\ Step("generated", "closing")
  /\ Keep([status EXCEPT !.shown = status.generated])
  /\ result' = "ok"
  /\ UNCHANGED row

Prepare ==
  /\ kind = "ranked"
  /\ Step("generated", "preparing")
  /\ Emit([status EXCEPT !.stage = "preparing"])
  /\ NoResult

Select ==
  /\ Step("preparing", "admit")
  /\ Emit([status EXCEPT !.selected = yield.selected])
  /\ NoResult

RejectDeep ==
  /\ pc \in {"admit", "hitadmit"} /\ ~AdmitsDeep
  /\ Err("failed")

Rank ==
  /\ AdmitsDeep
  /\ Step("admit", "ranking")
  /\ Emit([status EXCEPT !.stage = "deep_ranking"])
  /\ NoResult

CountsOfOneWorker == (0..yield.analyzed) \X (0..yield.orders)
\* Rows completed and orders evaluated so far, over all workers.
CountsOfAllWorkers ==
  (status.analyzed..yield.analyzed) \X (status.orders..yield.orders)

\* The observer of deep ranking.
RankSome ==
  /\ Step("ranking", "ranking")
  /\ \E c \in CountsOfAllWorkers :
       Emit([status EXCEPT !.analyzed = c[1], !.orders = c[2]])
  /\ NoResult

\* All rows are analysed (and refined).
RankAll ==
  /\ status.analyzed = yield.analyzed /\ status.orders = yield.orders
  /\ Step("ranking", "rescoring")
  /\ Emit([status EXCEPT !.stage = "corpus_ranking"])
  /\ NoResult

RescoreSome ==
  /\ Step("rescoring", "rescoring")
  /\ \E n \in status.rescored..yield.rescored : Emit([status EXCEPT !.rescored = n])
  /\ NoResult

RescoreAll ==
  /\ Step("rescoring", "finalizing")
  /\ Emit([status EXCEPT !.rescored = yield.rescored, !.stage = "finalizing"])
  /\ NoResult

StopOf(exhaustion) ==
  CASE exhaustion = "exhausted" -> "exhausted"
    [] exhaustion = "truncated" -> "candidate_cap"
    [] OTHER -> "interrupted"

\* RankedPayload: what the execution has, whole or not.
Payload ==
  [generated |-> status.generated, stop |-> StopOf(status.exhaustion),
   selected |-> status.selected, analyzed |-> status.analyzed,
   orders |-> status.orders, rescored |-> status.rescored, shown |-> yield.shown]

\* Buckets are built and put; whether the put succeeds does not matter.
Store ==
  /\ Step("finalizing", "stored")
  /\ row' \in IF cache = "off" THEN {row} ELSE {row, Kept(Payload)}
  /\ UNCHANGED <<status, emitted, result>>

RankedResult ==
  /\ Step("stored", "closing")
  /\ Keep([status EXCEPT !.shown = yield.shown])
  /\ result' = "ok"
  /\ UNCHANGED row

-----------------------------------------------------------------------------
(* The end *)

ResultStands == result
\* The last check overrides whatever run() returned.
FinalResult == IF Stopped THEN Reason ELSE result

StateOfCode(r) ==
  CASE r = "ok" -> "succeeded"
    [] r \in {"cancelled", "timed_out"} -> r
    [] OTHER -> "failed"

ShownStays == status.shown
\* No rows are published for a failed or interrupted execution.
ShownAtEnd == IF FinalResult = "ok" THEN status.shown ELSE 0

\* The last check of the control.
Conclude ==
  /\ pc = "closing"
  /\ pc' = "concluded"
  /\ result' = FinalResult
  /\ Keep([status EXCEPT !.shown = ShownAtEnd])
  /\ UNCHANGED row
  /\ Env

\* Progress::finish: a cancellation since that check is too late for it.
Publish ==
  /\ pc = "concluded"
  /\ pc' = "done"
  /\ Emit([status EXCEPT !.state = StateOfCode(result),
                         !.stage = IF result = "ok" THEN "complete" ELSE @,
                         !.error = IF result = "ok" THEN "none" ELSE result])
  /\ UNCHANGED <<row, result>>
  /\ Env

\* A stopped request that is not admitted leaves no status.
Refuse ==
  /\ pc = "new" /\ kind = "ranked" /\ Stopped
  /\ pc' = "refused"
  /\ UNCHANGED <<status, emitted, result, row>>
  /\ Env

\* The same request again, with a new control and the deployment of that day.
Again ==
  /\ pc \in {"done", "refused"}
  /\ executions < MaxExecutions
  /\ executions' = executions + 1
  /\ deepLimit' \in DeepLimits \cup {Unlimited}
  /\ cache' \in IF cache = "off" THEN {"off"} ELSE {"use", "rebuild"}
  /\ cancelled' = FALSE /\ expired' = FALSE
  /\ pc' = "new"
  /\ status' = Queued /\ emitted' = Queued
  /\ result' = "none"
  /\ UNCHANGED <<request, row>>

Cancel ==
  /\ ~cancelled /\ cancelled' = TRUE
  /\ UNCHANGED <<request, deployment, row, expired, pc, status, emitted, result>>

Expire ==
  /\ ~expired /\ expired' = TRUE
  /\ UNCHANGED <<request, deployment, row, cancelled, pc, status, emitted, result>>

-----------------------------------------------------------------------------
Pipeline ==
  \/ Admit \/ Refuse \/ Start \/ Load
  \/ FindRow \/ FindCorruptRow \/ FindNothing
  \/ HitPreparing \/ HitCounts \/ HitFinalizing \/ HitResult
  \/ Generate \/ Generated \/ BagsResult \/ Prepare \/ Select \/ RejectDeep
  \/ Rank \/ RankSome \/ RankAll \/ RescoreSome \/ RescoreAll
  \/ Store \/ RankedResult
  \/ Interrupted \/ Fails \/ Conclude \/ Publish

Next == Pipeline \/ Again \/ Cancel \/ Expire

Spec == Init /\ [][Next]_vars
FairSpec == Spec /\ WF_vars(Pipeline)
-----------------------------------------------------------------------------
(* Properties *)

Stages == <<"queued", "loading_corpora", "generating", "preparing",
            "deep_ranking", "corpus_ranking", "finalizing", "complete">>
StageIndex(s) == CHOOSE i \in DOMAIN Stages : Stages[i] = s

\* JobStatus::validate, which every emit asserts in debug builds.
CountsAgree(s) ==
  /\ s.selected <= s.generated /\ s.analyzed <= s.selected
  /\ s.shown <= s.generated /\ s.rescored <= s.generated
  /\ budget # 0 => s.generated <= budget
  /\ deepLimit # Unlimited => s.analyzed <= deepLimit
  /\ s.exhaustion = "truncated" => budget # 0 /\ s.generated = budget

CountsFitStage(s) ==
  /\ s.stage \in {"queued", "loading_corpora"} =>
       s.generated = 0 /\ s.orders = 0 /\ s.exhaustion = "unknown"
  /\ s.stage \in {"generating", "preparing"} =>
       s.analyzed = 0 /\ s.orders = 0 /\ s.rescored = 0
  /\ s.stage = "generating" => s.selected = 0
  /\ s.stage = "deep_ranking" => s.rescored = 0

LifecycleAgrees(s) ==
  CASE s.state = "queued" ->
         /\ s.stage = "queued" /\ s.error = "none" /\ s.generated = 0
         /\ s.orders = 0 /\ s.exhaustion = "unknown"
    [] s.state = "running" ->
         s.stage \notin {"queued", "complete"} /\ s.error = "none" /\ s.shown = 0
    [] s.state = "succeeded" ->
         /\ s.stage = "complete" /\ s.error = "none"
         /\ s.exhaustion # "unknown" /\ s.data_complete
    [] OTHER -> s.stage # "complete" /\ s.error = s.state /\ s.shown = 0

\* Every status an observer gets satisfies the contract, on a hit, on a fresh
\* computation and wherever the execution is interrupted.
EveryStatusIsValid ==
  CountsAgree(emitted) /\ CountsFitStage(emitted) /\ LifecycleAgrees(emitted)

\* A succeeded execution shows what the request yields, whether it was computed
\* or reused, and never more deep work than the current deployment admits.
SuccessIsTheYield ==
  pc = "done" /\ result = "ok" =>
    /\ emitted.generated = yield.generated
    /\ emitted.exhaustion = Exhaustion(yield.stop)
    /\ kind = "ranked" =>
         /\ emitted.selected = yield.selected /\ emitted.analyzed = yield.analyzed
         /\ emitted.orders = yield.orders /\ emitted.rescored = yield.rescored
         /\ emitted.shown = yield.shown
         /\ deepLimit # Unlimited => yield.selected <= deepLimit

\* What executions leave in the cache is a complete result, even if they were
\* stopped right after.
CacheHoldsTheYield ==
  row \in {NoRow, Kept(yield)} \cup Foreign(budget, yield)

\* What an execution shows and what it stores are what the request yields, in
\* statuses the contract allows: a reused, partial or interrupted result never
\* passes for a complete one (solve.rs:296, solve.rs:498, progress.rs:57).
ExecutionIsConsistent == EveryStatusIsValid /\ SuccessIsTheYield /\ CacheHoldsTheYield

\* Within one execution states change as the contract allows, stages and counts
\* never go back (but the rows of a failure are withdrawn) and an answer to
\* whether the search was exhausted is not taken back.
MayBecome(s, t) ==
  \/ s = "queued" /\ t \in {"running", "cancelled", "timed_out", "failed"}
  \/ s = "running" /\ t \in {"succeeded", "cancelled", "timed_out", "failed"}

StatusesAdvance ==
  [][executions' = executions =>
       /\ emitted'.state # emitted.state => MayBecome(emitted.state, emitted'.state)
       /\ StageIndex(emitted.stage) <= StageIndex(emitted'.stage)
       /\ emitted.generated <= emitted'.generated
       /\ emitted.selected <= emitted'.selected
       /\ emitted.analyzed <= emitted'.analyzed
       /\ emitted.orders <= emitted'.orders
       /\ emitted.rescored <= emitted'.rescored
       /\ emitted.exhaustion # "unknown" => emitted'.exhaustion = emitted.exhaustion
    ]_<<emitted, executions>>

\* A cancellation that comes before the last check is what the last status
\* reports, whatever the execution was doing, on a hit and on a result it already
\* had.  One that comes between that check and the status is not seen.
TooLate == {"concluded", "done"}
CancelIsReported ==
  cancelled /\ pc \notin {"new", "refused"} \cup TooLate ~> emitted.state = "cancelled"

\* The statuses of an execution advance and end as its user was told they would:
\* no count goes back while several workers report, and no cancellation before
\* the last check is lost to a result that was already there (ranking.rs:430,
\* solve.rs:169).
StatusesAreTrue == StatusesAdvance /\ CancelIsReported
=============================================================================
