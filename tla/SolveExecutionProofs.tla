------------------------ MODULE SolveExecutionProofs ------------------------
(***************************************************************************)
(* One execution of a request publishes only statuses of its contract and  *)
(* stores only complete results, for every budget, deployment limit and    *)
(* number of executions, and wherever it is cancelled or fails.            *)
(***************************************************************************)
EXTENDS SolveExecution, TLAPS

Waiting == {"new", "queued", "refused"}
Early == {"loading", "lookup", "hit", "hitcheck", "generate", "generating"}
Hitting == {"hitadmit", "hitfinal"}
Analysing == {"ranking", "rescoring", "finalizing", "stored"}
Running == Early \cup Hitting \cup {"generated", "preparing", "admit"} \cup Analysing
Places == Waiting \cup Running \cup {"closing", "concluded", "done"}

Stops == {"cancelled", "timed_out", "failed"}

Statuses ==
  [state : {"queued", "running", "succeeded"} \cup Stops,
   stage : {"queued", "loading_corpora", "generating", "preparing", "deep_ranking",
            "corpus_ranking", "finalizing", "complete"},
   generated : Nat, selected : Nat, analyzed : Nat, orders : Nat, rescored : Nat, shown : Nat,
   exhaustion : {"unknown", "exhausted", "truncated"},
   data_complete : BOOLEAN, hit : BOOLEAN, rebuilt : BOOLEAN, corrupt : BOOLEAN,
   error : {"none"} \cup Stops]

ExecutionTypeOK ==
  /\ kind \in {"ranked", "bags"} /\ budget \in Budgets /\ yield \in Yields(budget)
  /\ executions \in Nat /\ deepLimit \in DeepLimits \cup {Unlimited}
  /\ cache \in {"off", "use", "rebuild"} /\ (kind = "bags" => cache = "off")
  /\ cancelled \in BOOLEAN /\ expired \in BOOLEAN
  /\ pc \in Places /\ status \in Statuses /\ emitted \in Statuses
  /\ result \in {"none", "ok"} \cup Stops

\* The stage that a place of the pipeline has announced.
StageOfPlace(p) ==
  CASE p \in {"loading", "lookup", "hit", "generate"} -> "loading_corpora"
    [] p \in {"hitcheck", "hitadmit", "preparing", "admit"} -> "preparing"
    [] p \in {"generating", "generated"} -> "generating"
    [] p = "ranking" -> "deep_ranking"
    [] p = "rescoring" -> "corpus_ranking"
    [] OTHER -> "finalizing"

NothingCounted(s) ==
  /\ s.generated = 0 /\ s.selected = 0 /\ s.analyzed = 0 /\ s.orders = 0
  /\ s.rescored = 0 /\ s.exhaustion = "unknown"

GeneratedAll(s) ==
  s.generated = yield.generated /\ s.exhaustion = Exhaustion(yield.stop)

AnalyzedAll(s) == s.analyzed = yield.analyzed /\ s.orders = yield.orders

\* What a complete execution has to show.
WholeYield(s) ==
  /\ GeneratedAll(s)
  /\ kind = "ranked" => /\ s.selected = yield.selected /\ AnalyzedAll(s)
                        /\ s.rescored = yield.rescored /\ s.shown = yield.shown
                        /\ AdmitsDeep

\* Only the result of this request passes for a cached one.
RowInv ==
  /\ CacheHoldsTheYield
  /\ pc \in {"lookup", "hit", "hitcheck"} \cup Hitting => kind = "ranked"
  /\ pc \in {"hit", "hitcheck"} \cup Hitting => row = Kept(yield)

\* What the status of the pipeline says at each place.
StatusInv ==
  /\ CountsAgree(status) /\ CountsFitStage(status)
  /\ pc \in Waiting => status = Queued /\ emitted = Queued
  /\ pc \in Waiting \cup Running => result = "none" /\ status.shown = 0
  /\ pc \in Running => /\ status.state = "running" /\ status.error = "none"
                       /\ status.stage = StageOfPlace(pc)
                       /\ pc # "loading" => status.data_complete
  /\ pc \in Early => NothingCounted(status)
  /\ pc = "generated" => /\ status.generated <= yield.generated
                         /\ status.selected = 0
                         /\ Stopped \/ GeneratedAll(status)
  /\ pc \in {"preparing", "admit"} \cup Analysing => kind = "ranked"
  /\ pc \in Hitting \cup {"preparing", "admit"} \cup Analysing => GeneratedAll(status)
  /\ pc \in Hitting \cup {"admit"} \cup Analysing => status.selected = yield.selected
  /\ pc = "preparing" => status.selected = 0
  /\ pc \in Hitting => status.analyzed = 0 /\ status.orders = 0 /\ status.rescored = 0
  /\ pc \in {"hitfinal"} \cup Analysing => AdmitsDeep
  /\ pc = "ranking" => status.analyzed <= yield.analyzed /\ status.orders <= yield.orders
  /\ pc \in {"rescoring", "finalizing", "stored"} => AnalyzedAll(status)
  /\ pc = "rescoring" => status.rescored <= yield.rescored
  /\ pc \in {"finalizing", "stored"} => status.rescored = yield.rescored

\* How the execution ends.
EndInv ==
  /\ pc \in {"closing", "concluded"} =>
       /\ status.state \in {"queued", "running"} /\ status.stage # "complete"
       /\ result # "none"
       /\ result = "ok" =>
            WholeYield(status) /\ status.state = "running" /\ status.data_complete
  /\ pc = "concluded" /\ result # "ok" => status.shown = 0
  /\ pc = "done" => /\ result # "none" /\ emitted = status
                    /\ result = "ok" => WholeYield(status)

\* The observer never knows more than the pipeline.
Behind(e, s) ==
  /\ e.state = s.state /\ e.stage = s.stage
  /\ e.generated <= s.generated /\ e.selected <= s.selected /\ e.analyzed <= s.analyzed
  /\ e.orders <= s.orders /\ e.rescored <= s.rescored
  /\ e.exhaustion # "unknown" => e.exhaustion = s.exhaustion
ObserverInv == Behind(emitted, status) /\ EveryStatusIsValid

ExecutionInv == ExecutionTypeOK /\ RowInv /\ StatusInv /\ EndInv /\ ObserverInv

-----------------------------------------------------------------------------
(* Types *)

\* What a request yields.
LEMMA YieldFacts ==
  ASSUME ExecutionTypeOK
  PROVE  /\ budget \in Nat
         /\ yield \in Payloads
         /\ yield.generated \in Nat /\ yield.selected \in Nat /\ yield.analyzed \in Nat
         /\ yield.orders \in Nat /\ yield.rescored \in Nat /\ yield.shown \in Nat
         /\ yield.stop \in Reached
         /\ yield.stop = "candidate_cap" => budget # 0 /\ yield.generated = budget
         /\ budget # 0 => yield.generated <= budget
         /\ yield.selected <= yield.generated /\ yield.analyzed = yield.selected
         /\ yield.rescored <= yield.selected /\ yield.shown <= yield.generated
  BY ExecutionAssumption DEF ExecutionTypeOK, Yields, Payloads, Reached

\* What the status calls the end of a search.
LEMMA ExhaustionFacts ==
  /\ Exhaustion("exhausted") = "exhausted" /\ Exhaustion("candidate_cap") = "truncated"
  /\ Exhaustion("interrupted") = "unknown"
  /\ StopOf("exhausted") = "exhausted" /\ StopOf("truncated") = "candidate_cap"
  BY DEF Exhaustion, StopOf

\* The states that statuses end in.
LEMMA StateOfCodeFacts ==
  /\ StateOfCode("ok") = "succeeded"
  /\ \A code \in Stops : StateOfCode(code) = code
  BY DEF StateOfCode, Stops

\* An execution begins with a status.
LEMMA QueuedIsAStatus == Queued \in Statuses
  BY DEF Queued, Statuses

\* How an execution ends is a status too.
LEMMA EndIsAStatus ==
  ASSUME status \in Statuses, NEW n \in Nat, NEW state \in {"succeeded"} \cup Stops,
         NEW stage \in {"complete", status.stage}, NEW error \in {"none"} \cup Stops
  PROVE  /\ [status EXCEPT !.shown = n] \in Statuses
         /\ [status EXCEPT !.state = state, !.stage = stage, !.error = error] \in Statuses
  BY DEF Statuses

\* What the lookup notes of the row it found is no progress.
LEMMA RebuildingIsAStatus ==
  ASSUME status \in Statuses
  PROVE  /\ Rebuilding \in Statuses
         /\ [Rebuilding EXCEPT !.corrupt = TRUE] \in Statuses
         /\ Rebuilding.state = status.state /\ Rebuilding.stage = status.stage
         /\ [Rebuilding EXCEPT !.corrupt = TRUE].state = status.state
         /\ [Rebuilding EXCEPT !.corrupt = TRUE].stage = status.stage
  <1> DEFINE noted(b) == [status EXCEPT !.rebuilt = b]
  <1>1. \A b \in BOOLEAN : /\ noted(b) \in Statuses
                          /\ noted(b).state = status.state /\ noted(b).stage = status.stage
    BY DEF Statuses
  <1>2. Rebuilding = noted(cache = "rebuild") /\ (cache = "rebuild") \in BOOLEAN
    BY DEF Rebuilding
  <1> HIDE DEF noted
  <1>3. /\ Rebuilding \in Statuses
        /\ Rebuilding.state = status.state /\ Rebuilding.stage = status.stage
    BY <1>1, <1>2
  <1>4. /\ [Rebuilding EXCEPT !.corrupt = TRUE] \in Statuses
        /\ [Rebuilding EXCEPT !.corrupt = TRUE].state = Rebuilding.state
        /\ [Rebuilding EXCEPT !.corrupt = TRUE].stage = Rebuilding.stage
    BY <1>3 DEF Statuses
  <1>5. QED
    BY <1>3, <1>4

\* A hit shows this request's own yield.
LEMMA PayloadOfKept ==
  ASSUME row = Kept(yield)
  PROVE  row.payload = yield
  BY DEF Kept

\* The pipeline leaves request, deployment and control alone, and what the
\* observer gets is the status.
LEMMA PipelineFrame ==
  ASSUME Pipeline
  PROVE  /\ Env
         /\ emitted' = emitted \/ emitted' = status'
  <1> USE DEF Env, Step, Err, Emit, Keep, NoResult
  <1>1. CASE Admit \/ Refuse \/ Start \/ Load
    BY <1>1 DEF Admit, Refuse, Start, Load
  <1>2. CASE FindRow \/ FindCorruptRow \/ FindNothing
    BY <1>2 DEF FindRow, FindCorruptRow, FindNothing
  <1>3. CASE HitPreparing \/ HitCounts \/ HitFinalizing \/ HitResult
    BY <1>3 DEF HitPreparing, HitCounts, HitFinalizing, HitResult
  <1>4. CASE Generate \/ Generated \/ BagsResult \/ Prepare \/ Select \/ RejectDeep
    BY <1>4 DEF Generate, Generated, BagsResult, Prepare, Select, RejectDeep
  <1>5. CASE Rank \/ RankSome \/ RankAll \/ RescoreSome \/ RescoreAll
    BY <1>5 DEF Rank, RankSome, RankAll, RescoreSome, RescoreAll
  <1>6. CASE Store \/ RankedResult \/ Interrupted \/ Fails \/ Conclude \/ Publish
    BY <1>6 DEF Store, RankedResult, Interrupted, Fails, Conclude, Publish
  <1>7. QED
    BY <1>1, <1>2, <1>3, <1>4, <1>5, <1>6 DEF Pipeline

\* Every step keeps the types.
LEMMA NextTypes ==
  ASSUME ExecutionTypeOK, RowInv, [Next]_vars
  PROVE  ExecutionTypeOK'
  <1>1. ASSUME Pipeline PROVE pc' \in Places /\ result' \in {"none", "ok"} \cup Stops
    <2> USE DEF Env, Step, Err, NoResult, Places, Waiting, Running, Early, Hitting, Analysing,
                ExecutionTypeOK, Stops, Reason
    <2>1. CASE Admit \/ Refuse \/ Start \/ Load
      BY <2>1 DEF Admit, Refuse, Start, Load
    <2>2. CASE FindRow \/ FindCorruptRow \/ FindNothing
      BY <2>2 DEF FindRow, FindCorruptRow, FindNothing
    <2>3. CASE HitPreparing \/ HitCounts \/ HitFinalizing \/ HitResult
      BY <2>3 DEF HitPreparing, HitCounts, HitFinalizing, HitResult
    <2>4. CASE Generate \/ Generated \/ BagsResult \/ Prepare \/ Select \/ RejectDeep
      BY <2>4 DEF Generate, Generated, BagsResult, Prepare, Select, RejectDeep
    <2>5. CASE Rank \/ RankSome \/ RankAll \/ RescoreSome \/ RescoreAll
      BY <2>5 DEF Rank, RankSome, RankAll, RescoreSome, RescoreAll
    <2>6. CASE Store \/ RankedResult \/ Interrupted \/ Fails
      BY <2>6 DEF Store, RankedResult, Interrupted, Fails
    <2>7. CASE Conclude \/ Publish
      BY <2>7 DEF Conclude, Publish, FinalResult
    <2>8. QED
      BY <1>1, <2>1, <2>2, <2>3, <2>4, <2>5, <2>6, <2>7 DEF Pipeline
  <1>2. ASSUME Pipeline PROVE status' \in Statuses
    <2> USE YieldFacts, ExhaustionFacts
        DEF Step, Err, Emit, Keep, NoResult, ExecutionTypeOK, Statuses, Reached
    <2>1. CASE Admit \/ Refuse \/ Start \/ Load
      <3>1. CASE Admit
        BY <3>1, QueuedIsAStatus DEF Admit
      <3>2. CASE Refuse
        BY <3>2 DEF Refuse
      <3>3. CASE Start
        BY <3>3 DEF Start
      <3>4. CASE Load
        BY <3>4 DEF Load
      <3>5. QED
        BY <2>1, <3>1, <3>2, <3>3, <3>4
    <2>2. CASE FindRow \/ FindCorruptRow \/ FindNothing
      <3>1. \/ status' = status \/ status' = Rebuilding
            \/ status' = [Rebuilding EXCEPT !.corrupt = TRUE]
        BY <2>2 DEF FindRow, FindCorruptRow, FindNothing
      <3>2. status \in Statuses
        OBVIOUS
      <3>3. QED
        BY <3>1, <3>2, RebuildingIsAStatus
    <2>3. CASE HitPreparing \/ HitFinalizing
      BY <2>3 DEF HitPreparing, HitFinalizing
    <2>4. CASE HitCounts \/ HitResult
      <3>1. row.payload = yield
        BY <2>4, PayloadOfKept DEF HitCounts, HitResult, RowInv, Hitting
      <3>2. CASE HitCounts
        BY <3>1, <3>2 DEF HitCounts
      <3>3. CASE HitResult
        BY <3>1, <3>3 DEF HitResult
      <3>4. QED
        BY <2>4, <3>2, <3>3
    <2>5. CASE Generate \/ BagsResult \/ Prepare \/ Select \/ RejectDeep
      BY <2>5 DEF Generate, BagsResult, Prepare, Select, RejectDeep
    <2>6. CASE Generated
      <3>1. PICK n \in 0 .. yield.generated, stop \in Reached \cup {"interrupted"} :
              status' = [status EXCEPT !.generated = n, !.exhaustion = Exhaustion(stop)]
        BY <2>6 DEF Generated
      <3>2. n \in Nat /\ Exhaustion(stop) \in {"unknown", "exhausted", "truncated"}
        OBVIOUS
      <3>3. QED
        BY <3>1, <3>2
    <2>7. CASE Rank \/ RankAll
      BY <2>7 DEF Rank, RankAll
    <2>13. CASE RescoreAll
      BY <2>13 DEF RescoreAll
    <2>8. CASE RankSome
      <3>1. PICK c \in CountsOfAllWorkers :
              status' = [status EXCEPT !.analyzed = c[1], !.orders = c[2]]
        BY <2>8 DEF RankSome
      <3>2. c[1] \in Nat /\ c[2] \in Nat
        BY DEF CountsOfAllWorkers
      <3>3. QED
        BY <3>1, <3>2
    <2>9. CASE RescoreSome
      <3>1. PICK n \in status.rescored .. yield.rescored : status' = [status EXCEPT !.rescored = n]
        BY <2>9 DEF RescoreSome
      <3>2. n \in Nat
        OBVIOUS
      <3>3. QED
        BY <3>1, <3>2
    <2>10. CASE Store \/ RankedResult \/ Interrupted \/ Fails
      BY <2>10 DEF Store, RankedResult, Interrupted, Fails
    <2>11. CASE Conclude \/ Publish
      <3>1. CASE Conclude
        <4>1. ShownAtEnd \in Nat
          BY DEF ShownAtEnd
        <4>2. status' = [status EXCEPT !.shown = ShownAtEnd]
          BY <3>1 DEF Conclude
        <4>3. QED
          BY <4>1, <4>2
      <3>2. CASE Publish
        <4> DEFINE ended(state, stage, error) ==
                     [status EXCEPT !.state = state, !.stage = stage, !.error = error]
        <4>1. status \in Statuses
          OBVIOUS
        <4>2. \A state \in {"succeeded"} \cup Stops, stage \in {"complete", status.stage},
                 error \in {"none"} \cup Stops : ended(state, stage, error) \in Statuses
          BY <4>1, EndIsAStatus
        <4>3. /\ StateOfCode(result) \in {"succeeded"} \cup Stops
              /\ (IF result = "ok" THEN "complete" ELSE status.stage) \in {"complete", status.stage}
              /\ (IF result = "ok" THEN "none" ELSE result) \in {"none"} \cup Stops
          BY DEF StateOfCode, Stops
        <4>4. status' = ended(StateOfCode(result),
                              IF result = "ok" THEN "complete" ELSE status.stage,
                              IF result = "ok" THEN "none" ELSE result)
          BY <3>2 DEF Publish
        <4> HIDE DEF ended
        <4>5. QED
          BY <4>2, <4>3, <4>4
      <3>3. QED
        BY <2>11, <3>1, <3>2
    <2>12. QED
      BY <1>2, <2>1, <2>2, <2>3, <2>4, <2>5, <2>6, <2>7, <2>8, <2>9, <2>10, <2>11,
         <2>13 DEF Pipeline
  <1>3. CASE Pipeline
    BY <1>1, <1>2, <1>3, PipelineFrame
       DEF Env, request, deployment, control, ExecutionTypeOK
  <1>4. CASE Again
    <2>1. /\ UNCHANGED <<kind, budget, yield, row>> /\ executions' = executions + 1
          /\ deepLimit' \in DeepLimits \cup {Unlimited} /\ cancelled' = FALSE /\ expired' = FALSE
          /\ pc' = "new" /\ status' = Queued /\ emitted' = Queued /\ result' = "none"
          /\ cache' \in IF cache = "off" THEN {"off"} ELSE {"use", "rebuild"}
      BY <1>4 DEF Again, request
    <2>2. /\ kind' \in {"ranked", "bags"} /\ budget' \in Budgets /\ yield' \in Yields(budget')
          /\ executions' \in Nat
      BY <2>1 DEF ExecutionTypeOK
    <2>3. cache' \in {"off", "use", "rebuild"} /\ (kind' = "bags" => cache' = "off")
      BY <2>1 DEF ExecutionTypeOK
    <2>4. pc' \in Places /\ status' \in Statuses /\ emitted' \in Statuses
      BY <2>1, QueuedIsAStatus DEF Places, Waiting
    <2>5. QED
      BY <2>1, <2>2, <2>3, <2>4 DEF ExecutionTypeOK
  <1>5. CASE Cancel \/ Expire \/ UNCHANGED vars
    BY <1>5 DEF Cancel, Expire, vars, request, deployment, control, ExecutionTypeOK
  <1>6. QED
    BY <1>3, <1>4, <1>5 DEF Next

-----------------------------------------------------------------------------
(* The cache *)

\* No row that others may have left passes for this request's result.
LEMMA OnlyTheYieldIsReusable ==
  ASSUME ExecutionTypeOK, CacheHoldsTheYield, row.present, row.intact, Reusable(row.payload)
  PROVE  row = Kept(yield)
  <1> USE YieldFacts DEF Payloads
  <1>1. CASE row = NoRow
    BY <1>1 DEF NoRow
  <1>2. CASE row = Damaged
    BY <1>2 DEF Damaged
  <1>3. CASE row = Kept([yield EXCEPT !.analyzed = @ + 1])
    <2>1. row.payload.analyzed = yield.analyzed + 1 /\ row.payload.selected = yield.selected
      BY <1>3 DEF Kept
    <2>2. row.payload.analyzed = row.payload.selected
      BY DEF Reusable
    <2>3. yield.analyzed \in Nat /\ yield.analyzed = yield.selected
      BY YieldFacts
    <2>4. QED
      BY <2>1, <2>2, <2>3
  <1>4. CASE row = Kept([yield EXCEPT !.stop = "timed_out"])
    <2>1. row.payload.stop = "timed_out"
      BY <1>4 DEF Kept
    <2>2. row.payload.stop \in {"exhausted", "candidate_cap"}
      BY DEF Reusable
    <2>3. QED
      BY <2>1, <2>2
  <1>5. ASSUME NEW n \in {budget + 1} \ {1}, row = Kept([yield EXCEPT !.generated = n])
        PROVE  FALSE
    <2>1. row.payload.generated = budget + 1 /\ budget # 0
      BY <1>5 DEF Kept
    <2>2. QED
      BY <2>1 DEF Reusable
  <1>6. QED
    BY <1>1, <1>2, <1>3, <1>4, <1>5 DEF CacheHoldsTheYield, Foreign

\* What is stored when the pipeline gets there is whole.
LEMMA WholePayloadIsStored ==
  ASSUME ExecutionTypeOK, StatusInv, pc = "finalizing"
  PROVE  Payload = yield
  <1>1. /\ status.generated = yield.generated /\ status.exhaustion = Exhaustion(yield.stop)
        /\ status.selected = yield.selected /\ status.analyzed = yield.analyzed
        /\ status.orders = yield.orders /\ status.rescored = yield.rescored
    BY DEF StatusInv, Analysing, GeneratedAll, AnalyzedAll
  <1>2. StopOf(status.exhaustion) = yield.stop
    BY <1>1, YieldFacts, ExhaustionFacts DEF Reached
  <1>3. Payload = [generated |-> yield.generated, stop |-> yield.stop,
                   selected |-> yield.selected, analyzed |-> yield.analyzed,
                   orders |-> yield.orders, rescored |-> yield.rescored, shown |-> yield.shown]
    BY <1>1, <1>2 DEF Payload
  <1>4. QED
    BY <1>3, YieldFacts DEF Payloads

\* Every step keeps the rows a later execution may trust.
LEMMA NextRow ==
  ASSUME ExecutionTypeOK, RowInv, StatusInv, [Next]_vars
  PROVE  RowInv'
  <1> DEFINE Cached == {"hit", "hitcheck"} \cup Hitting
  <1>1. ASSUME UNCHANGED <<budget, yield>>, row' \in {row, NoRow, Kept(yield)}
        PROVE  CacheHoldsTheYield'
    BY <1>1 DEF RowInv, CacheHoldsTheYield
  <1>2. ASSUME Pipeline PROVE RowInv'
    <2>1. UNCHANGED <<kind, budget, yield>>
      BY <1>2, PipelineFrame DEF Env, request
    <2>2. CASE FindRow
      <3>1. row = Kept(yield) /\ row' = row /\ kind = "ranked"
        BY <2>2, OnlyTheYieldIsReusable DEF FindRow, RowInv, NoResult, Step
      <3>2. QED
        BY <1>1, <2>1, <3>1 DEF RowInv, Kept
    <2>3. CASE FindCorruptRow
      <3>1. row' \in {row, NoRow} /\ pc' = "generate"
        BY <2>3 DEF FindCorruptRow, Step
      <3>2. QED
        BY <1>1, <2>1, <3>1 DEF RowInv, Hitting
    <2>4. CASE Store
      <3>1. row' \in {row, Kept(yield)} /\ pc' = "stored"
        BY <2>4, WholePayloadIsStored DEF Store, Step
      <3>2. QED
        BY <1>1, <2>1, <3>1 DEF RowInv, Hitting
    <2>5. CASE HitPreparing \/ HitCounts \/ HitFinalizing \/ Load
      <3>1. /\ row' = row /\ pc' \in {"lookup", "generate", "hitcheck", "hitadmit", "hitfinal"}
            /\ pc' \in {"hitcheck", "hitadmit", "hitfinal"} => row = Kept(yield)
            /\ pc' # "generate" => kind = "ranked"
        BY <2>5 DEF HitPreparing, HitCounts, HitFinalizing, Load, NoResult, Step, RowInv, Hitting,
                    ExecutionTypeOK
      <3>2. QED
        BY <1>1, <2>1, <3>1 DEF RowInv, Hitting, Kept
    <2>6. CASE ~(FindRow \/ FindCorruptRow \/ Store \/ HitPreparing \/ HitCounts \/ HitFinalizing \/ Load)
      <3>1. row' = row /\ pc' \notin {"lookup", "hit", "hitcheck", "hitadmit", "hitfinal"}
        <4> USE DEF Step, Err, NoResult
        <4>1. CASE Admit \/ Refuse \/ Start \/ FindNothing \/ HitResult
          BY <4>1 DEF Admit, Refuse, Start, FindNothing, HitResult
        <4>2. CASE Generate \/ Generated \/ BagsResult \/ Prepare \/ Select \/ RejectDeep
          BY <4>2 DEF Generate, Generated, BagsResult, Prepare, Select, RejectDeep
        <4>3. CASE Rank \/ RankSome \/ RankAll \/ RescoreSome \/ RescoreAll
          BY <4>3 DEF Rank, RankSome, RankAll, RescoreSome, RescoreAll
        <4>4. CASE RankedResult \/ Interrupted \/ Fails \/ Conclude \/ Publish
          BY <4>4 DEF RankedResult, Interrupted, Fails, Conclude, Publish
        <4>5. QED
          BY <1>2, <2>6, <4>1, <4>2, <4>3, <4>4 DEF Pipeline
      <3>2. QED
        BY <1>1, <2>1, <3>1 DEF RowInv, Hitting
    <2>7. QED
      BY <2>2, <2>3, <2>4, <2>5, <2>6
  <1>3. CASE Again
    <2>1. UNCHANGED <<budget, yield, row>> /\ pc' = "new"
      BY <1>3 DEF Again, request
    <2>2. QED
      BY <1>1, <2>1 DEF RowInv, Hitting
  <1>4. CASE Cancel \/ Expire \/ UNCHANGED vars
    <2>1. UNCHANGED <<kind, budget, yield, row, pc>>
      BY <1>4 DEF Cancel, Expire, vars, request
    <2>2. QED
      BY <1>1, <2>1 DEF RowInv, Kept
  <1>5. QED
    BY <1>2, <1>3, <1>4 DEF Next

-----------------------------------------------------------------------------
(* The status *)

\* The stages before the first count.
LEMMA EarlyStatus ==
  ASSUME ExecutionTypeOK', StatusInv, pc' \in Early, UNCHANGED result,
         NothingCounted(status'), status'.shown = 0, result = "none",
         status'.state = "running", status'.error = "none",
         status'.stage = StageOfPlace(pc'), pc' # "loading" => status'.data_complete
  PROVE  StatusInv'
  <1>1. CountsAgree(status)' /\ CountsFitStage(status)'
    <2>1. status' \in Statuses /\ budget' \in Nat /\ deepLimit' \in DeepLimits \cup {Unlimited}
      BY ExecutionAssumption DEF ExecutionTypeOK
    <2>2. QED
      BY <2>1, ExecutionAssumption DEF NothingCounted, CountsAgree, CountsFitStage, Statuses
  <1>2. QED
    BY <1>1 DEF StatusInv, Early, Waiting, Running, Hitting, Analysing, NothingCounted

\* Every step of the pipeline keeps what its place says of the status.
LEMMA PipelineStatus ==
  ASSUME ExecutionTypeOK, RowInv, StatusInv, EndInv, ExecutionTypeOK', Pipeline
  PROVE  StatusInv'
  <1>1. UNCHANGED <<kind, budget, yield, executions, deepLimit, cache, cancelled, expired>>
    BY PipelineFrame DEF Env, request, deployment, control
  <1>2. CASE Admit \/ Refuse
    BY <1>1, <1>2 DEF Admit, Refuse, Emit, NoResult, StatusInv, Waiting, Running, Early, Hitting,
                      Analysing, CountsAgree, CountsFitStage
  <1>3. CASE Start \/ Load \/ FindRow \/ FindCorruptRow \/ FindNothing \/ HitPreparing \/ Generate
    <2>1. /\ pc \in {"queued", "loading", "lookup", "hit", "generate"}
          /\ pc' \in Early /\ result' = result
      BY <1>3 DEF Start, Load, FindRow, FindCorruptRow, FindNothing, HitPreparing, Generate,
                  Step, NoResult, Early
    <2>2. /\ NothingCounted(status) /\ status.shown = 0 /\ result = "none"
          /\ status.error = "none"
          /\ pc # "queued" => status.state = "running"
          /\ pc \notin {"queued", "loading"} => status.data_complete
      BY <2>1 DEF StatusInv, Early, Waiting, Running, NothingCounted, Queued
    <2>3. /\ NothingCounted(status') /\ status'.shown = 0
          /\ status'.state = "running" /\ status'.error = "none"
          /\ status'.stage = StageOfPlace(pc')
          /\ pc' # "loading" => status'.data_complete
      <3> USE <2>1, <2>2 DEF Step, Emit, Keep, NothingCounted, ExecutionTypeOK, Statuses
      <3>1. CASE Start
        BY <3>1 DEF Start, StageOfPlace
      <3>2. CASE Load
        <4>1. status.stage = "loading_corpora"
          BY <3>2 DEF Load, StatusInv, Running, Early, StageOfPlace
        <4>2. QED
          BY <3>2, <4>1 DEF Load, Rebuilding, StageOfPlace
      <3>3. CASE FindRow
        <4>1. status.stage = "loading_corpora"
          BY <3>3 DEF FindRow, StatusInv, Running, Early, StageOfPlace
        <4>2. QED
          BY <3>3, <4>1 DEF FindRow, Rebuilding, StageOfPlace
      <3>4. CASE FindCorruptRow
        <4>1. status.stage = "loading_corpora"
          BY <3>4 DEF FindCorruptRow, StatusInv, Running, Early, StageOfPlace
        <4>2. QED
          BY <3>4, <4>1 DEF FindCorruptRow, Rebuilding, StageOfPlace
      <3>5. CASE FindNothing
        <4>1. status.stage = "loading_corpora"
          BY <3>5 DEF FindNothing, StatusInv, Running, Early, StageOfPlace
        <4>2. QED
          BY <3>5, <4>1 DEF FindNothing, Rebuilding, StageOfPlace
      <3>6. CASE HitPreparing
        BY <3>6 DEF HitPreparing, StageOfPlace
      <3>7. CASE Generate
        BY <3>7 DEF Generate, StageOfPlace
      <3>8. QED
        BY <1>3, <3>1, <3>2, <3>3, <3>4, <3>5, <3>6, <3>7
    <2>4. QED
      BY <2>1, <2>2, <2>3, EarlyStatus
  <1>4. CASE HitCounts
    <2>1. /\ pc = "hitcheck" /\ pc' = "hitadmit" /\ result' = result
          /\ row.payload = yield
          /\ status' = [status EXCEPT !.hit = TRUE, !.generated = yield.generated,
                       !.exhaustion = Exhaustion(yield.stop), !.selected = yield.selected]
      BY <1>4, PayloadOfKept DEF HitCounts, Step, Emit, NoResult, RowInv, Hitting
    <2>2. /\ NothingCounted(status) /\ status.stage = "preparing" /\ status.state = "running"
          /\ status.error = "none" /\ status.shown = 0 /\ status.data_complete
          /\ result = "none"
      BY <2>1 DEF StatusInv, Early, Running, Waiting, StageOfPlace
    <2>3. /\ status'.generated = yield.generated /\ status'.selected = yield.selected
          /\ status'.exhaustion = Exhaustion(yield.stop)
          /\ status'.analyzed = 0 /\ status'.orders = 0 /\ status'.rescored = 0
          /\ status'.shown = 0 /\ status'.stage = "preparing" /\ status'.state = "running"
          /\ status'.error = "none" /\ status'.data_complete
      BY <2>1, <2>2 DEF NothingCounted, ExecutionTypeOK, Statuses
    <2>4. CountsAgree(status)' /\ CountsFitStage(status)'
      BY <1>1, <2>3, YieldFacts, ExhaustionFacts, ExecutionAssumption
         DEF CountsAgree, CountsFitStage, Reached, ExecutionTypeOK
    <2>5. QED
      BY <1>1, <2>1, <2>2, <2>3, <2>4
         DEF StatusInv, Waiting, Running, Early, Hitting, Analysing, StageOfPlace, GeneratedAll
  <1>5. CASE HitFinalizing
    BY <1>1, <1>5, YieldFacts, ExhaustionFacts, PayloadOfKept
       DEF HitFinalizing, Step, Emit, Keep, Err, NoResult, Proceeds, ChecksNow, Checked,
           StatusInv, ExecutionTypeOK, Statuses, Waiting, Running, Early, Hitting, Analysing,
           StageOfPlace, CountsAgree, CountsFitStage, NothingCounted, GeneratedAll, AnalyzedAll,
           AdmitsDeep, RowInv, Stopped
  <1>6. CASE HitResult
    BY <1>1, <1>6, YieldFacts, ExhaustionFacts, PayloadOfKept
       DEF HitResult, Step, Emit, Keep, Err, NoResult, Proceeds, ChecksNow, Checked,
           StatusInv, ExecutionTypeOK, Statuses, Waiting, Running, Early, Hitting, Analysing,
           StageOfPlace, CountsAgree, CountsFitStage, NothingCounted, GeneratedAll, AnalyzedAll,
           AdmitsDeep, RowInv, Stopped
  <1>7. CASE Generated
    <2>1. /\ pc = "generating" /\ pc' = "generated" /\ result' = result
      BY <1>7 DEF Generated, Step, NoResult
    <2>2. PICK n \in 0 .. yield.generated, stop \in Reached \cup {"interrupted"} :
            /\ status' = [status EXCEPT !.generated = n, !.exhaustion = Exhaustion(stop)]
            /\ IF stop = "interrupted" THEN Stopped
                                       ELSE n = yield.generated /\ stop = yield.stop
      BY <1>7 DEF Generated, Emit, Keep
    <2>3. /\ NothingCounted(status) /\ status.stage = "generating" /\ status.state = "running"
          /\ status.error = "none" /\ status.shown = 0 /\ status.data_complete
          /\ result = "none"
      BY <2>1 DEF StatusInv, Early, Running, Waiting, StageOfPlace
    <2>4. /\ status'.generated = n /\ status'.exhaustion = Exhaustion(stop)
          /\ status'.selected = 0 /\ status'.analyzed = 0 /\ status'.orders = 0
          /\ status'.rescored = 0
          /\ status'.shown = 0 /\ status'.stage = "generating" /\ status'.state = "running"
          /\ status'.error = "none" /\ status'.data_complete
      BY <2>2, <2>3 DEF NothingCounted, ExecutionTypeOK, Statuses
    <2>5. n \in Nat /\ n <= yield.generated /\ (budget # 0 => n <= budget)
      BY YieldFacts
    <2>6. Exhaustion(stop) = "truncated" => budget # 0 /\ n = budget
      BY <2>2, YieldFacts, ExhaustionFacts DEF Reached
    <2>7. CountsAgree(status)' /\ CountsFitStage(status)'
      BY <1>1, <2>4, <2>5, <2>6, ExecutionAssumption
         DEF CountsAgree, CountsFitStage, ExecutionTypeOK
    <2>8. Stopped' \/ GeneratedAll(status)'
      BY <1>1, <2>2, <2>4 DEF Stopped, GeneratedAll
    <2>9. QED
      BY <1>1, <2>1, <2>3, <2>4, <2>5, <2>7, <2>8
         DEF StatusInv, Waiting, Running, Early, Hitting, Analysing, StageOfPlace
  <1>8. CASE BagsResult
    BY <1>1, <1>8, YieldFacts, ExhaustionFacts, PayloadOfKept
       DEF BagsResult, Step, Emit, Keep, Err, NoResult, Proceeds, ChecksNow, Checked,
           StatusInv, ExecutionTypeOK, Statuses, Waiting, Running, Early, Hitting, Analysing,
           StageOfPlace, CountsAgree, CountsFitStage, NothingCounted, GeneratedAll, AnalyzedAll,
           AdmitsDeep, RowInv, Stopped
  <1>9. CASE Prepare
    BY <1>1, <1>9, YieldFacts, ExhaustionFacts, PayloadOfKept
       DEF Prepare, Step, Emit, Keep, Err, NoResult, Proceeds, ChecksNow, Checked,
           StatusInv, ExecutionTypeOK, Statuses, Waiting, Running, Early, Hitting, Analysing,
           StageOfPlace, CountsAgree, CountsFitStage, NothingCounted, GeneratedAll, AnalyzedAll,
           AdmitsDeep, RowInv, Stopped
  <1>10. CASE Select
    BY <1>1, <1>10, YieldFacts, ExhaustionFacts, PayloadOfKept
       DEF Select, Step, Emit, Keep, Err, NoResult, Proceeds, ChecksNow, Checked,
           StatusInv, ExecutionTypeOK, Statuses, Waiting, Running, Early, Hitting, Analysing,
           StageOfPlace, CountsAgree, CountsFitStage, NothingCounted, GeneratedAll, AnalyzedAll,
           AdmitsDeep, RowInv, Stopped
  <1>11. CASE RejectDeep
    BY <1>1, <1>11, YieldFacts, ExhaustionFacts, PayloadOfKept
       DEF RejectDeep, Step, Emit, Keep, Err, NoResult, Proceeds, ChecksNow, Checked,
           StatusInv, ExecutionTypeOK, Statuses, Waiting, Running, Early, Hitting, Analysing,
           StageOfPlace, CountsAgree, CountsFitStage, NothingCounted, GeneratedAll, AnalyzedAll,
           AdmitsDeep, RowInv, Stopped
  <1>12. CASE Rank
    BY <1>1, <1>12, YieldFacts, ExhaustionFacts, PayloadOfKept
       DEF Rank, Step, Emit, Keep, Err, NoResult, Proceeds, ChecksNow, Checked,
           StatusInv, ExecutionTypeOK, Statuses, Waiting, Running, Early, Hitting, Analysing,
           StageOfPlace, CountsAgree, CountsFitStage, NothingCounted, GeneratedAll, AnalyzedAll,
           AdmitsDeep, RowInv, Stopped
  <1>13. CASE RankSome
    <2>1. pc = "ranking" /\ pc' = "ranking" /\ result' = result
      BY <1>13 DEF RankSome, Step, NoResult
    <2>2. PICK c \in CountsOfAllWorkers :
            status' = [status EXCEPT !.analyzed = c[1], !.orders = c[2]]
      BY <1>13 DEF RankSome, Emit
    <2>3. /\ GeneratedAll(status) /\ status.selected = yield.selected /\ AdmitsDeep
          /\ status.stage = "deep_ranking" /\ CountsAgree(status) /\ CountsFitStage(status)
      BY <2>1 DEF StatusInv, Running, Analysing, StageOfPlace
    <2>4. c[1] \in Nat /\ c[2] \in Nat /\ c[1] <= yield.analyzed /\ c[2] <= yield.orders
      BY YieldFacts DEF CountsOfAllWorkers, ExecutionTypeOK, Statuses
    <2>5. /\ status'.analyzed = c[1] /\ status'.orders = c[2]
          /\ status'.generated = status.generated /\ status'.exhaustion = status.exhaustion
          /\ status'.selected = status.selected /\ status'.rescored = status.rescored
          /\ status'.shown = status.shown /\ status'.stage = status.stage
          /\ status'.state = status.state /\ status'.error = status.error
          /\ status'.data_complete = status.data_complete
      BY <2>2 DEF ExecutionTypeOK, Statuses
    <2>6. CountsAgree(status)' /\ CountsFitStage(status)'
      <3>1. status.selected \in Nat /\ c[1] <= status.selected
        BY <2>3, <2>4, YieldFacts DEF ExecutionTypeOK, Statuses
      <3>2. deepLimit # Unlimited => deepLimit \in Nat /\ c[1] <= deepLimit
        BY <2>3, <2>4, <3>1, ExecutionAssumption DEF ExecutionTypeOK, AdmitsDeep
      <3>3. QED
        BY <1>1, <2>3, <2>5, <3>1, <3>2 DEF CountsAgree, CountsFitStage
    <2>7. QED
      BY <1>1, <2>1, <2>3, <2>4, <2>5, <2>6
         DEF StatusInv, Waiting, Running, Early, Hitting, Analysing, GeneratedAll, AdmitsDeep
  <1>14. CASE RankAll
    BY <1>1, <1>14, YieldFacts, ExhaustionFacts, PayloadOfKept
       DEF RankAll, Step, Emit, Keep, Err, NoResult, Proceeds, ChecksNow, Checked,
           StatusInv, ExecutionTypeOK, Statuses, Waiting, Running, Early, Hitting, Analysing,
           StageOfPlace, CountsAgree, CountsFitStage, NothingCounted, GeneratedAll, AnalyzedAll,
           AdmitsDeep, RowInv, Stopped
  <1>15. CASE RescoreSome
    BY <1>1, <1>15, YieldFacts, ExhaustionFacts, PayloadOfKept
       DEF RescoreSome, Step, Emit, Keep, Err, NoResult, Proceeds, ChecksNow, Checked,
           StatusInv, ExecutionTypeOK, Statuses, Waiting, Running, Early, Hitting, Analysing,
           StageOfPlace, CountsAgree, CountsFitStage, NothingCounted, GeneratedAll, AnalyzedAll,
           AdmitsDeep, RowInv, Stopped
  <1>16. CASE RescoreAll
    BY <1>1, <1>16, YieldFacts, ExhaustionFacts, PayloadOfKept
       DEF RescoreAll, Step, Emit, Keep, Err, NoResult, Proceeds, ChecksNow, Checked,
           StatusInv, ExecutionTypeOK, Statuses, Waiting, Running, Early, Hitting, Analysing,
           StageOfPlace, CountsAgree, CountsFitStage, NothingCounted, GeneratedAll, AnalyzedAll,
           AdmitsDeep, RowInv, Stopped
  <1>17. CASE Store
    BY <1>1, <1>17, YieldFacts, ExhaustionFacts, PayloadOfKept
       DEF Store, Step, Emit, Keep, Err, NoResult, Proceeds, ChecksNow, Checked,
           StatusInv, ExecutionTypeOK, Statuses, Waiting, Running, Early, Hitting, Analysing,
           StageOfPlace, CountsAgree, CountsFitStage, NothingCounted, GeneratedAll, AnalyzedAll,
           AdmitsDeep, RowInv, Stopped
  <1>18. CASE RankedResult
    BY <1>1, <1>18, YieldFacts, ExhaustionFacts, PayloadOfKept
       DEF RankedResult, Step, Emit, Keep, Err, NoResult, Proceeds, ChecksNow, Checked,
           StatusInv, ExecutionTypeOK, Statuses, Waiting, Running, Early, Hitting, Analysing,
           StageOfPlace, CountsAgree, CountsFitStage, NothingCounted, GeneratedAll, AnalyzedAll,
           AdmitsDeep, RowInv, Stopped
  <1>19. CASE Interrupted
    BY <1>1, <1>19, YieldFacts, ExhaustionFacts, PayloadOfKept
       DEF Interrupted, Step, Emit, Keep, Err, NoResult, Proceeds, ChecksNow, Checked,
           StatusInv, ExecutionTypeOK, Statuses, Waiting, Running, Early, Hitting, Analysing,
           StageOfPlace, CountsAgree, CountsFitStage, NothingCounted, GeneratedAll, AnalyzedAll,
           AdmitsDeep, RowInv, Stopped
  <1>20. CASE Fails
    BY <1>1, <1>20, YieldFacts, ExhaustionFacts, PayloadOfKept
       DEF Fails, Step, Emit, Keep, Err, NoResult, Proceeds, ChecksNow, Checked,
           StatusInv, ExecutionTypeOK, Statuses, Waiting, Running, Early, Hitting, Analysing,
           StageOfPlace, CountsAgree, CountsFitStage, NothingCounted, GeneratedAll, AnalyzedAll,
           AdmitsDeep, RowInv, Stopped
  <1>21. CASE Conclude \/ Publish
    <2>1. pc \in {"closing", "concluded"} /\ pc' \in {"concluded", "done"}
      BY <1>21 DEF Conclude, Publish
    <2>2. /\ CountsAgree(status) /\ CountsFitStage(status) /\ status.stage # "complete"
      BY <2>1 DEF StatusInv, EndInv
    <2>3. /\ status'.generated = status.generated /\ status'.exhaustion = status.exhaustion
          /\ status'.selected = status.selected /\ status'.analyzed = status.analyzed
          /\ status'.orders = status.orders /\ status'.rescored = status.rescored
          /\ status'.shown \in {0, status.shown}
          /\ status'.stage \in {status.stage, "complete"}
      <3>1. CASE Conclude
        BY <3>1 DEF Conclude, Keep, ShownAtEnd, ExecutionTypeOK, Statuses
      <3>2. CASE Publish
        BY <3>2 DEF Publish, Emit, ExecutionTypeOK, Statuses
      <3>3. QED
        BY <1>21, <3>1, <3>2
    <2>4. CountsAgree(status)' /\ CountsFitStage(status)'
      BY <1>1, <2>2, <2>3 DEF CountsAgree, CountsFitStage, ExecutionTypeOK, Statuses
    <2>5. QED
      BY <2>1, <2>4 DEF StatusInv, Waiting, Running, Early, Hitting, Analysing
  <1>22. QED
    BY <1>2, <1>3, <1>4, <1>5, <1>6, <1>7, <1>8, <1>9, <1>10, <1>11, <1>12, <1>13, <1>14, <1>15, <1>16, <1>17, <1>18, <1>19, <1>20, <1>21 DEF Pipeline

\* A new execution counts from nothing.
LEMMA QueuedIsValid ==
  ASSUME ExecutionTypeOK
  PROVE  CountsAgree(Queued) /\ CountsFitStage(Queued) /\ LifecycleAgrees(Queued)
  BY YieldFacts, ExecutionAssumption
     DEF ExecutionTypeOK, Queued, CountsAgree, CountsFitStage, LifecycleAgrees

\* Every step keeps what its place says of the status.
LEMMA NextStatus ==
  ASSUME ExecutionTypeOK, RowInv, StatusInv, EndInv, ExecutionTypeOK', [Next]_vars
  PROVE  StatusInv'
  <1>1. CASE Again
    <2>1. /\ pc' = "new" /\ status' = Queued /\ emitted' = Queued /\ result' = "none"
          /\ UNCHANGED <<kind, budget, yield>> /\ deepLimit' \in DeepLimits \cup {Unlimited}
      BY <1>1 DEF Again, request
    <2>2. CountsAgree(status)' /\ CountsFitStage(status)'
      BY <2>1, YieldFacts, ExecutionAssumption
         DEF ExecutionTypeOK, Queued, CountsAgree, CountsFitStage
    <2>3. QED
      BY <2>1, <2>2 DEF StatusInv, Waiting, Running, Early, Hitting, Analysing, Queued
  <1>2. CASE Cancel \/ Expire \/ UNCHANGED vars
    <2>1. /\ UNCHANGED <<kind, budget, yield, deepLimit, pc, status, emitted, result>>
          /\ Stopped => Stopped'
      BY <1>2 DEF Cancel, Expire, vars, request, deployment, control, Stopped
    <2>2. QED
      BY <2>1 DEF StatusInv, CountsAgree, CountsFitStage, NothingCounted, GeneratedAll, AnalyzedAll,
                  AdmitsDeep
  <1>3. QED
    BY <1>1, <1>2, PipelineStatus DEF Next

-----------------------------------------------------------------------------
(* The end *)

\* Every step keeps what a finished execution shows.
LEMMA NextEnd ==
  ASSUME ExecutionTypeOK, RowInv, StatusInv, EndInv, StatusInv', [Next]_vars
  PROVE  EndInv'
  <1>1. ASSUME Pipeline PROVE EndInv'
    <2>1. UNCHANGED <<kind, budget, yield, deepLimit>>
      BY <1>1, PipelineFrame DEF Env, request, deployment
    <2>2. CASE HitResult
      BY <2>1, <2>2, YieldFacts, PayloadOfKept
         DEF HitResult, Step, Keep, EndInv, RowInv, StatusInv, Hitting, Running, StageOfPlace,
             WholeYield, GeneratedAll, AnalyzedAll, AdmitsDeep, ExecutionTypeOK, Statuses
    <2>3. CASE BagsResult
      BY <2>1, <2>3
         DEF BagsResult, Step, Keep, EndInv, StatusInv, Running, StageOfPlace, Proceeds, ChecksNow,
             Checked, WholeYield, GeneratedAll, ExecutionTypeOK, Statuses
    <2>4. CASE RankedResult
      BY <2>1, <2>4
         DEF RankedResult, Step, Keep, EndInv, StatusInv, Running, Analysing, StageOfPlace,
             WholeYield, GeneratedAll, AnalyzedAll, AdmitsDeep, ExecutionTypeOK, Statuses
    <2>5. CASE RejectDeep \/ Interrupted \/ Fails
      <3>1. /\ pc' = "closing" /\ status' = status /\ result' \in Stops
            /\ pc \in {"queued"} \cup Running
        BY <2>5 DEF RejectDeep, Interrupted, Fails, Err, Reason, Stops, ChecksNow, Checked, Fallible,
                    Running, Early, Hitting, Analysing
      <3>2. status.state \in {"queued", "running"} /\ status.stage # "complete"
        BY <3>1 DEF StatusInv, Running, Waiting, StageOfPlace, Queued
      <3>3. QED
        BY <3>1, <3>2 DEF EndInv, Stops
    <2>6. CASE Conclude
      <3>1. /\ pc = "closing" /\ pc' = "concluded" /\ result' = FinalResult
            /\ status' = [status EXCEPT !.shown = ShownAtEnd]
        BY <2>6 DEF Conclude, Keep
      <3>2. /\ FinalResult # "none"
            /\ status'.state \in {"queued", "running"} /\ status'.stage # "complete"
        BY <3>1 DEF FinalResult, Reason, EndInv, ExecutionTypeOK, Statuses
      <3>3. ASSUME FinalResult = "ok"
            PROVE  WholeYield(status)' /\ status'.state = "running" /\ status'.data_complete
        <4>1. /\ result = "ok" /\ WholeYield(status) /\ ShownAtEnd = status.shown
              /\ status.state = "running" /\ status.data_complete
          BY <3>1, <3>3 DEF FinalResult, Reason, EndInv, ShownAtEnd
        <4>2. status' = status
          BY <3>1, <4>1 DEF ExecutionTypeOK, Statuses
        <4>3. QED
          BY <2>1, <4>1, <4>2 DEF WholeYield, GeneratedAll, AnalyzedAll, AdmitsDeep
      <3>4. ASSUME FinalResult # "ok" PROVE status'.shown = 0
        BY <3>1, <3>4 DEF ShownAtEnd, ExecutionTypeOK, Statuses
      <3>5. QED
        BY <3>1, <3>2, <3>3, <3>4 DEF EndInv
    <2>9. CASE Publish
      <3>1. /\ pc = "concluded" /\ pc' = "done" /\ emitted' = status' /\ result' = result
            /\ status' = [status EXCEPT !.state = StateOfCode(result),
                            !.stage = IF result = "ok" THEN "complete" ELSE @,
                            !.error = IF result = "ok" THEN "none" ELSE result]
        BY <2>9 DEF Publish, Emit
      <3>2. result # "none"
        BY <3>1 DEF EndInv
      <3>3. ASSUME result = "ok" PROVE WholeYield(status)'
        <4>1. WholeYield(status)
          BY <3>1, <3>3 DEF EndInv
        <4>2. /\ status'.generated = status.generated /\ status'.exhaustion = status.exhaustion
              /\ status'.selected = status.selected /\ status'.analyzed = status.analyzed
              /\ status'.orders = status.orders /\ status'.rescored = status.rescored
              /\ status'.shown = status.shown
          BY <3>1 DEF ExecutionTypeOK, Statuses
        <4>3. QED
          BY <2>1, <4>1, <4>2 DEF WholeYield, GeneratedAll, AnalyzedAll, AdmitsDeep
      <3>4. QED
        BY <3>1, <3>2, <3>3 DEF EndInv
    <2>7. CASE ~(HitResult \/ BagsResult \/ RankedResult \/ RejectDeep \/ Interrupted \/ Fails
                 \/ Conclude \/ Publish)
      <3>1. pc' \notin {"closing", "concluded", "done"}
        <4> USE DEF Step
        <4>1. CASE Admit \/ Refuse \/ Start \/ Load
          BY <4>1 DEF Admit, Refuse, Start, Load
        <4>2. CASE FindRow \/ FindCorruptRow \/ FindNothing \/ HitPreparing \/ HitCounts \/ HitFinalizing
          BY <4>2 DEF FindRow, FindCorruptRow, FindNothing, HitPreparing, HitCounts, HitFinalizing
        <4>3. CASE Generate \/ Generated \/ Prepare \/ Select \/ Rank
          BY <4>3 DEF Generate, Generated, Prepare, Select, Rank
        <4>4. CASE RankSome \/ RankAll \/ RescoreSome \/ RescoreAll \/ Store
          BY <4>4 DEF RankSome, RankAll, RescoreSome, RescoreAll, Store
        <4>5. QED
          BY <1>1, <2>7, <4>1, <4>2, <4>3, <4>4 DEF Pipeline
      <3>2. QED
        BY <3>1 DEF EndInv
    <2>8. QED
      BY <2>2, <2>3, <2>4, <2>5, <2>6, <2>7, <2>9
  <1>2. CASE Again
    BY <1>2 DEF Again, EndInv
  <1>3. CASE Cancel \/ Expire \/ UNCHANGED vars
    <2>1. UNCHANGED <<kind, yield, deepLimit, pc, status, emitted, result>>
      BY <1>3 DEF Cancel, Expire, vars, request, deployment, control
    <2>2. QED
      BY <2>1 DEF EndInv, WholeYield, GeneratedAll, AnalyzedAll, AdmitsDeep
  <1>4. QED
    BY <1>1, <1>2, <1>3 DEF Next

-----------------------------------------------------------------------------
(* The observer *)

\* The position of a stage is that of its name.
LEMMA StagePositions ==
  /\ StageIndex("queued") = 1 /\ StageIndex("loading_corpora") = 2
  /\ StageIndex("generating") = 3 /\ StageIndex("preparing") = 4
  /\ StageIndex("deep_ranking") = 5 /\ StageIndex("corpus_ranking") = 6
  /\ StageIndex("finalizing") = 7 /\ StageIndex("complete") = 8
  <1>1. DOMAIN Stages = 1 .. 8
    BY DEF Stages
  <1>2. ASSUME NEW i \in 1 .. 8 PROVE StageIndex(Stages[i]) = i
    <2>1. \A j \in 1 .. 8 : Stages[j] = Stages[i] => j = i
      BY DEF Stages
    <2>2. QED
      BY <1>1, <2>1 DEF StageIndex
  <1>3. QED
    BY <1>2 DEF Stages

\* What the status may become within one execution.
Advances(s, t) ==
  /\ t.state # s.state => MayBecome(s.state, t.state)
  /\ StageIndex(s.stage) <= StageIndex(t.stage)
  /\ s.generated <= t.generated /\ s.selected <= t.selected /\ s.analyzed <= t.analyzed
  /\ s.orders <= t.orders /\ s.rescored <= t.rescored
  /\ s.exhaustion # "unknown" => t.exhaustion = s.exhaustion

\* A status that stays has not gone back.
LEMMA StayingAdvances ==
  ASSUME NEW s \in Statuses
  PROVE  Advances(s, s)
  BY StagePositions DEF Advances, Statuses

\* No step of the pipeline takes anything back from the status.
LEMMA StatusGrows ==
  ASSUME ExecutionTypeOK, RowInv, StatusInv, EndInv, Pipeline
  PROVE  Advances(status, status')
  <1>1. CASE Admit \/ Refuse \/ Start \/ Load
    <2>1. CASE Admit \/ Refuse
      <3>1. status' = status
        BY <2>1 DEF Admit, Refuse, Emit, StatusInv, Waiting
      <3>2. QED
        BY <3>1, StayingAdvances DEF ExecutionTypeOK
    <2>2. CASE Start
      BY <2>2, StagePositions
         DEF Start, Step, Emit, Advances, MayBecome, ExecutionTypeOK, Statuses, StatusInv, Waiting,
             Queued
    <2>3. CASE Load
      <3>1. status' = [status EXCEPT !.data_complete = TRUE]
        BY <2>3 DEF Load, Keep
      <3>2. QED
        BY <3>1, StagePositions DEF Advances, ExecutionTypeOK, Statuses
    <2>4. QED
      BY <1>1, <2>1, <2>2, <2>3
  <1>2. CASE FindRow \/ FindCorruptRow \/ FindNothing
    <2>1. /\ status'.generated = status.generated /\ status'.exhaustion = status.exhaustion
          /\ status'.selected = status.selected /\ status'.analyzed = status.analyzed
          /\ status'.orders = status.orders /\ status'.rescored = status.rescored
          /\ status'.state = status.state /\ status'.stage = status.stage
      BY <1>2 DEF FindRow, FindCorruptRow, FindNothing, Rebuilding, Keep, ExecutionTypeOK, Statuses
    <2>2. QED
      BY <2>1, StagePositions DEF Advances, ExecutionTypeOK, Statuses
  <1>3. CASE HitPreparing
    BY <1>3, YieldFacts, StagePositions, PayloadOfKept
       DEF HitPreparing, Step, Emit, Keep, Err, NoResult, Advances, MayBecome, ExecutionTypeOK,
           Statuses, StatusInv, RowInv, EndInv, Waiting, Running, Early, Hitting, Analysing,
           StageOfPlace, NothingCounted, GeneratedAll, AnalyzedAll
  <1>4. CASE HitFinalizing
    BY <1>4, YieldFacts, StagePositions, PayloadOfKept
       DEF HitFinalizing, Step, Emit, Keep, Err, NoResult, Advances, MayBecome, ExecutionTypeOK,
           Statuses, StatusInv, RowInv, EndInv, Waiting, Running, Early, Hitting, Analysing,
           StageOfPlace, NothingCounted, GeneratedAll, AnalyzedAll
  <1>5. CASE HitCounts
    BY <1>5, YieldFacts, StagePositions, PayloadOfKept
       DEF HitCounts, Step, Emit, Keep, Err, NoResult, Advances, MayBecome, ExecutionTypeOK,
           Statuses, StatusInv, RowInv, EndInv, Waiting, Running, Early, Hitting, Analysing,
           StageOfPlace, NothingCounted, GeneratedAll, AnalyzedAll
  <1>6. CASE HitResult
    BY <1>6, YieldFacts, StagePositions, PayloadOfKept
       DEF HitResult, Step, Emit, Keep, Err, NoResult, Advances, MayBecome, ExecutionTypeOK,
           Statuses, StatusInv, RowInv, EndInv, Waiting, Running, Early, Hitting, Analysing,
           StageOfPlace, NothingCounted, GeneratedAll, AnalyzedAll
  <1>7. CASE Generate
    BY <1>7, YieldFacts, StagePositions, PayloadOfKept
       DEF Generate, Step, Emit, Keep, Err, NoResult, Advances, MayBecome, ExecutionTypeOK,
           Statuses, StatusInv, RowInv, EndInv, Waiting, Running, Early, Hitting, Analysing,
           StageOfPlace, NothingCounted, GeneratedAll, AnalyzedAll
  <1>8. CASE Generated
    <2>1. NothingCounted(status)
      BY <1>8 DEF Generated, Step, StatusInv, Early
    <2>2. PICK n \in 0 .. yield.generated, stop \in Reached \cup {"interrupted"} :
            status' = [status EXCEPT !.generated = n, !.exhaustion = Exhaustion(stop)]
      BY <1>8 DEF Generated, Emit, Keep
    <2>3. n \in Nat
      BY YieldFacts
    <2>4. QED
      BY <2>1, <2>2, <2>3, StagePositions DEF Advances, NothingCounted, ExecutionTypeOK, Statuses
  <1>9. CASE BagsResult
    BY <1>9, YieldFacts, StagePositions, PayloadOfKept
       DEF BagsResult, Step, Emit, Keep, Err, NoResult, Advances, MayBecome, ExecutionTypeOK,
           Statuses, StatusInv, RowInv, EndInv, Waiting, Running, Early, Hitting, Analysing,
           StageOfPlace, NothingCounted, GeneratedAll, AnalyzedAll
  <1>10. CASE Prepare
    BY <1>10, YieldFacts, StagePositions, PayloadOfKept
       DEF Prepare, Step, Emit, Keep, Err, NoResult, Advances, MayBecome, ExecutionTypeOK,
           Statuses, StatusInv, RowInv, EndInv, Waiting, Running, Early, Hitting, Analysing,
           StageOfPlace, NothingCounted, GeneratedAll, AnalyzedAll
  <1>11. CASE Select
    BY <1>11, YieldFacts, StagePositions, PayloadOfKept
       DEF Select, Step, Emit, Keep, Err, NoResult, Advances, MayBecome, ExecutionTypeOK,
           Statuses, StatusInv, RowInv, EndInv, Waiting, Running, Early, Hitting, Analysing,
           StageOfPlace, NothingCounted, GeneratedAll, AnalyzedAll
  <1>12. CASE RejectDeep \/ Interrupted \/ Fails
    BY <1>12, YieldFacts, StagePositions, PayloadOfKept
       DEF RejectDeep, Interrupted, Fails, Step, Emit, Keep, Err, NoResult, Advances, MayBecome, ExecutionTypeOK,
           Statuses, StatusInv, RowInv, EndInv, Waiting, Running, Early, Hitting, Analysing,
           StageOfPlace, NothingCounted, GeneratedAll, AnalyzedAll
  <1>13. CASE Rank
    BY <1>13, YieldFacts, StagePositions, PayloadOfKept
       DEF Rank, Step, Emit, Keep, Err, NoResult, Advances, MayBecome, ExecutionTypeOK,
           Statuses, StatusInv, RowInv, EndInv, Waiting, Running, Early, Hitting, Analysing,
           StageOfPlace, NothingCounted, GeneratedAll, AnalyzedAll
  <1>14. CASE RankSome
    <2>1. PICK c \in CountsOfAllWorkers :
            status' = [status EXCEPT !.analyzed = c[1], !.orders = c[2]]
      BY <1>14 DEF RankSome, Emit
    <2>2. status.analyzed <= c[1] /\ status.orders <= c[2]
      BY YieldFacts DEF CountsOfAllWorkers, ExecutionTypeOK, Statuses
    <2>3. QED
      BY <2>1, <2>2, StagePositions DEF Advances, ExecutionTypeOK, Statuses
  <1>15. CASE RankAll
    BY <1>15, YieldFacts, StagePositions, PayloadOfKept
       DEF RankAll, Step, Emit, Keep, Err, NoResult, Advances, MayBecome, ExecutionTypeOK,
           Statuses, StatusInv, RowInv, EndInv, Waiting, Running, Early, Hitting, Analysing,
           StageOfPlace, NothingCounted, GeneratedAll, AnalyzedAll
  <1>16. CASE RescoreSome
    BY <1>16, YieldFacts, StagePositions, PayloadOfKept
       DEF RescoreSome, Step, Emit, Keep, Err, NoResult, Advances, MayBecome, ExecutionTypeOK,
           Statuses, StatusInv, RowInv, EndInv, Waiting, Running, Early, Hitting, Analysing,
           StageOfPlace, NothingCounted, GeneratedAll, AnalyzedAll
  <1>17. CASE RescoreAll
    BY <1>17, YieldFacts, StagePositions, PayloadOfKept
       DEF RescoreAll, Step, Emit, Keep, Err, NoResult, Advances, MayBecome, ExecutionTypeOK,
           Statuses, StatusInv, RowInv, EndInv, Waiting, Running, Early, Hitting, Analysing,
           StageOfPlace, NothingCounted, GeneratedAll, AnalyzedAll
  <1>18. CASE Store
    BY <1>18, YieldFacts, StagePositions, PayloadOfKept
       DEF Store, Step, Emit, Keep, Err, NoResult, Advances, MayBecome, ExecutionTypeOK,
           Statuses, StatusInv, RowInv, EndInv, Waiting, Running, Early, Hitting, Analysing,
           StageOfPlace, NothingCounted, GeneratedAll, AnalyzedAll
  <1>19. CASE RankedResult
    BY <1>19, YieldFacts, StagePositions, PayloadOfKept
       DEF RankedResult, Step, Emit, Keep, Err, NoResult, Advances, MayBecome, ExecutionTypeOK,
           Statuses, StatusInv, RowInv, EndInv, Waiting, Running, Early, Hitting, Analysing,
           StageOfPlace, NothingCounted, GeneratedAll, AnalyzedAll
  <1>20. CASE Conclude
    <2>1. status \in Statuses /\ status' = [status EXCEPT !.shown = ShownAtEnd]
      BY <1>20 DEF Conclude, Keep, ExecutionTypeOK
    <2>2. /\ status'.generated = status.generated /\ status'.exhaustion = status.exhaustion
          /\ status'.selected = status.selected /\ status'.analyzed = status.analyzed
          /\ status'.orders = status.orders /\ status'.rescored = status.rescored
          /\ status'.state = status.state /\ status'.stage = status.stage
      BY <2>1 DEF Statuses
    <2>3. Advances(status, status)
      BY <2>1, StayingAdvances
    <2>4. QED
      BY <2>2, <2>3 DEF Advances
  <1>22. CASE Publish
    <2>1. /\ status.state \in {"queued", "running"} /\ result \in {"ok"} \cup Stops
          /\ result = "ok" => status.state = "running"
      BY <1>22 DEF Publish, EndInv, ExecutionTypeOK, Stops
    <2>2. MayBecome(status.state, StateOfCode(result))
      BY <2>1, StateOfCodeFacts DEF MayBecome, Stops
    <2>3. /\ status'.generated = status.generated /\ status'.exhaustion = status.exhaustion
          /\ status'.selected = status.selected /\ status'.analyzed = status.analyzed
          /\ status'.orders = status.orders /\ status'.rescored = status.rescored
          /\ status'.state = StateOfCode(result)
          /\ status'.stage \in {status.stage, "complete"}
      BY <1>22 DEF Publish, Emit, ExecutionTypeOK, Statuses
    <2>4. StageIndex(status.stage) <= StageIndex(status'.stage)
      BY <2>3, StagePositions DEF ExecutionTypeOK, Statuses
    <2>5. QED
      BY <2>2, <2>3, <2>4 DEF Advances, ExecutionTypeOK, Statuses
  <1>21. QED
    BY <1>1, <1>2, <1>3, <1>4, <1>5, <1>6, <1>7, <1>8, <1>9, <1>10, <1>11, <1>12, <1>13, <1>14, <1>15, <1>16, <1>17, <1>18, <1>19, <1>20, <1>22 DEF Pipeline

\* What the pipeline knows while it runs is what its contract allows to tell.
LEMMA RunningIsValid ==
  ExecutionTypeOK /\ StatusInv /\ pc \in Running =>
    CountsAgree(status) /\ CountsFitStage(status) /\ LifecycleAgrees(status)
  <1> SUFFICES ASSUME ExecutionTypeOK, StatusInv, pc \in Running
               PROVE  CountsAgree(status) /\ CountsFitStage(status) /\ LifecycleAgrees(status)
    OBVIOUS
  <1>1. status.state = "running" /\ status.error = "none" /\ status.shown = 0
    BY DEF StatusInv
  <1>2. status.stage \notin {"queued", "complete"}
    BY DEF StatusInv, StageOfPlace
  <1>3. LifecycleAgrees(status)
    BY <1>1, <1>2 DEF LifecycleAgrees
  <1>4. QED
    BY <1>3 DEF StatusInv

\* The last status of an execution is allowed by the contract.
LEMMA PublishIsValid ==
  ASSUME ExecutionTypeOK, StatusInv, EndInv, StatusInv', Publish
  PROVE  CountsAgree(status)' /\ CountsFitStage(status)' /\ LifecycleAgrees(status)'
  <1>1. /\ pc = "concluded"
        /\ status' = [status EXCEPT !.state = StateOfCode(result),
                         !.stage = IF result = "ok" THEN "complete" ELSE @,
                         !.error = IF result = "ok" THEN "none" ELSE result]
    BY DEF Publish, Emit
  <1>2. /\ status'.exhaustion = status.exhaustion /\ status'.data_complete = status.data_complete
        /\ status'.shown = status.shown /\ status'.state = StateOfCode(result)
        /\ status'.stage = (IF result = "ok" THEN "complete" ELSE status.stage)
        /\ status'.error = (IF result = "ok" THEN "none" ELSE result)
    BY <1>1 DEF ExecutionTypeOK, Statuses
  <1>3. LifecycleAgrees(status)'
    <2>1. CASE result = "ok"
      <3>1. GeneratedAll(status) /\ status.data_complete
        BY <1>1, <2>1 DEF EndInv, WholeYield
      <3>2. status.exhaustion # "unknown"
        BY <3>1, YieldFacts, ExhaustionFacts DEF GeneratedAll, Reached
      <3>3. QED
        BY <1>2, <2>1, <3>1, <3>2, StateOfCodeFacts DEF LifecycleAgrees
    <2>2. CASE result # "ok"
      <3>1. result \in Stops
        BY <1>1, <2>2 DEF EndInv, ExecutionTypeOK, Stops
      <3>2. status.stage # "complete" /\ status.shown = 0
        BY <1>1, <2>2 DEF EndInv
      <3>3. QED
        BY <1>2, <2>2, <3>1, <3>2, StateOfCodeFacts DEF LifecycleAgrees, Stops
    <2>3. QED
      BY <2>1, <2>2
  <1>4. QED
    BY <1>3 DEF StatusInv

\* Every step leaves the observer with a status of the contract, behind the
\* pipeline's own.
LEMMA NextObserver ==
  ASSUME ExecutionTypeOK, RowInv, StatusInv, EndInv, ObserverInv,
         ExecutionTypeOK', StatusInv', [Next]_vars
  PROVE  ObserverInv'
  <1>1. ASSUME UNCHANGED <<emitted, budget, deepLimit>> PROVE EveryStatusIsValid'
    BY <1>1 DEF ObserverInv, EveryStatusIsValid, CountsAgree, CountsFitStage, LifecycleAgrees
  <1>2. ASSUME emitted' = status' PROVE Behind(emitted, status)'
    BY <1>2 DEF Behind, ExecutionTypeOK, Statuses
  <1>7. (ExecutionTypeOK /\ StatusInv /\ pc \in Running =>
           CountsAgree(status) /\ CountsFitStage(status) /\ LifecycleAgrees(status))'
    BY RunningIsValid, PTL
  <1>3. ASSUME Pipeline PROVE ObserverInv'
    <2>1. UNCHANGED <<kind, budget, yield, deepLimit>>
      BY <1>3, PipelineFrame DEF Env, request, deployment
    <2>2. CASE Publish
      <3>1. emitted' = status'
        BY <2>2 DEF Publish, Emit
      <3>2. CountsAgree(emitted)' /\ CountsFitStage(emitted)' /\ LifecycleAgrees(emitted)'
        BY <2>2, <3>1, PublishIsValid DEF CountsAgree, CountsFitStage, LifecycleAgrees
      <3>3. QED
        BY <1>2, <3>1, <3>2 DEF ObserverInv, EveryStatusIsValid
    <2>3. CASE Admit \/ Refuse \/ RejectDeep \/ Interrupted \/ Fails \/ Store
      <3>1. UNCHANGED <<status, emitted>>
        BY <2>3 DEF Admit, Refuse, RejectDeep, Interrupted, Fails, Store, Err, Emit, StatusInv, Waiting
      <3>2. QED
        BY <1>1, <2>1, <3>1 DEF ObserverInv, Behind
    <2>4. CASE HitResult \/ BagsResult \/ RankedResult \/ Load \/ FindRow \/ FindCorruptRow \/ FindNothing
               \/ Conclude
      <3>1. emitted' = emitted /\ status'.state = status.state /\ status'.stage = status.stage
        <4>1. status \in Statuses
          BY DEF ExecutionTypeOK
        <4>2. CASE FindRow \/ FindCorruptRow \/ FindNothing
          <5>1. /\ emitted' = emitted
                /\ \/ status' = status \/ status' = Rebuilding
                   \/ status' = [Rebuilding EXCEPT !.corrupt = TRUE]
            BY <4>2 DEF FindRow, FindCorruptRow, FindNothing, Keep
          <5>2. QED
            BY <4>1, <5>1, RebuildingIsAStatus
        <4>3. CASE HitResult \/ BagsResult \/ RankedResult \/ Load \/ Conclude
          BY <4>1, <4>3 DEF HitResult, BagsResult, RankedResult, Load, Conclude, Keep, Statuses
        <4>4. QED
          BY <2>4, <4>2, <4>3
      <3>2. Behind(emitted, status)'
        BY <1>3, <3>1, StatusGrows DEF Advances, ObserverInv, Behind, ExecutionTypeOK, Statuses
      <3>3. QED
        BY <1>1, <2>1, <3>1, <3>2 DEF ObserverInv
    <2>5. CASE Generated
      <3>1. CASE emitted' = emitted
        <4>1. status'.state = status.state /\ status'.stage = status.stage
          <5>1. PICK n \in 0 .. yield.generated, stop \in Reached \cup {"interrupted"} :
                  status' = [status EXCEPT !.generated = n, !.exhaustion = Exhaustion(stop)]
            BY <2>5 DEF Generated, Emit, Keep
          <5>2. QED
            BY <5>1 DEF ExecutionTypeOK, Statuses
        <4>2. Behind(emitted, status)'
          BY <1>3, <3>1, <4>1, StatusGrows DEF Advances, ObserverInv, Behind, ExecutionTypeOK, Statuses
        <4>3. QED
          BY <1>1, <2>1, <3>1, <4>2 DEF ObserverInv
      <3>2. CASE emitted' = status'
        <4>1. pc' \in Running
          BY <2>5 DEF Generated, Step, Running
        <4>2. CountsAgree(status)' /\ CountsFitStage(status)' /\ LifecycleAgrees(status)'
          BY <1>7, <4>1
        <4>3. QED
          BY <1>2, <3>2, <4>2
             DEF ObserverInv, EveryStatusIsValid, CountsAgree, CountsFitStage, LifecycleAgrees
      <3>3. QED
        BY <2>5, <3>1, <3>2 DEF Generated, Emit, Keep
    <2>6. CASE Start \/ HitPreparing \/ HitCounts \/ HitFinalizing \/ Generate \/ Prepare \/ Select
               \/ Rank \/ RankSome \/ RankAll \/ RescoreSome \/ RescoreAll
      <3>1. emitted' = status' /\ pc' \in Running
        BY <2>6 DEF Start, HitPreparing, HitCounts, HitFinalizing, Generate, Prepare, Select, Rank,
                    RankSome, RankAll, RescoreSome, RescoreAll, Emit, Step, Running, Early, Hitting,
                    Analysing
      <3>2. CountsAgree(status)' /\ CountsFitStage(status)' /\ LifecycleAgrees(status)'
        BY <1>7, <3>1
      <3>3. QED
        BY <1>2, <3>1, <3>2
           DEF ObserverInv, EveryStatusIsValid, CountsAgree, CountsFitStage, LifecycleAgrees
    <2>7. QED
      BY <1>3, <2>2, <2>3, <2>4, <2>5, <2>6 DEF Pipeline
  <1>4. CASE Again
    <2>1. /\ emitted' = Queued /\ status' = Queued /\ UNCHANGED <<kind, budget, yield>>
          /\ deepLimit' \in DeepLimits \cup {Unlimited}
      BY <1>4 DEF Again, request
    <2>2. EveryStatusIsValid'
      BY <2>1, YieldFacts, ExecutionAssumption
         DEF EveryStatusIsValid, ExecutionTypeOK, Queued, CountsAgree, CountsFitStage, LifecycleAgrees
    <2>3. QED
      BY <1>2, <2>1, <2>2 DEF ObserverInv
  <1>5. CASE Cancel \/ Expire \/ UNCHANGED vars
    <2>1. UNCHANGED <<budget, deepLimit, status, emitted>>
      BY <1>5 DEF Cancel, Expire, vars, request, deployment
    <2>2. QED
      BY <1>1, <2>1 DEF ObserverInv, Behind
  <1>6. QED
    BY <1>3, <1>4, <1>5 DEF Next

-----------------------------------------------------------------------------
(* Theorems *)

\* Types, the cached row and what each place of the pipeline says hold in every
\* reachable state.
THEOREM ExecutionInvariant == Spec => []ExecutionInv
<1>1. Init => ExecutionInv
  <2> SUFFICES ASSUME Init PROVE ExecutionInv
    OBVIOUS
  <2>1. ExecutionTypeOK
    BY QueuedIsAStatus DEF Init, ExecutionTypeOK, Places, Waiting
  <2>2. RowInv
    BY DEF Init, RowInv, CacheHoldsTheYield, Foreign, Hitting
  <2>3. /\ pc = "new" /\ status = Queued /\ emitted = Queued /\ result = "none"
    BY DEF Init
  <2>4. CountsAgree(Queued) /\ CountsFitStage(Queued) /\ LifecycleAgrees(Queued)
    BY <2>1, QueuedIsValid
  <2>5. StatusInv
    BY <2>3, <2>4 DEF StatusInv, Waiting, Running, Early, Hitting, Analysing, Queued
  <2>6. EndInv
    BY <2>3 DEF EndInv
  <2>7. ObserverInv
    BY <2>3, <2>4 DEF ObserverInv, EveryStatusIsValid, Behind, Queued
  <2>8. QED
    BY <2>1, <2>2, <2>5, <2>6, <2>7 DEF ExecutionInv
<1>2. ExecutionInv /\ [Next]_vars => ExecutionInv'
  <2> SUFFICES ASSUME ExecutionInv, [Next]_vars PROVE ExecutionInv'
    OBVIOUS
  <2>1. ExecutionTypeOK /\ RowInv /\ StatusInv /\ EndInv /\ ObserverInv
    BY DEF ExecutionInv
  <2>2. ExecutionTypeOK' /\ RowInv'
    BY <2>1, NextTypes, NextRow
  <2>3. StatusInv'
    BY <2>1, <2>2, NextStatus
  <2>4. EndInv' /\ ObserverInv'
    BY <2>1, <2>2, <2>3, NextEnd, NextObserver
  <2>5. QED
    BY <2>2, <2>3, <2>4 DEF ExecutionInv
<1>3. QED
  BY <1>1, <1>2, PTL DEF Spec

\* Whatever is reused, interrupted, cancelled or fails: every published status
\* satisfies the contract that progress.rs asserts, a success shows what the
\* request yields, and what is stored is that or recognisably not that.
THEOREM ExecutionIsAlwaysConsistent == Spec => []ExecutionIsConsistent
<1>1. ExecutionInv => ExecutionIsConsistent
  <2> SUFFICES ASSUME ExecutionInv PROVE ExecutionIsConsistent
    OBVIOUS
  <2>1. ASSUME pc = "done", result = "ok"
        PROVE  WholeYield(status) /\ emitted = status
    BY <2>1 DEF ExecutionInv, EndInv
  <2>2. SuccessIsTheYield
    BY <2>1 DEF SuccessIsTheYield, WholeYield, GeneratedAll, AnalyzedAll, AdmitsDeep
  <2>3. QED
    BY <2>2 DEF ExecutionInv, ObserverInv, RowInv, ExecutionIsConsistent
<1>2. QED
  BY <1>1, ExecutionInvariant, PTL

\* Within an execution no stage, count or answer is taken back, however many
\* workers report: the safety half of StatusesAreTrue.
THEOREM StatusesNeverGoBack == Spec => StatusesAdvance
<1>1. ExecutionInv /\ [Next]_vars =>
        [executions' = executions => Advances(emitted, emitted')]_<<emitted, executions>>
  <2> SUFFICES ASSUME ExecutionInv, [Next]_vars, executions' = executions
               PROVE  Advances(emitted, emitted')
    OBVIOUS
  <2>1. ExecutionTypeOK /\ RowInv /\ StatusInv /\ EndInv /\ ObserverInv
    BY DEF ExecutionInv
  <2>2. CASE emitted' = emitted
    BY <2>1, <2>2, StayingAdvances DEF ExecutionTypeOK
  <2>3. CASE emitted' # emitted
    <3>1. ~Again
      BY <2>1 DEF Again, ExecutionTypeOK
    <3>2. Pipeline
      BY <2>3, <3>1 DEF Next, Cancel, Expire, vars
    <3>3. emitted' = status' /\ Advances(status, status') /\ Behind(emitted, status)
      BY <2>1, <2>3, <3>2, PipelineFrame, StatusGrows DEF ObserverInv
    <3>4. ExecutionTypeOK'
      BY <2>1, NextTypes
    <3>5. QED
      BY <2>1, <3>3, <3>4 DEF Advances, Behind, ExecutionTypeOK, Statuses
  <2>4. QED
    BY <2>2, <2>3
<1>2. QED
  BY <1>1, ExecutionInvariant, PTL DEF Spec, StatusesAdvance, Advances
=============================================================================
