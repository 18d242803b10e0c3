--------------------------- MODULE ReferenceBenchmark ---------------------------
(***************************************************************************)
(* The archive's measurements of its own ranking: the order benchmark and  *)
(* its phrase comparison (archive/anagram_benchmark.py), the gate on them  *)
(* (archive/ci_ordering_gate.py), the refinement experiment                *)
(* (archive/ci_order_refinement.py) and the grouped cross-validation of    *)
(* the feature ranker (archive/anagram_feature_ranker.py,                  *)
(* archive/train_feature_ranker.py).                                       *)
(*                                                                         *)
(* Answers are used only after ranking, to say where they landed.  A rank  *)
(* of 0 stands for none; shares are compared as whole numbers; a trained   *)
(* model is the groups it learned from.                                    *)
(***************************************************************************)
EXTENDS ReferenceOrdering

CONSTANTS
    Cases,          \* sequences of cases [words, acceptable, maxRank, cross]
    Malformed,      \* bags the gate's reference must beat
    Gate,           \* minimal recalls and MRR in hundredths, margin
    PhraseEvidence(_),      \* order -> 0 .. 100
    Bonuses,        \* phrase bonuses, ten-thousandths for each hundredth of evidence
    RetainedOrders, \* --order-candidates
    Refinements,    \* options of the refinement experiment
    RefinedLengths, \* numbers of words it takes
    ExactWords,     \* bags of more words are not enumerated
    Folds,
    FoldOf(_),      \* key of a group -> 0 .. Folds - 1
    ModelScore(_, _)        \* model, order -> score

ASSUME BenchmarkShape ==
    /\ Folds >= 2 /\ RetainedOrders >= 2 /\ ExactWords >= 2
    /\ \A cs \in Cases : \A i \in DOMAIN cs :
          cs[i].words # <<>> /\ cs[i].maxRank \in Nat /\ cs[i].cross \in BOOLEAN

VARIABLES
    cases,      \* the cases of this run
    bonus,
    doing,      \* "orders", "phrases", "refinement", "folds" or "reported"
    next,       \* index of the case or fold that is next
    orderResults, phraseResults, refineResults,
    heldOut,    \* records of the groups evaluated with a model
    gate        \* "none", "passed", "failed" or "raised"

benchVars == <<cases, bonus, doing, next, orderResults, phraseResults, refineResults,
               heldOut, gate>>

BenchInit ==
    /\ cases \in Cases /\ bonus \in Bonuses
    /\ doing = "orders" /\ next = 1
    /\ orderResults = <<>> /\ phraseResults = <<>> /\ refineResults = <<>>
    /\ heldOut = <<>> /\ gate = "none"

-----------------------------------------------------------------------------
(* The order benchmark: run_order_case                                     *)

Searching(mode, exactMax, beam) == [mode |-> mode, exactMax |-> exactMax, beam |-> beam]
BenchmarkSearch(ws) == Searching(IF Len(ws) <= ExactWords THEN "exact" ELSE "beam", ExactWords, 256)

\* Place of the first acceptable order.
RankAmong(orders, acceptable) ==
    LET places == {i \in DOMAIN orders : orders[i] \in acceptable}
    IN IF places = {} THEN 0 ELSE Min(places)

\* Every distinct order, as the enumeration of positions meets it.
DistinctOrders(ws) ==
    Distinct([p \in DOMAIN OrdersOf(Len(ws)) |-> Realized(ws, OrdersOf(Len(ws))[p])])

Unsorted(orders) == orders
ByObjective(orders) == Best(orders, Len(orders), LAMBDA a, b : Objective(a) > Objective(b))

OrderRecord(c, best, ranked, rank) ==
    [words |-> c.words, exact |-> Len(c.words) <= ExactWords, rank |-> rank,
     answer |-> IF rank > 0 THEN Objective(ranked[rank]) ELSE -1,
     best |-> Objective(best), exactBest |-> best \in c.acceptable]
RankedResult(c, best, ranked) == OrderRecord(c, best, ranked, RankAmong(ranked, c.acceptable))
OrderResult(c) ==
    RankedResult(c, RankOrders(c.words, BenchmarkSearch(c.words), 1)[1].order,
                 IF Len(c.words) <= ExactWords THEN ByObjective(DistinctOrders(c.words)) ELSE <<>>)

RunOrderCase ==
    /\ doing = "orders" /\ next <= Len(cases)
    /\ orderResults' = Append(orderResults, OrderResult(cases[next]))
    /\ next' = next + 1
    /\ UNCHANGED <<cases, bonus, doing, phraseResults, refineResults, heldOut, gate>>

-----------------------------------------------------------------------------
(* The gate: compute_order_metrics and ci_ordering_gate.main               *)

Ranks == SelectSeq([i \in DOMAIN orderResults |-> orderResults[i].rank], LAMBDA r : r > 0)
Within(k) == Len(SelectSeq(Ranks, LAMBDA r : r <= k))

MetricsReached ==
    LET n == Len(Ranks) IN
    /\ 100 * Within(1) >= Gate.recall1 * n
    /\ 100 * Within(10) >= Gate.recall10 * n
    /\ 100 * Within(50) >= Gate.recall50 * n
    /\ Add([i \in DOMAIN Ranks |-> 5040 \div Ranks[i]]) * 100 >= Gate.mrr * n * 5040

CrossBagReferences == SelectSeq(cases, LAMBDA c : c.cross)
MarginReached ==
    \A bag \in Malformed :
        Objective(CrossBagReferences[1].words) - Objective(bag) >= Gate.margin
RanksKept ==
    \A i \in DOMAIN cases : cases[i].maxRank > 0 =>
        orderResults[i].rank > 0 /\ orderResults[i].rank <= cases[i].maxRank

Judge ==
    /\ doing = "orders" /\ next > Len(cases)
    /\ gate' = IF Ranks = <<>> \/ Len(CrossBagReferences) # 1 THEN "raised"
               ELSE IF MetricsReached /\ MarginReached /\ RanksKept THEN "passed" ELSE "failed"
    /\ doing' = "phrases" /\ next' = 1
    /\ UNCHANGED <<cases, bonus, orderResults, phraseResults, refineResults, heldOut>>

-----------------------------------------------------------------------------
(* The phrase comparison: run_phrase_order_case                            *)

\* rank_orders of the facade: the diverse part of a wider pool.
RetainedFor(ws, options, topK) == Resolved(Retain(RankOrders(ws, options, RawPoolSize(topK)), topK))

GrammarOrder(cs) == Best(cs, Len(cs), LAMBDA c, d : c.objective > d.objective)

\* Evidence settles ties only where it earns a bonus.
WithBonus(c) == c.objective + bonus * PhraseEvidence(c.order)
TiesByEvidence(cs) ==
    Best(cs, Len(cs), LAMBDA c, d : AlphabeticallyBefore(
        <<WithBonus(d), PhraseEvidence(d.order)>>, <<WithBonus(c), PhraseEvidence(c.order)>>))
PhraseOrder(cs) ==
    IF bonus > 0 THEN TiesByEvidence(cs)
    ELSE Best(cs, Len(cs), LAMBDA c, d : WithBonus(c) > WithBonus(d))

OrdersIn(cs) == [i \in DOMAIN cs |-> cs[i].order]

ComparedOrders(c, grammar, phrase) ==
    [grammar |-> RankAmong(OrdersIn(grammar), c.acceptable),
     phrase |-> RankAmong(OrdersIn(phrase), c.acceptable),
     grammarBest |-> grammar[1].order, best |-> phrase[1].order]
Compared(c, retained) == ComparedOrders(c, GrammarOrder(retained), PhraseOrder(retained))
PhraseResult(c) == Compared(c, RetainedFor(c.words, BenchmarkSearch(c.words), RetainedOrders))

RunPhraseCase ==
    /\ doing = "phrases" /\ next <= Len(cases)
    /\ phraseResults' = Append(phraseResults, PhraseResult(cases[next]))
    /\ IF next = Len(cases) THEN doing' = "refinement" /\ next' = 1
       ELSE next' = next + 1 /\ UNCHANGED doing
    /\ UNCHANGED <<cases, bonus, orderResults, refineResults, heldOut, gate>>

-----------------------------------------------------------------------------
(* The refinement experiment: _run_configuration                           *)

SeedOrders(c) == OrdersIn(RetainedFor(c.words, Searching("beam", 0, 64), 8))

RefineRecord(c, o, seeds, pool) ==
    [options |-> o, seeds |-> Distinct(seeds), orders |-> pool.orders,
     evaluated |-> pool.evaluated, climbs |-> pool.refined,
     recovered |-> pool.orders \cap c.acceptable # {} /\ Range(seeds) \cap c.acceptable = {}]
RefinedFrom(c, o, seeds) == RefineRecord(c, o, seeds, AugmentSeedPool(seeds, o))
RefineResult(c, o) == RefinedFrom(c, o, SeedOrders(c))

Refinable == SelectSeq(cases, LAMBDA c : Len(c.words) \in RefinedLengths)

RunRefinement(o) ==
    /\ doing = "refinement" /\ next <= Len(Refinable)
    /\ refineResults' = Append(refineResults, RefineResult(Refinable[next], o))
    /\ next' = next + 1
    /\ UNCHANGED <<cases, bonus, doing, orderResults, phraseResults, heldOut, gate>>

EndRefinement ==
    /\ doing = "refinement" /\ next > Len(Refinable)
    /\ doing' = "folds" /\ next' = 0
    /\ UNCHANGED <<cases, bonus, orderResults, phraseResults, refineResults, heldOut, gate>>

-----------------------------------------------------------------------------
(* Cross-validation: build_groups and cross_validate_pairwise_ranker       *)

\* A bag whose acceptable orders were not retained gives no group.
ItemsOf(c, retained) ==
    [i \in DOMAIN retained |->
        [order |-> retained[i].order, positive |-> retained[i].order \in c.acceptable,
         baseline |-> WithBonus(retained[i])]]
Items(c) == ItemsOf(c, RetainedFor(c.words, Searching("exact", ExactWords, 256), RetainedOrders))
Group(c) == [key |-> Canonical(c.words), items |-> Items(c)]
Usable == SelectSeq(cases, LAMBDA c : Len(c.words) \in 2 .. ExactWords)
Groups ==
    SelectSeq([i \in DOMAIN Usable |-> Group(Usable[i])],
              LAMBDA g : \E i \in DOMAIN g.items : g.items[i].positive)

FoldOfPlace(groups, i) == i % Folds
FoldOfGroup(groups, i) == FoldOf(groups[i].key)

\* train_pairwise_ranker: groups without two kinds of items teach nothing.
Model(training) ==
    {g \in Range(training) : \E i, j \in DOMAIN g.items : g.items[i].positive /\ ~g.items[j].positive}

Positives(ranked) == {i \in DOMAIN ranked : ranked[i].positive}
BaselineRank(g) ==
    Min(Positives(Best(g.items, Len(g.items), LAMBDA x, y :
            \/ x.baseline > y.baseline
            \/ x.baseline = y.baseline /\ AlphabeticallyBefore(x.order, y.order))))
LearnedRank(g, m) ==
    LET Key(x) == <<ModelScore(m, x.order), x.baseline>> IN
    Min(Positives(Best(g.items, Len(g.items), LAMBDA x, y :
            \/ AlphabeticallyBefore(Key(y), Key(x))
            \/ Key(x) = Key(y) /\ AlphabeticallyBefore(x.order, y.order))))

InFold(groups, wanted) ==
    LET kept == SelectSeq([i \in DOMAIN groups |-> i], LAMBDA i : wanted[FoldOfGroup(groups, i)])
    IN [k \in DOMAIN kept |-> groups[kept[k]]]

Evaluated(held, model) ==
    [i \in DOMAIN held |->
        [key |-> held[i].key, learnedFrom |-> model,
         base |-> BaselineRank(held[i]), learned |-> LearnedRank(held[i], model)]]
\* A fold without groups to learn from or to hold out is passed over.
FoldRecords(training, held) ==
    IF training = <<>> \/ held = <<>> THEN <<>> ELSE Evaluated(held, Model(training))

RunFold ==
    /\ doing = "folds" /\ next < Folds
    /\ heldOut' = heldOut \o FoldRecords(InFold(Groups, [f \in 0 .. Folds - 1 |-> f # next]),
                                         InFold(Groups, [f \in 0 .. Folds - 1 |-> f = next]))
    /\ next' = next + 1
    /\ UNCHANGED <<cases, bonus, doing, orderResults, phraseResults, refineResults, gate>>

Report ==
    /\ doing = "folds" /\ next = Folds
    /\ doing' = "reported"
    /\ UNCHANGED <<cases, bonus, next, orderResults, phraseResults, refineResults, heldOut, gate>>

BenchNext ==
    \/ RunOrderCase \/ Judge \/ RunPhraseCase
    \/ \E o \in Refinements : RunRefinement(o)
    \/ EndRefinement \/ RunFold \/ Report

-----------------------------------------------------------------------------
(* Properties                                                              *)

\* The benchmark and the reranker, which rank orders by code of their own, agree:
\* the order the reranker selects scores as high as the benchmark's first, so an
\* acceptable selection means that no order beats the answer, a rank beyond 1 is
\* explained by so many orders that score at least as high; and without a bonus
\* the phrase comparison "reproduces the retained grammar ordering exactly"
\* (anagram_benchmark.py:303).
MeasurementsAgree ==
    /\ \A i \in DOMAIN orderResults :
        LET r == orderResults[i]
            orders == {Realized(r.words, p) : p \in Range(OrdersOf(Len(r.words)))}
        IN r.exact =>
            /\ \A order \in orders : Objective(order) <= r.best
            /\ r.exactBest => r.answer = r.best
            /\ r.rank > 0 => Cardinality({o \in orders : Objective(o) > r.answer}) < r.rank
            /\ r.rank > 1 => r.rank <= Cardinality({o \in orders : Objective(o) >= r.answer})
    /\ \A i \in DOMAIN phraseResults :
        LET r == phraseResults[i] IN
        /\ (r.grammar = 0) <=> (r.phrase = 0)
        /\ bonus = 0 => r.phrase = r.grammar /\ r.best = r.grammarBest

\* Refinement only adds: every seed stays in the pool, a climb that moved ends
\* above the very seed it started from and one that did not ends at it, and a
\* climb that had rounds and budget to spare ends where no window of its order
\* can be improved; the scores computed stay within the budget of each refined
\* seed, whose own score counts, and one for each other ("Preserve every seed
\* and append distinct refined local optima", anagram_order_refinement.py:197).
RefinementOnlyAdds ==
    \A i \in DOMAIN refineResults :
        LET r == refineResults[i]  o == r.options IN
        /\ Range(r.seeds) \subseteq r.orders
        /\ r.evaluated <= Len(r.seeds) + o.seedLimit * (o.budget - 1)
        /\ \A k \in DOMAIN r.climbs :
            LET climb == r.climbs[k] IN
            /\ climb.rounds > 0 => Objective(climb.current) > Objective(r.seeds[k])
            /\ climb.rounds = 0 => climb.current = r.seeds[k]
            /\ (climb.rounds < o.rounds /\ climb.evaluated < o.budget - 1) =>
                  \A order \in Range(WindowNeighbors(climb.current, o.low, o.high)) :
                      Objective(order) <= Objective(climb.current)

\* No bag is evaluated with a model that has seen it: whatever permutations and
\* repetitions of an answer the cases hold, all of them are held out together,
\* and each is evaluated at most once ("permutations of the same answer can
\* never leak across train/test folds", anagram_feature_ranker.py:6).
HeldOutBagsAreUnseen ==
    /\ \A i \in DOMAIN heldOut : \A g \in heldOut[i].learnedFrom : g.key # heldOut[i].key
    /\ \A key \in {heldOut[i].key : i \in DOMAIN heldOut} :
          Cardinality({i \in DOMAIN heldOut : heldOut[i].key = key})
            <= Cardinality({i \in DOMAIN Groups : Groups[i].key = key})
=============================================================================
