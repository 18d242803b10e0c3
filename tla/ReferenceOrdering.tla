--------------------------- MODULE ReferenceOrdering ---------------------------
(***************************************************************************)
(* The word orders of one bag in the archived reranker: the k-best search  *)
(* (archive/anagram_rerank_core.py), the ranked orders                     *)
(* (archive/anagram_rerank_topk_impl.py), the diverse subset of them that  *)
(* is retained (archive/anagram_order_diversity.py) and the refinement of  *)
(* complete orders (archive/anagram_order_refinement.py).                  *)
(*                                                                         *)
(* Words are numbers in alphabetical order and an order is a sequence of   *)
(* words.  Local scores are integers; normalized scores are hundredths, so *)
(* an objective is in ten-thousandths.                                     *)
(***************************************************************************)
EXTENDS Integers, Sequences, FiniteSets, Functions, SequencesExt, FiniteSetsExt

CONSTANTS
    PairGrammar,        \* word -> word -> local score of the two in a row
    StartScore,         \* word -> score of opening an order
    EndScore,           \* word -> score of closing one
    Normalize(_, _),    \* sum of local scores, edges -> 0 .. 100, monotone in the sum
    Structure(_),       \* order -> [norm, valency, coverage: 0 .. 100, kind]
    QualityCore,        \* DEFAULT_QUALITY_CORE
    PoolExtra,          \* DEFAULT_POOL_EXTRA
    MaxPool,            \* DEFAULT_MAX_POOL
    Strength            \* DEFAULT_DIVERSITY_STRENGTH in hundredths

ASSUME OrderingShape ==
    /\ {QualityCore, MaxPool} \subseteq Nat \ {0}
    /\ PoolExtra \in Nat /\ Strength \in 0 .. 100

-----------------------------------------------------------------------------
(* Sequences                                                               *)

Add(seq) == FoldSeq(+, 0, seq)

\* The first k elements of a stable sort, best first.
Best(seq, k, Better(_, _)) ==
    LET Ahead(i, j) == \/ Better(seq[i], seq[j])
                       \/ ~Better(seq[j], seq[i]) /\ i < j
        ranked == SortSeq([i \in DOMAIN seq |-> i], Ahead)
    IN [r \in 1 .. Min({k, Len(seq)}) |-> seq[ranked[r]]]

\* The elements of a sequence, each where it first occurs.
Distinct(seq) ==
    LET firsts == SelectSeq([i \in DOMAIN seq |-> i],
                            LAMBDA i : \A j \in 1 .. i - 1 : seq[j] # seq[i])
    IN [k \in DOMAIN firsts |-> seq[firsts[k]]]

\* Alphabetical comparison of two orders of one bag.
AlphabeticallyBefore(a, b) ==
    \E i \in DOMAIN a : a[i] < b[i] /\ \A j \in 1 .. i - 1 : a[j] = b[j]

\* The partial permutations of 1 .. n with one more element than those given.
Extensions(paths, n) ==
    FlattenSeq([p \in DOMAIN paths |->
        LET free == SelectSeq([j \in 1 .. n |-> j], LAMBDA j : j \notin Range(paths[p]))
        IN [k \in DOMAIN free |-> Append(paths[p], free[k])]])

\* The permutations of 1 .. n in the order of itertools.permutations.
OrdersOf(n) ==
    LET level[k \in 0 .. n] == IF k = 0 THEN <<<<>>>> ELSE Extensions(level[k - 1], n)
    IN level[n]

-----------------------------------------------------------------------------
(* Local scores and the orders worth a full score                          *)

Canonical(ws) == SortSeq(ws, <)

\* The sum; the code divides it by the number of edges.
LocalRaw(order) ==
    LET n == Len(order) IN
    IF n = 0 THEN 0
    ELSE StartScore[order[1]] + EndScore[order[n]]
         + Add([i \in 1 .. n - 1 |-> PairGrammar[order[i]][order[i + 1]]])

Edges(order) == Max({1, Len(order) - 1})

Realized(ws, path) == [i \in DOMAIN path |-> ws[path[i]]]

\* The score of a path that does not know its last word yet.
PrefixScore(ws, path) == LocalRaw(Realized(ws, path)) - EndScore[ws[Last(path)]]

\* Keep the best paths of each set of used positions and last position,
\* states in the order they were first reached.
PruneAcross(ws, paths, k) ==
    Best(paths, k, LAMBDA p, q : PrefixScore(ws, p) > PrefixScore(ws, q))
Prune(ws, paths, k) ==
    LET State(p) == <<Range(p), Last(p)>>
        heads == SelectSeq([i \in DOMAIN paths |-> i],
                     LAMBDA i : \A j \in 1 .. i - 1 : State(paths[j]) # State(paths[i]))
    IN FlattenSeq([h \in DOMAIN heads |->
           Best(SelectSeq(paths, LAMBDA p : State(p) = State(paths[heads[h]])), k,
                LAMBDA p, q : PrefixScore(ws, p) > PrefixScore(ws, q))])

PerState(n, width) == Max({2, (width + n - 1) \div n})

KBestLocalOrders(ws, width) ==
    LET n == Len(ws)
        level[k \in 0 .. n] ==
            IF k = 0 THEN <<<<>>>>
            ELSE IF k = 1 THEN Extensions(level[0], n)
            ELSE Prune(ws, Extensions(level[k - 1], n), PerState(n, width))
    IN Best(level[n], width,
            LAMBDA p, q : LocalRaw(Realized(ws, p)) > LocalRaw(Realized(ws, q)))

Objective(order) ==
    38 * Normalize(LocalRaw(order), Edges(order)) + 44 * Structure(order).norm
    + 12 * Structure(order).valency + 6 * Structure(order).coverage

Candidate(order) ==
    [order |-> order, grammar |-> Normalize(LocalRaw(order), Edges(order)),
     structure |-> Structure(order), objective |-> Objective(order)]

\* _candidate_sort_key
Stronger(a, b) ==
    LET Key(c) == <<c.objective, c.structure.norm, c.grammar, c.structure.valency,
                    c.structure.coverage>>
    IN \/ AlphabeticallyBefore(Key(b), Key(a))
       \/ Key(a) = Key(b) /\ AlphabeticallyBefore(a.order, b.order)

SearchesExactly(n, o) == o.mode = "exact" \/ (o.mode = "auto" /\ n <= o.exactMax)

\* Repeated words realize an order several ways; it is scored once.
RealizedOrders(ws, o, topK) ==
    LET paths == IF SearchesExactly(Len(ws), o) THEN OrdersOf(Len(ws))
                 ELSE KBestLocalOrders(ws, Max({o.beam, 8 * topK}))
    IN {Realized(ws, paths[p]) : p \in DOMAIN paths}

RankedFrom(ws, o, topK) ==
    LET candidates == {Candidate(order) : order \in RealizedOrders(ws, o, topK)}
        ahead == [c \in candidates |-> Cardinality({d \in candidates : Stronger(d, c)})]
    IN [k \in 1 .. Min({topK, Cardinality(candidates)}) |->
            CHOOSE c \in candidates : ahead[c] = k - 1]

RankOrders(ws, o, topK) == IF ws = <<>> THEN <<>> ELSE RankedFrom(Canonical(ws), o, topK)

-----------------------------------------------------------------------------
(* The retained subset                                                     *)

RawPoolSize(retained) ==
    IF retained <= QualityCore THEN retained
    ELSE Max({retained, Min({MaxPool, retained + PoolExtra})})

Adjacency(order) == [i \in 1 .. Len(order) - 1 |-> <<order[i], order[i + 1]>>]
Occurs(x, seq) == Len(SelectSeq(seq, LAMBDA y : y = x))

Overlap(a, b) ==
    MapThenSumSet(LAMBDA e : Min({Occurs(e, Adjacency(a)), Occurs(e, Adjacency(b))}),
                  Range(Adjacency(a)))

One(p) == IF p THEN 1 ELSE 0

\* Orders of one bag of n words: 100 n (n - 1) times their similarity.
Similarity(c, d) ==
    LET a == c.order  b == d.order  n == Len(a) IN
    IF a = b THEN 100 * n * Max({1, n - 1})
    ELSE 55 * n * Overlap(a, b)
         + 30 * (n - 1) * Cardinality({i \in 1 .. n : a[i] = b[i]})
         + 5 * n * (n - 1) * (One(a[1] = b[1]) + One(a[n] = b[n]))
         + 5 * n * (n - 1) * One(c.structure.kind = d.structure.kind)

\* Utility of a candidate whose largest similarity to the chosen ones is known.
Utility(c, similarity) ==
    c.objective * Len(c.order) * Max({1, Len(c.order) - 1}) - Strength * similarity

MoreUseful(cs, near, i, j) ==
    LET Key(k) == <<Utility(cs[k], near[k]), cs[k].objective>> IN
    \/ AlphabeticallyBefore(Key(j), Key(i))
    \/ Key(i) = Key(j) /\ AlphabeticallyBefore(cs[i].order, cs[j].order)

\* The largest similarity to the chosen ones is kept up to date.
NearnessForgotten(cs, near, winner) == near
Nearness(cs, near, winner) ==
    [i \in DOMAIN near |-> Max({near[i], Similarity(cs[i], cs[winner])})]

\* _select_diverse_orders_eager: the core by rank, the rest by utility.
SelectDiverse(cs, topK) ==
    LET limit == Min({topK, Len(cs)})
        core == 1 .. Min({QualityCore, limit})
        near0 == [i \in DOMAIN cs \ core |->
                    Max({Similarity(cs[i], cs[j]) : j \in core})]
        pick[k \in Cardinality(core) .. limit] ==
            IF k = Cardinality(core) THEN [chosen |-> core, near |-> near0]
            ELSE LET s == pick[k - 1]
                     left == DOMAIN cs \ s.chosen
                     winner == CHOOSE i \in left :
                                  \A j \in left \ {i} : MoreUseful(cs, s.near, i, j)
                 IN [chosen |-> s.chosen \cup {winner}, near |-> Nearness(cs, s.near, winner)]
        chosen == pick[limit].chosen
    IN [k \in 1 .. limit |-> cs[CHOOSE i \in chosen : Cardinality({j \in chosen : j < i}) = k - 1]]

\* select_diverse_orders: what needs a selection is deferred; its first element
\* is read without one.
Retain(cs, topK) ==
    [pool |-> cs, topK |-> topK,
     deferred |-> Len(cs) > topK /\ Min({QualityCore, topK}) < topK]
Resolved(r) ==
    IF r.deferred THEN SelectDiverse(r.pool, r.topK)
    ELSE SubSeq(r.pool, 1, Min({r.topK, Len(r.pool)}))
First(r) == r.pool[1]

-----------------------------------------------------------------------------
(* Refinement                                                              *)

\* The orders that permute one window of a given order, each once.
WindowNeighbors(order, low, high) ==
    LET n == Len(order)
        widths == [w \in 1 .. Max({0, Min({high, n}) - low + 1}) |-> low + w - 1]
        Moved(width, start, perm) ==
            [i \in DOMAIN order |-> IF i \in start .. start + width - 1
                                    THEN order[start + perm[i - start + 1] - 1] ELSE order[i]]
    IN SelectSeq(Distinct(FlattenSeq([w \in DOMAIN widths |->
                     FlattenSeq([start \in 1 .. n - widths[w] + 1 |->
                        [p \in DOMAIN OrdersOf(widths[w]) |->
                            Moved(widths[w], start, OrdersOf(widths[w])[p])]])])),
                 LAMBDA moved : moved # order)

\* The neighbors one round looks at: it ends before the first new one that the
\* budget does not cover; one that was scored before costs nothing.
Looked(s, neighbors, budget) ==
    LET fresh == SelectSeq([i \in DOMAIN neighbors |-> i],
                           LAMBDA i : neighbors[i] \notin s.scored)
        allowed == budget - s.evaluated
    IN SubSeq(neighbors, 1, IF Len(fresh) <= allowed THEN Len(neighbors) ELSE fresh[allowed + 1] - 1)

BestOfTheLooked(s, looked) ==
    LET others == Range(looked) \ {s.current} IN
    IF others = {} THEN s.current
    ELSE CHOOSE c \in others : \A d \in others : Objective(d) <= Objective(c)

\* The neighbor that improves most on the current order, or the order itself.
BestNeighbor(s, looked) ==
    LET better == {c \in Range(looked) : Objective(c) > Objective(s.current)}
        top == Max({Objective(c) : c \in better})
        tied == {c \in better : Objective(c) = top}
    IN IF better = {} THEN s.current
       ELSE CHOOSE c \in tied : \A d \in tied : d = c \/ AlphabeticallyBefore(c, d)

\* One round: move to the best neighbor, if there is a better one.
Settled(s, looked, r) ==
    [current |-> BestNeighbor(s, looked), scored |-> s.scored \cup Range(looked),
     evaluated |-> s.evaluated + Cardinality(Range(looked) \ s.scored),
     rounds |-> IF BestNeighbor(s, looked) = s.current THEN s.rounds ELSE r]
Climb(s, r, o, budget) ==
    IF s.rounds < r - 1 \/ s.evaluated >= budget THEN s
    ELSE Settled(s, Looked(s, WindowNeighbors(s.current, o.low, o.high), budget), r)

\* refine_order: evaluated is 1 when the seed is scored here, 0 when it is not.
RefineOrder(seed, o, budget, evaluated) ==
    FoldLeft(LAMBDA s, r : Climb(s, r, o, budget),
             [current |-> seed, scored |-> {seed}, evaluated |-> evaluated, rounds |-> 0],
             [r \in 1 .. o.rounds |-> r])

EndpointsOnly(seeds, refined) == {refined[k].current : k \in DOMAIN refined}
SeedsAndEndpoints(seeds, refined) == Range(seeds) \cup {refined[k].current : k \in DOMAIN refined}

\* augment_seed_pool: every seed is kept; the first ones are also refined,
\* their own score counting against their budget.
Climbs(seeds, o) ==
    [k \in 1 .. (IF o.budget <= 1 THEN 0 ELSE Min({o.seedLimit, Len(seeds)})) |->
        RefineOrder(seeds[k], o, o.budget - 1, 0)]
Augmented(seeds, refined) ==
    [orders |-> SeedsAndEndpoints(seeds, refined), refined |-> refined,
     evaluated |-> Len(seeds) + Add([k \in DOMAIN refined |-> refined[k].evaluated])]
AugmentSeedPool(seeds, o) ==
    Augmented(Distinct(seeds), Climbs(Distinct(seeds), o))
=============================================================================
