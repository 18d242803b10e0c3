------------------------- MODULE ReferenceGeneration -------------------------
(***************************************************************************)
(* The archived generator, from a request to its ranked export:            *)
(* archive/anagram_generate.py, called through archive/anagram_solver.py   *)
(* or by itself.                                                           *)
(*                                                                         *)
(* A run checks the request, derives the generator's constraints, admits   *)
(* the words of the dictionary, searches bags of words in one or several   *)
(* streams and ranks what it found.  A stream is a depth-first search that *)
(* remembers dead states; it depends on nothing but its arguments, so it   *)
(* is the sequence of bags it would produce, computed as the code does.    *)
(*                                                                         *)
(* Words are numbers in alphabetical order; what a word is made of, how    *)
(* frequent it is, its variants and its bigrams are constants.  Scores are *)
(* scaled to integers; logarithms come from a table of hundredths.         *)
(***************************************************************************)
EXTENDS Integers, Sequences, FiniteSets, Functions, SequencesExt, FiniteSetsExt

CONSTANTS
    Letters,
    Spelling,       \* word -> its letters, words in alphabetical order
    Zipf,           \* word -> frequency (0 for a word the corpus lacks)
    Variants,       \* word -> shorter forms its suffix suggests
    Edge,           \* word -> word -> bigram score
    Seen,           \* pairs of words the corpus has seen
    Ln,             \* Ln[n] is 100 times the logarithm of n
    Requests        \* see RequestShape

AllWords == DOMAIN Spelling
Size(bag) == SumFunction(bag)
Length(w) == Size(Spelling[w])
Fits(w, bag) == \A l \in Letters : Spelling[w][l] <= bag[l]
Minus(bag, w) == [l \in Letters |-> bag[l] - Spelling[w][l]]
LettersOf(words) == [l \in Letters |-> FoldSeq(LAMBDA w, n : n + Spelling[w][l], 0, words)]

RequestShape(r) ==
    /\ r.target \in [Letters -> Nat] /\ Size(r.target) > 0
    /\ r.require \in Seq(AllWords)
    /\ r.exclude \subseteq AllWords /\ r.hints \subseteq AllWords
    /\ r.dictionary \subseteq AllWords /\ r.short \subseteq AllWords
    /\ r.min \in Nat \ {0} /\ r.max \in Nat /\ r.min <= r.max
    /\ r.minLength \in Nat \ {0} /\ r.minZipf \in Nat
    /\ r.cap \in Nat                \* 0: no cap
    /\ r.deep \in Nat               \* rows per word count given an order
    /\ {r.direct, r.one, r.diverse, r.repeat, r.analyze} \subseteq BOOLEAN

ASSUME GenerationShape ==
    /\ Spelling \in Seq([Letters -> Nat])
    /\ \A r \in Requests : RequestShape(r)

VARIABLES
    request,        \* what was asked
    stage,          \* "request", "admit", "search", "rank", "done" or "refused"
    plan,           \* the generator's constraints
    words,          \* admitted words, best first
    streams,        \* bags the streams have still to give; the first has its turn
    bags,           \* bags accepted, in order
    truncated,      \* did the cap cut the search?
    records         \* the ranked records

genVars == <<request, stage, plan, words, streams, bags, truncated, records>>

NoPlan == [remaining |-> [l \in Letters |-> 0], hints |-> {}, short |-> {},
           min |-> 0, max |-> 0]

GenInit ==
    /\ request \in Requests
    /\ stage = "request" /\ plan = NoPlan /\ words = <<>> /\ streams = <<>>
    /\ bags = <<>> /\ truncated = FALSE /\ records = <<>>

-----------------------------------------------------------------------------
(* The request                                                             *)

\* The frontend counts every word of an answer, the generator only those it
\* adds to the required ones.
WholeLimits(r) == <<r.min, r.max>>
ResidualLimits(r) ==
    LET count == Len(r.require) IN
    IF r.direct \/ count = 0 THEN <<r.min, r.max>>
    ELSE <<Max({1, r.min - count}), Max({1, r.max - count})>>

\* _residual_word_limits refuses what leaves the generator nothing to do.
FrontendRefuses(r) ==
    /\ ~r.direct /\ r.require # <<>>
    /\ \/ r.max <= Len(r.require)
       \/ LettersOf(r.require) = r.target

\* Required words are taken out of the target first.
Remaining(r) == [l \in Letters |-> r.target[l] - LettersOf(r.require)[l]]

\* Excluded clues and clues that fit nowhere are dropped; required words that
\* are clues count as met.
UsableHints(r) ==
    {h \in r.hints \ r.exclude : h \in Range(r.require) \/ Fits(h, Remaining(r))}

ShortWords(r) ==
    (r.short \cup {w \in UsableHints(r) \cup Range(r.require) : Length(w) <= 2}) \ r.exclude

GeneratorRefuses(r) ==
    \/ \E l \in Letters : Remaining(r)[l] < 0
    \/ Range(r.require) \cap r.exclude # {}
    \/ r.hints # {} /\ UsableHints(r) = {}

Plan(r) ==
    [remaining |-> Remaining(r), hints |-> UsableHints(r), short |-> ShortWords(r),
     min |-> ResidualLimits(r)[1], max |-> ResidualLimits(r)[2]]

CluesMet(r, hints, bag) ==
    LET met == hints \cap bag IN
    hints = {} \/ IF r.one THEN Cardinality(met) = 1 ELSE met # {}

Refuse ==
    /\ stage = "request"
    /\ FrontendRefuses(request) \/ GeneratorRefuses(request)
    /\ stage' = "refused"
    /\ UNCHANGED <<request, plan, words, streams, bags, truncated, records>>

\* Required words that use up the target are the only answer.
AnswerDirectly ==
    /\ stage = "request"
    /\ ~FrontendRefuses(request) /\ ~GeneratorRefuses(request)
    /\ Size(Remaining(request)) = 0
    /\ IF CluesMet(request, UsableHints(request), Range(request.require))
       THEN stage' = "done" /\ bags' = <<<<>>>>
       ELSE stage' = "refused" /\ UNCHANGED bags
    /\ UNCHANGED <<request, plan, words, streams, truncated, records>>

Constrain ==
    /\ stage = "request"
    /\ ~FrontendRefuses(request) /\ ~GeneratorRefuses(request)
    /\ Size(Remaining(request)) > 0
    /\ plan' = Plan(request)
    /\ stage' = "admit"
    /\ UNCHANGED <<request, words, streams, bags, truncated, records>>

-----------------------------------------------------------------------------
(* The admitted words: load_words                                          *)

AllowedByLength(w) ==
    \/ w \in plan.hints
    \/ w \in plan.short
    \/ Length(w) >= request.minLength /\ Length(w) > 2

\* Without a threshold and without an analysis no frequencies are loaded.
Known == request.minZipf > 0 \/ request.analyze
Frequency(w) == IF Known THEN Zipf[w] ELSE 0

AdmittedWords ==
    LET usable == {w \in AllWords \ request.exclude : Fits(w, plan.remaining)} IN
    {w \in usable \cap request.dictionary :
        /\ AllowedByLength(w)
        /\ Frequency(w) >= request.minZipf \/ w \in plan.hints}
    \cup (usable \cap plan.hints)

\* Frequent words first, then long ones.
Before(v, w) ==
    \/ Frequency(v) > Frequency(w)
    \/ Frequency(v) = Frequency(w) /\ Length(v) > Length(w)
    \/ Frequency(v) = Frequency(w) /\ Length(v) = Length(w) /\ v < w

\* The elements of a finite set in a total order.
Sorted(S, Less(_, _)) ==
    [k \in 1 .. Cardinality(S) |-> CHOOSE x \in S : Cardinality({y \in S : Less(y, x)}) = k - 1]

\* Without words there is nothing to search: an empty, untruncated export.
Admit ==
    /\ stage = "admit"
    /\ words' = Sorted(AdmittedWords, Before)
    /\ stage' = IF AdmittedWords = {} THEN "done" ELSE "open"
    /\ UNCHANGED <<request, plan, streams, bags, truncated, records>>

-----------------------------------------------------------------------------
(* One stream: solve.  Bags are sequences of positions in words; a         *)
(* position is never followed by a smaller one.                            *)

Positions == DOMAIN words
Shortest == Min({Length(words[i]) : i \in Positions})
Longest == Max({Length(words[i]) : i \in Positions})

ClueAccepts(clues, met) ==
    clues = {} \/ IF request.one THEN Cardinality(met) = 1 ELSE met # {}

CanStillMatch(clues, met, rem, start) ==
    \/ clues = {}
    \/ Cardinality(met) >= 1 /\ (request.one => Cardinality(met) = 1)
    \/ met = {} /\ \E i \in Positions : /\ i >= start /\ words[i] \in clues
                                        /\ Fits(words[i], rem)

\* What a dead state is remembered by.
StateWithoutClues(rem, start, left, met) == <<rem, start, left, {}>>
DeadState(rem, start, left, met) == <<rem, start, left, met>>

WithClue(clues, met, i) == met \cup ({words[i]} \cap clues)

\* A prefix from which nothing can be completed, told without searching it.
Hopeless(clues, rem, start, left, met) ==
    \/ Size(rem) < left * Shortest \/ Size(rem) > left * Longest
    \/ ~CanStillMatch(clues, met, rem, start)

\* The last word has to be spelled by exactly the letters that are left.
Finishers(clues, rem, start, met) ==
    SelectSeq([i \in Positions |-> i],
              LAMBDA i : /\ i >= start /\ Spelling[words[i]] = rem
                         /\ ClueAccepts(clues, WithClue(clues, met, i)))

\* Words worth choosing while others have to follow.
Choosable(clues, rem, start, left, met) ==
    SelectSeq([i \in Positions |-> i],
              LAMBDA i : /\ i >= start /\ Fits(words[i], rem)
                         /\ Length(words[i]) >= Size(rem) - (left - 1) * Longest
                         /\ Length(words[i]) <= Size(rem) - (left - 1) * Shortest
                         /\ request.one => Cardinality(WithClue(clues, met, i)) <= 1)

NextStart(i) == IF request.repeat THEN i ELSE i + 1

\* found: the bags so far; dead: the states known to give none.
RECURSIVE Dfs(_, _, _, _, _, _, _)
Dfs(s, clues, rem, start, left, chosen, met) ==
    LET state == DeadState(rem, start, left, met)
        Closed(t) == IF Len(t.found) = Len(s.found)
                     THEN [t EXCEPT !.dead = @ \cup {state}] ELSE t
    IN
    IF Size(rem) = 0 \/ Hopeless(clues, rem, start, left, met) \/ state \in s.dead THEN s
    ELSE IF left = 1
    THEN Closed([s EXCEPT !.found = @ \o [k \in DOMAIN Finishers(clues, rem, start, met) |->
                     Append(chosen, Finishers(clues, rem, start, met)[k])]])
    ELSE Closed(FoldLeft(
             LAMBDA t, i : Dfs(t, clues, Minus(rem, words[i]), NextStart(i), left - 1,
                               Append(chosen, i), WithClue(clues, met, i)),
             s, Choosable(clues, rem, start, left, met)))

Initial == plan.hints \cap Range(request.require)

Solve(clues, low, high) ==
    IF request.one /\ Cardinality(clues \cap Initial) > 1 THEN <<>>
    ELSE FoldLeft(LAMBDA s, n : Dfs(s, clues, plan.remaining, 1, n, <<>>, clues \cap Initial),
                  [found |-> <<>>, dead |-> {}],
                  [k \in 1 .. (IF high < low THEN 0 ELSE high - low + 1) |-> low + k - 1]).found

-----------------------------------------------------------------------------
(* The search: search_solutions                                            *)

Total == Size(plan.remaining)
Low == Max({plan.min, (Total + Longest - 1) \div Longest})
High == Min({plan.max, Total \div Shortest})

ClueGroups ==
    IF plan.hints # {} /\ Initial = {} /\ ~request.one
    THEN [k \in 1 .. Cardinality(plan.hints) |-> {Sorted(plan.hints, <)[k]}]
    ELSE <<plan.hints>>

Diverse == request.diverse /\ request.cap > 0

\* One stream in the historical order, or one for each word count and clue.
Streams ==
    IF ~Diverse THEN <<Solve(plan.hints, Low, High)>>
    ELSE LET groups == ClueGroups
             counts == IF High < Low THEN 0 ELSE High - Low + 1
         IN [k \in 1 .. counts * Len(groups) |->
                LET count == Low + ((k - 1) \div Len(groups)) IN
                Solve(groups[((k - 1) % Len(groups)) + 1], count, count)]

Open ==
    /\ stage = "open"
    /\ streams' = Streams
    /\ stage' = "search"
    /\ UNCHANGED <<request, plan, words, bags, truncated, records>>

\* Bags that another clue's stream has given do not count again.
Fresh(stream) ==
    IF Diverse /\ Len(ClueGroups) > 1
    THEN SelectSeq(stream, LAMBDA bag : bag \notin Range(bags)) ELSE stream

\* The cap is looked at when one more bag is at hand, so the search knows that
\* it is cutting something off.
CapReached == request.cap > 0 /\ Len(bags) >= request.cap

StreamEnds ==
    /\ stage = "search" /\ streams # <<>>
    /\ Fresh(Head(streams)) = <<>>
    /\ streams' = Tail(streams)
    /\ UNCHANGED <<request, stage, plan, words, bags, truncated, records>>

Truncate ==
    /\ stage = "search" /\ streams # <<>>
    /\ Fresh(Head(streams)) # <<>> /\ CapReached
    /\ truncated' = TRUE /\ streams' = <<>> /\ stage' = "rank"
    /\ UNCHANGED <<request, plan, words, bags, records>>

Accept ==
    /\ stage = "search" /\ streams # <<>>
    /\ Fresh(Head(streams)) # <<>> /\ ~CapReached
    /\ bags' = Append(bags, Head(Fresh(Head(streams))))
    /\ streams' = Append(Tail(streams), Tail(Fresh(Head(streams))))
    /\ UNCHANGED <<request, stage, plan, words, truncated, records>>

SearchEnds ==
    /\ stage = "search" /\ streams = <<>>
    /\ stage' = IF bags = <<>> THEN "done" ELSE "rank"
    /\ UNCHANGED <<request, plan, words, streams, bags, truncated, records>>

WordsOf(bag) == request.require \o [k \in DOMAIN bag |-> words[bag[k]]]

-----------------------------------------------------------------------------
(* Records: build_records                                                  *)

Sum(seq) == FoldSeq(+, 0, seq)
AtLeast1(n) == IF n < 1 THEN 1 ELSE n

\* Twice the sum of the lowest two frequencies weighs 22, the mean 78, less the
\* penalties for short, unseen and repeated words; times 100 and the two counts.
LexRaw(ws) ==
    LET n == Len(ws)
        zs == SortSeq([k \in DOMAIN ws |-> Frequency(ws[k])], <)
        low == IF n < 2 THEN n ELSE 2
        short == Len(SelectSeq(ws, LAMBDA w : Length(w) <= 2 /\ w \notin plan.short))
        unseen == Len(SelectSeq(ws, LAMBDA w : Known /\ Zipf[w] = 0))
        repeated == n - Cardinality(Range(ws))
    IN 78 * Sum(zs) * low + 22 * Sum(SubSeq(zs, 1, low)) * n
       - (75 * short + 35 * unseen + 125 * repeated) * n * low

\* A word's family is its best attested shorter form, if there is one.
Vocabulary == Range(words) \cup Range(request.require) \cup plan.hints
MorphRoot(w) ==
    LET plausible == Variants[w] \cap Vocabulary
        Attested(v, u) == \/ Frequency(v) > Frequency(u)
                          \/ Frequency(v) = Frequency(u) /\ Length(v) <= Length(u)
    IN IF plausible = {} THEN w
       ELSE CHOOSE v \in plausible : \A u \in plausible : Attested(v, u)
FamilyKey(ws) == SortSeq([k \in DOMAIN ws |-> MorphRoot(ws[k])], <)

\* The best n - 1 directed pairs, whether or not they form a path.
PairRaw(ws) ==
    LET n == Len(ws)
        scores == [k \in 1 .. n * n |-> [left |-> ((k - 1) \div n) + 1, right |-> ((k - 1) % n) + 1]]
        directed == SelectSeq(scores, LAMBDA e : e.left # e.right)
        best == SortSeq([k \in DOMAIN directed |-> Edge[ws[directed[k].left]][ws[directed[k].right]]], >)
    IN IF ~request.analyze \/ n <= 1 THEN 0 ELSE Sum(SubSeq(best, 1, n - 1))

Matched(ws) == plan.hints \cap Range(ws)

Kept == SelectSeq(bags, LAMBDA bag : CluesMet(request, plan.hints, Range(WordsOf(bag))))
KeptWords == [k \in DOMAIN Kept |-> WordsOf(Kept[k])]

\* In hundredths: how much rarer than the rarest hint's are the bags of a hint.
HintInfo(ws) ==
    LET Count(h) == Len(SelectSeq(KeptWords, LAMBDA us : h \in Matched(us)))
        Raw(h) == Ln[Len(Kept) + 1] - Ln[Count(h) + 1]
        most == Max({Raw(h) : h \in plan.hints})
        best == Max({Raw(h) : h \in Matched(ws)})
        info == (100 * best) \div (IF most = 0 THEN 100 ELSE most)
                + Min({15, 5 * (Cardinality(Matched(ws)) - 1)})
    IN IF Matched(ws) = {} THEN 0 ELSE Min({100, info})

FamilyBest(ws) == Max({LexRaw(us) : us \in {vs \in Range(KeptWords) : FamilyKey(vs) = FamilyKey(ws)}})

\* Percentile ranks: values that tie share the middle of their ranks.  The
\* result is to be divided by 2 (n - 1).
Percentile(values, k) ==
    IF Len(values) <= 1 THEN 1
    ELSE 2 * Cardinality({j \in DOMAIN values : values[j] < values[k]})
         + Cardinality({j \in DOMAIN values : values[j] = values[k]}) - 1
Scale(n) == IF n <= 1 THEN 1 ELSE 2 * (n - 1)

Bucket(n) == SelectSeq(KeptWords, LAMBDA ws : Len(ws) = n)

\* 100 Scale(n) times the score, for each bag of one word count.
PreScores(bucket) ==
    LET lex == [k \in DOMAIN bucket |-> LexRaw(bucket[k])]
        family == [k \in DOMAIN bucket |-> FamilyBest(bucket[k])]
        pair == [k \in DOMAIN bucket |-> PairRaw(bucket[k])]
    IN [k \in DOMAIN bucket |->
          100 * (26 * Percentile(lex, k) + 12 * Percentile(family, k) + 46 * Percentile(pair, k))
          + 16 * HintInfo(bucket[k]) * Scale(Len(bucket))]

-----------------------------------------------------------------------------
(* The order of the words: best_word_order                                 *)

Better(a, b) == \/ a.score > b.score
                \/ a.score = b.score /\ a.seen > b.seen

\* Dynamic programming over the set of words used and the last of them; of
\* equally good ways the first one found stays.
Extend(ws, path, next) ==
    LET last == path.order[Len(path.order)] IN
    [score |-> path.score + Edge[ws[last]][ws[next]],
     seen |-> path.seen + (IF <<ws[last], ws[next]>> \in Seen THEN 1 ELSE 0),
     order |-> Append(path.order, next)]

FirstBest(paths) ==     \* paths: position -> path
    paths[CHOOSE i \in DOMAIN paths :
             /\ \A j \in DOMAIN paths : ~Better(paths[j], paths[i])
             /\ \A j \in DOMAIN paths : j < i => Better(paths[i], paths[j])]

\* Greedy: the best next word each time.
GreedyWordOrder(ws) ==
    LET path[k \in DOMAIN ws] ==
          IF k = 1 THEN [score |-> 0, seen |-> 0, order |-> <<1>>]
          ELSE FirstBest([next \in DOMAIN ws \ Range(path[k - 1].order) |->
                             Extend(ws, path[k - 1], next)])
    IN path[Len(ws)]

BestWordOrder(ws) ==
    LET best[used \in SUBSET DOMAIN ws, last \in DOMAIN ws] ==
          IF used = {last} THEN [score |-> 0, seen |-> 0, order |-> <<last>>]
          ELSE FirstBest([before \in used \ {last} |->
                             Extend(ws, best[used \ {last}, before], last)])
    IN FirstBest([last \in DOMAIN ws |-> best[DOMAIN ws, last]])

-----------------------------------------------------------------------------
(* The export                                                              *)

\* Rows by PRE, then by the score of their words, then as they were found.
ByPre(bucket, pre) ==
    SortSeq([k \in DOMAIN bucket |-> k],
            LAMBDA j, k :
                \/ pre[j] > pre[k]
                \/ pre[j] = pre[k] /\ LexRaw(bucket[j]) > LexRaw(bucket[k])
                \/ pre[j] = pre[k] /\ LexRaw(bucket[j]) = LexRaw(bucket[k]) /\ j < k)

\* The percentile of an analysed row's order among them dominates its score.
Final(pre, orders, k, size, n) ==
    LET edges == AtLeast1(n - 1) IN
    Min({10000 * Scale(size) * Scale(Len(orders)) * edges,
         (36 * pre * Scale(Len(orders)) * edges) \div 100
         + 6400 * Percentile([j \in DOMAIN orders |-> orders[j].score], k) * Scale(size) * edges
         + 500 * orders[k].seen * Scale(size) * Scale(Len(orders))})

Record(ws, pre, orders, k, size) ==
    [words |-> ws, pre |-> pre, deep |-> k \in DOMAIN orders,
     order |-> IF k \in DOMAIN orders THEN orders[k].order ELSE <<>>,
     final |-> IF k \in DOMAIN orders THEN Final(pre, orders, k, size, Len(ws)) ELSE 0]

\* deep_analyze: the first rows of a word count get an order.
DeepOrders(bucket, byPre) ==
    [k \in 1 .. (IF request.analyze THEN Min({request.deep, Len(byPre)}) ELSE 0) |->
        BestWordOrder(bucket[byPre[k]])]

Ranking(bucket, pre, byPre, orders) ==
    [k \in DOMAIN byPre |-> Record(bucket[byPre[k]], pre[byPre[k]], orders, k, Len(bucket))]
RankedBy(bucket, pre, byPre) == Ranking(bucket, pre, byPre, DeepOrders(bucket, byPre))
Scored(bucket, pre) == RankedBy(bucket, pre, ByPre(bucket, pre))
Ranked(n) == Scored(Bucket(n), PreScores(Bucket(n)))

Rank ==
    /\ stage = "rank"
    /\ records' = [n \in 1 .. Size(request.target) |-> Ranked(n)]
    /\ stage' = "done"
    /\ UNCHANGED <<request, plan, words, streams, bags, truncated>>

GenNext ==
    \/ Refuse \/ AnswerDirectly \/ Constrain \/ Admit
    \/ Open \/ StreamEnds \/ Truncate \/ Accept \/ SearchEnds \/ Rank

GenSpec == GenInit /\ [][GenNext]_genVars

-----------------------------------------------------------------------------
(* Properties                                                              *)

\* Whatever route a request takes, every answer is an anagram of the whole
\* target, holds every required word, no excluded one and a requested clue, and
\* has the number of words the user asked for: the conversion of total limits
\* to residual ones (anagram_solver.py:142-149), the dropped clues and the
\* subtraction of required letters have to agree.
AnswersObeyTheRequest ==
    stage \in {"rank", "done"} => \A bag \in Range(bags) :
        LET ws == WordsOf(bag) IN
        /\ LettersOf(ws) = request.target
        /\ Range(request.require) \subseteq Range(ws)
        /\ Range(ws) \cap request.exclude = {}
        /\ request.hints # {} => Range(ws) \cap request.hints # {}
        /\ ~request.direct => Len(ws) \in request.min .. request.max

\* The bags of the plan by their definition, with neither pruning nor memory.
RECURSIVE BagsFrom(_, _, _)
BagsFrom(rem, start, left) ==
    IF left = 0 THEN IF Size(rem) = 0 THEN {<<>>} ELSE {}
    ELSE UNION {{<<i>> \o rest : rest \in BagsFrom(Minus(rem, words[i]), NextStart(i), left - 1)} :
                i \in {j \in Positions : j >= start /\ Fits(words[j], rem)}}
AllBags ==
    {bag \in UNION {BagsFrom(plan.remaining, 1, n) :
                       n \in plan.min .. Min({plan.max, Size(plan.remaining)})} :
        CluesMet(request, plan.hints, Range(WordsOf(bag)))}

\* The search gives no bag twice and never more than the cap; it says it was
\* truncated exactly when there is a bag it did not give.  Dead states, length
\* bounds and one stream for each clue lose nothing ("Budget unique bags across
\* strata; probe one extra bag to prove truncation", anagram_generate.py:580).
TruncationIsTheTruth ==
    (stage \in {"rank", "done"} /\ words # <<>>) =>
        /\ IsInjective(bags) /\ Range(bags) \subseteq AllBags
        /\ request.cap > 0 => Len(bags) <= request.cap
        /\ truncated <=> Range(bags) # AllBags

\* The order given to an analysed bag is the best of all its orders, by the
\* bigram score and then by the number of seen pairs ("Exact Held-Karp-style
\* dynamic programming", anagram_generate.py:745).
OrdersAreBest ==
    (stage = "done" /\ records # <<>>) => \A n \in DOMAIN records : \A k \in DOMAIN records[n] :
        LET r == records[n][k]
            Path(perm) == FoldLeft(LAMBDA path, i : Extend(r.words, path, i),
                             [score |-> 0, seen |-> 0, order |-> <<perm[1]>>], Tail(perm))
        IN r.deep => /\ Path(r.order).order = r.order
                     /\ \A perm \in {f \in [DOMAIN r.words -> DOMAIN r.words] : IsInjective(f)} :
                            ~Better(Path(perm), Path(r.order))
=============================================================================
