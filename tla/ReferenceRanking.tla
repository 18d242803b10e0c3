---------------------------- MODULE ReferenceRanking ----------------------------
(***************************************************************************)
(* One ranking of the archived reranker, from the rows of an export to the *)
(* ranked export: archive/anagram_rerank.py with its scoring layers        *)
(* archive/anagram_rerank_topk_impl.py and archive/anagram_rerank_core.py. *)
(*                                                                         *)
(* Rows arrive in any order with their words in any order; they are        *)
(* prepared, the best of each word count are analysed in the calling       *)
(* thread or in batches that end in any order, and phrase evidence chooses *)
(* among the retained orders of some of the analysed rows.                 *)
(*                                                                         *)
(* Row features are hundredths, so PRE and FINAL are in ten-thousandths    *)
(* of 100.                                                                 *)
(***************************************************************************)
EXTENDS ReferenceOrdering

CONSTANTS
    Recognized,             \* words the lexicon knows
    FamilyWord,             \* word -> its morphology family
    NormalizePotential(_, _),   \* sum of positive scores, edges -> 0 .. 100
    Collocation,            \* word -> word -> 0 .. 100, positive where a pair is attested
    Phrase(_),              \* order -> score of the phrase index, ten-thousandths
    PhraseCount(_),         \* order -> 100 * log10(count + 1) / 5 of the whole phrase
    Arrivals,               \* sequences of rows [words, lex, fam, hint]
    Settings                \* see SettingsShape

SettingsShape(s) ==
    /\ {s.perGroup, s.batch, s.retained, s.top, s.beam, s.exactMax} \subseteq Nat \ {0}
    /\ s.all \in BOOLEAN /\ s.serial \in BOOLEAN /\ s.mode \in {"auto", "exact", "beam"}
    /\ s.bonus \in Nat          \* phrase_bonus_max, ten-thousandths of 100
    /\ s.bigrams \in BOOLEAN /\ s.index \in BOOLEAN

ASSUME RankingShape == \A s \in Settings : SettingsShape(s)

VARIABLES
    settings,
    phase,      \* "parsed", "prepared", "analysing", "analysed", "widened", "rescored", "done"
    rows,
    batches,    \* batches of row numbers still to be analysed
    table,      \* row number -> its retained orders
    listed      \* the export: row numbers by word count

rankVars == <<settings, phase, rows, batches, table, listed>>

Undone == [coverage |-> 0, potential |-> 0, family |-> <<>>, pre |-> 0, deep |-> FALSE,
           best |-> <<>>, grammar |-> 0, norm |-> 0, valency |-> 50,
           base |-> 0, colloc |-> 0, phrase |-> 0, bonus |-> 0, final |-> 0]

RankInit ==
    /\ settings \in Settings
    /\ \E arrival \in Arrivals : rows = [i \in DOMAIN arrival |-> arrival[i] @@ Undone]
    /\ phase = "parsed" /\ batches = {} /\ table = <<>> /\ listed = <<>>

-----------------------------------------------------------------------------
(* Preparation: prepare_rows                                               *)

Percent(part, whole) == (100 * part) \div Max({1, whole})

Potential(ws) ==
    LET n == Len(ws)
        pairs == [k \in 1 .. n * n |->
                    IF (k - 1) \div n = (k - 1) % n THEN 0
                    ELSE PairGrammar[ws[((k - 1) \div n) + 1]][ws[((k - 1) % n) + 1]]]
        positive == SortSeq(SelectSeq(pairs, LAMBDA p : p > 0), >)
    IN IF n <= 1 THEN 0
       ELSE NormalizePotential(Add(SubSeq(positive, 1, Min({n - 1, Len(positive)}))), n - 1)

Family(ws) == SortSeq([i \in DOMAIN ws |-> FamilyWord[ws[i]]], <)

ScorePre(r) ==
    18 * r.lex + 28 * r.fam + 16 * r.hint + 28 * r.potential + 10 * r.coverage

Prepared(r) ==
    LET ws == Canonical(r.words)
        known == Len(SelectSeq(ws, LAMBDA w : w \in Recognized))
        s == [r EXCEPT !.words = ws, !.coverage = Percent(known, Len(ws)),
                       !.potential = Potential(ws), !.family = Family(ws)]
    IN [s EXCEPT !.pre = ScorePre(s)]

RowBefore(r, s) ==
    \/ Len(r.words) < Len(s.words)
    \/ Len(r.words) = Len(s.words) /\ AlphabeticallyBefore(r.words, s.words)

PreparedAsTheyCome(rs) == [i \in DOMAIN rs |-> Prepared(rs[i])]
PreparedRows(rs) == Best([i \in DOMAIN rs |-> Prepared(rs[i])], Len(rs), RowBefore)

Prepare ==
    /\ phase = "parsed"
    /\ rows' = PreparedRows(rows)
    /\ phase' = "prepared"
    /\ UNCHANGED <<settings, batches, table, listed>>

-----------------------------------------------------------------------------
(* The shortlist and its analysis: choose_deep, deep_analyze               *)

InBucket(rs, n) == SelectSeq([i \in DOMAIN rs |-> i], LAMBDA i : Len(rs[i].words) = n)
WordCounts(rs) == {Len(rs[i].words) : i \in DOMAIN rs}

\* The best of a word count by PRE, and every sibling of theirs.
Shortlist(rs) ==
    LET Chosen(n) == Range(Best(InBucket(rs, n),
                                IF settings.all THEN Len(rs) ELSE settings.perGroup,
                                LAMBDA i, j : AlphabeticallyBefore(
                                    <<rs[j].pre, rs[j].fam, rs[j].lex>>,
                                    <<rs[i].pre, rs[i].fam, rs[i].lex>>)))
        chosen == UNION {Chosen(n) : n \in WordCounts(rs)}
    IN {i \in DOMAIN rs : \E j \in chosen : /\ Len(rs[i].words) = Len(rs[j].words)
                                            /\ rs[i].family = rs[j].family}

\* chunked: a serial analysis takes one row at a time, in order.
Chunks(selected) ==
    LET sorted == SortSeq(SetToSeq(selected), <)
        size == IF settings.serial THEN 1 ELSE settings.batch
    IN {SubSeq(sorted, k, Min({k + size - 1, Len(sorted)})) :
            k \in {k \in DOMAIN sorted : (k - 1) % size = 0}}

StartAnalysis ==
    /\ phase = "prepared"
    /\ batches' = Chunks(Shortlist(rows))
    /\ table' = <<>>
    /\ phase' = "analysing"
    /\ UNCHANGED <<settings, rows, listed>>

Options == [mode |-> settings.mode, beam |-> settings.beam, exactMax |-> settings.exactMax]

BaseFinal(r, c) ==
    10 * r.lex + 16 * r.fam + 12 * r.hint + 22 * c.grammar + 28 * c.structure.norm
    + 8 * c.structure.valency + 4 * r.coverage

WithOrder(r, c) ==
    [r EXCEPT !.best = c.order, !.grammar = c.grammar, !.norm = c.structure.norm,
              !.valency = c.structure.valency]

\* _apply_deep_result
Analysed(r, c) ==
    [WithOrder(r, c) EXCEPT !.deep = TRUE, !.base = BaseFinal(r, c), !.final = BaseFinal(r, c)]

\* The worker returns the widened pool of each row of its batch.
Pool(r) == RankOrders(r.words, Options, RawPoolSize(settings.retained))

EndBatch(b) ==
    /\ phase = "analysing" /\ b \in batches
    /\ settings.serial => \A c \in batches : b[1] <= c[1]
    /\ rows' = [i \in DOMAIN rows |->
                  IF i \in Range(b) THEN Analysed(rows[i], Pool(rows[i])[1]) ELSE rows[i]]
    /\ table' = [i \in DOMAIN table \cup Range(b) |->
                   IF i \in Range(b) THEN Pool(rows[i]) ELSE table[i]]
    /\ batches' = batches \ {b}
    /\ UNCHANGED <<settings, phase, listed>>

\* _diversify_order_side_tables
Diversify ==
    /\ phase = "analysing" /\ batches = {}
    /\ table' = [i \in DOMAIN table |-> Retain(table[i], settings.retained)]
    /\ phase' = "analysed"
    /\ UNCHANGED <<settings, rows, batches, listed>>

-----------------------------------------------------------------------------
(* Phrase evidence: apply_phrase_rescore                                   *)

\* PositiveBigramModel.score
CollocationScore(order) ==
    LET edges == [i \in 1 .. Len(order) - 1 |-> Collocation[order[i]][order[i + 1]]]
        seen == Len(SelectSeq(edges, LAMBDA e : e > 0))
    IN IF ~settings.bigrams \/ Len(order) <= 1 THEN 0
       ELSE (72 * Add(edges)) \div (Len(order) - 1) + (2800 * seen) \div (Len(order) - 1)
PhraseScore(order) == IF settings.index THEN Phrase(order) ELSE 0

\* _corpus_probe_scores: pairs of the winner, whole phrases of every order.
Probe(r) ==
    LET hits == IF ~settings.index THEN {}
                ELSE {Min({10000, 7200 + 28 * PhraseCount(c.order)}) :
                        c \in {c \in Range(Resolved(r)) : PhraseCount(c.order) > 0}}
    IN Max(hits \cup {(55 * CollocationScore(First(r).order)) \div 100})

DeepBucket(rs, n) == SelectSeq(InBucket(rs, n), LAMBDA i : rs[i].deep)

\* _select_phrase_rescore_rows: quotas by FINAL, by PRE and by evidence; words
\* settle ties, and rows are in the order of their words.
Admitted(rs, tb, n) ==
    LET bucket == DeepBucket(rs, n)
        By(Key(_), among) ==
            Range(Best(among, settings.top,
                       LAMBDA i, j : AlphabeticallyBefore(Key(j), Key(i))))
        baseline == By(LAMBDA i : <<rs[i].final, rs[i].pre>>, bucket)
                    \cup By(LAMBDA i : <<rs[i].pre, rs[i].final>>, bucket)
        rest == SelectSeq(bucket, LAMBDA i : i \notin baseline /\ Probe(tb[i]) > 0)
    IN baseline \cup By(LAMBDA i : <<Probe(tb[i]), Max({rs[i].final, rs[i].pre})>>, rest)

Evidence(order) == Max({PhraseScore(order), (55 * CollocationScore(order)) \div 100})
Combined(r, c) ==
    Min({10000, BaseFinal(r, c) + (settings.bonus * Evidence(c.order)) \div 10000})

\* The best of a row's retained orders; without evidence for any of them the
\* row keeps its order and its score.
Chosen(r, cs) ==
    LET Key(c) == <<Combined(r, c), PhraseScore(c.order), CollocationScore(c.order),
                    One(c.order = r.best)>>
    IN CHOOSE c \in cs : \A d \in cs \ {c} :
          \/ AlphabeticallyBefore(Key(d), Key(c))
          \/ Key(c) = Key(d) /\ AlphabeticallyBefore(c.order, d.order)

NeverUnattested(cs) == FALSE
Unattested(cs) == \A c \in cs : PhraseScore(c.order) = 0 /\ CollocationScore(c.order) = 0

Rescored(r, cs) ==
    IF Unattested(cs)
    THEN [r EXCEPT !.base = r.final, !.colloc = 0, !.phrase = 0, !.bonus = 0]
    ELSE LET c == Chosen(r, cs) IN
         [WithOrder(r, c) EXCEPT
            !.base = BaseFinal(r, c), !.colloc = CollocationScore(c.order),
            !.phrase = PhraseScore(c.order), !.bonus = Combined(r, c) - BaseFinal(r, c),
            !.final = Combined(r, c)]

RescoredRows(rs, tb) ==
    LET admitted == UNION {Admitted(rs, tb, n) : n \in WordCounts(rs)} IN
    [i \in DOMAIN rs |->
        IF i \in admitted THEN Rescored(rs[i], Range(Resolved(tb[i]))) ELSE rs[i]]

\* The side table is released afterwards.
Rescore ==
    /\ phase = "analysed"
    /\ rows' = RescoredRows(rows, table)
    /\ table' = <<>>
    /\ phase' = "rescored"
    /\ UNCHANGED <<settings, batches, listed>>

-----------------------------------------------------------------------------
(* The export: rank_buckets and write_export                               *)

Listing(rs) ==
    LET Shown(i) == <<One(rs[i].deep), IF rs[i].deep THEN rs[i].final ELSE rs[i].pre, rs[i].pre>>
    IN [n \in WordCounts(rs) |->
            Best(InBucket(rs, n), Len(rs), LAMBDA i, j : AlphabeticallyBefore(Shown(j), Shown(i)))]

Export ==
    /\ phase = "rescored"
    /\ listed' = Listing(rows)
    /\ phase' = "done"
    /\ UNCHANGED <<settings, rows, batches, table>>

RankNext ==
    \/ Prepare \/ StartAnalysis \/ Diversify \/ Rescore \/ Export
    \/ \E b \in batches : EndBatch(b)

-----------------------------------------------------------------------------
(* Properties                                                              *)

\* The best first orders of the k-best search are the best of all orders, as
\* many as it keeps for one state, and none is given twice: pruning each state
\* by itself never loses them ("Prune independently per DP state, which keeps
\* more structural diversity than a single global beam",
\* anagram_rerank_core.py:2262).
KBestKeepsTheBest ==
    phase = "prepared" => \A i \in DOMAIN rows :
        LET ws == rows[i].words
            width == settings.beam
            found == KBestLocalOrders(ws, width)
            Raw(p) == LocalRaw(Realized(ws, p))
            sure == Min({width, PerState(Len(ws), width), Len(found)})
        IN /\ IsInjective(found)
           /\ Len(found) <= width
           /\ \A k \in 1 .. sure :
                Cardinality({p \in Range(OrdersOf(Len(ws))) : Raw(p) > Raw(found[k])}) < k

\* What is retained of a widened pool is its quality core and, one by one, the
\* candidates of the greatest utility against all those chosen before: the kept
\* similarities ("caches each candidate's current maximum similarity",
\* anagram_order_diversity.py:355) are never stale, the winner stays first and
\* the orders stay in the order of their scores.
RetainedOrdersAreDiverse ==
    phase = "analysed" => \A i \in DOMAIN table :
        LET r == table[i]
            kept == Resolved(r)
            core == Min({QualityCore, Len(kept)})
            Near(c, chosen) == Max({Similarity(c, d) : d \in chosen})
            Ahead(c, d, chosen) ==
                LET Key(x) == <<Utility(x, Near(x, chosen)), x.objective>> IN
                \/ AlphabeticallyBefore(Key(d), Key(c))
                \/ Key(c) = Key(d) /\ AlphabeticallyBefore(c.order, d.order)
            greedy[k \in core .. Len(kept)] ==
                IF k = core THEN Range(SubSeq(r.pool, 1, core))
                ELSE LET left == Range(r.pool) \ greedy[k - 1] IN
                     greedy[k - 1] \cup {CHOOSE c \in left : \A d \in left \ {c} :
                                            Ahead(c, d, greedy[k - 1])}
        IN /\ Len(kept) = Min({r.topK, Len(r.pool)})
           /\ r.deferred => Range(kept) = greedy[Len(kept)]
           /\ kept[1] = First(r)
           /\ \A j, k \in DOMAIN kept : j < k => Stronger(kept[j], kept[k])

\* The ranking is a function of the set of bags and of the settings: the order
\* in which the generator wrote rows and words, the backend, the size of the
\* batches and the order in which they end leave no trace ("independent of
\* generator emission order", anagram_rerank_topk_impl.py:8).
RankingIsCanonical ==
    phase = "done" =>
        LET fresh == {[words |-> Canonical(rows[i].words), lex |-> rows[i].lex,
                       fam |-> rows[i].fam, hint |-> rows[i].hint] @@ Undone : i \in DOMAIN rows}
            first == [k \in DOMAIN rows |->
                        Prepared(CHOOSE r \in fresh :
                                    Cardinality({s \in fresh : RowBefore(s, r)}) = k - 1)]
            deep == Shortlist(first)
            retained == [i \in deep |-> Retain(Pool(first[i]), settings.retained)]
            analysed == [i \in DOMAIN first |->
                           IF i \in deep THEN Analysed(first[i], First(retained[i])) ELSE first[i]]
        IN /\ rows = RescoredRows(analysed, retained)
           /\ listed = Listing(rows)

\* Evidence only ever helps: a rescored row never falls below its grammatical
\* score, a row without evidence for any retained order keeps order and score,
\* and the order chosen is a retained one whose grammar and bonus add up to
\* FINAL ("Corpus absence remains neutral", anagram_rerank_topk_impl.py:588).
EvidenceNeverLowers ==
    [][phase = "analysed" /\ phase' = "rescored" =>
        \A i \in DOMAIN rows :
            LET r == rows[i]  s == rows'[i] IN
            /\ s.final >= r.final
            /\ s.base + s.bonus = s.final
            /\ r.deep => \E c \in Range(Resolved(table[i])) :
                            s.best = c.order /\ s.base = BaseFinal(s, c)
            /\ (r.deep /\ \A c \in Range(Resolved(table[i])) :
                             PhraseScore(c.order) = 0 /\ CollocationScore(c.order) = 0)
                    => s.best = r.best /\ s.final = r.final
      ]_rankVars
=============================================================================
