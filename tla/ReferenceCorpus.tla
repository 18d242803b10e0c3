---------------------------- MODULE ReferenceCorpus ----------------------------
(***************************************************************************)
(* Phrase evidence in the archive: the index of n-grams that               *)
(* archive/build_wikimedia_phrase_index.py builds from title dumps, its    *)
(* reader with a bounded cache (archive/anagram_performance.py) and the    *)
(* scores read off it (archive/anagram_rerank_core.py and                  *)
(* archive/anagram_corpus_cohesion.py).                                    *)
(*                                                                         *)
(* A gram and a title are sequences of words.  Scores are in               *)
(* ten-thousandths and divisions round down.                               *)
(***************************************************************************)
EXTENDS Integers, Sequences, FiniteSets, Functions, SequencesExt, FiniteSetsExt

CONSTANTS
    Dumps,          \* the titles of each project's dump, projects in order
    MinWords, MaxWords, MaxNgram, FlushUnique,
    CacheLimit,     \* _count_cache_limit
    Frequency10(_), \* count -> 100 * min(1, log10(count + 1) / 5)
    MaxBuilds,      \* bound: builds started
    Orders          \* the orders a run asks the evidence of

ASSUME CorpusShape ==
    /\ Dumps # <<>> /\ MinWords >= 2 /\ MaxWords >= MinWords /\ MaxNgram >= 2
    /\ FlushUnique \in Nat \ {0} /\ CacheLimit \in Nat /\ MaxBuilds \in Nat

VARIABLES
    builder,    \* the running build, see NoBuild
    cached,     \* project -> "absent", "empty", "partial" or "whole": the dump file
    ngrams,     \* the committed table: gram -> count
    finished,   \* did the last build complete, was it a rebuild, what did it miss?
    reader,     \* the run that reads the index, see NoReader
    builds

corpusVars == <<builder, cached, ngrams, finished, reader, builds>>

\* missed are the projects whose dump was an empty file.
NoBuild == [stage |-> "none", project |-> 0, title |-> 0, counter |-> <<>>, rebuild |-> FALSE,
            refresh |-> FALSE, missed |-> {}]
Unfinished == [how |-> "never", missed |-> {}]

\* counts is its cache, least recently used first; the rest its last answer.
NoReader == [open |-> FALSE, maxN |-> 0, counts |-> <<>>, words |-> <<>>, given |-> <<>>,
             cohesion |-> 0, score |-> 0]

CorpusInit ==
    /\ builder = NoBuild
    /\ cached = [p \in DOMAIN Dumps |-> "absent"]
    /\ ngrams = <<>> /\ finished = Unfinished /\ builds = 0
    /\ reader = NoReader

-----------------------------------------------------------------------------
(* Building the index                                                      *)

Grams(words, n) == [i \in 1 .. Max({0, Len(words) - n + 1}) |-> SubSeq(words, i, i + n - 1)]

\* emit_title: the title itself and its shorter grams up to MaxNgram words.
EmitWholeTwice(title) ==
    <<title>> \o FlattenSeq([n \in 1 .. Min({MaxNgram, Len(title)}) - 1 |-> Grams(title, n + 1)])
EmitTitle(title) ==
    IF Len(title) < 2 THEN <<>>
    ELSE <<title>> \o FlattenSeq([n \in 1 .. Min({MaxNgram, Len(title) - 1}) - 1 |->
                                     Grams(title, n + 1)])

Accepted(title) == Len(title) \in MinWords .. MaxWords

Tally(table, gram) == IF gram \in DOMAIN table THEN table[gram] ELSE 0
Counted(table, grams) ==
    [g \in DOMAIN table \cup Range(grams) |->
        Tally(table, g) + Len(SelectSeq(grams, LAMBDA h : h = g))]
Merged(table, counter) ==
    [g \in DOMAIN table \cup DOMAIN counter |-> Tally(table, g) + Tally(counter, g)]

\* --rebuild empties the table only once every dump is there.
StartBuild(rebuild, refresh) ==
    /\ builder.stage = "none" /\ ~reader.open /\ builds < MaxBuilds
    /\ builds' = builds + 1
    /\ builder' = [NoBuild EXCEPT !.stage = "fetch", !.project = 1, !.rebuild = rebuild,
                                   !.refresh = refresh]
    /\ UNCHANGED <<cached, ngrams, finished, reader>>

\* With --refresh a cached dump is deleted when its turn comes.
Unlink ==
    /\ builder.stage = "fetch" /\ builder.project <= Len(Dumps)
    /\ builder.refresh /\ cached[builder.project] # "absent"
    /\ cached' = [cached EXCEPT ![builder.project] = "absent"]
    /\ UNCHANGED <<builder, ngrams, finished, reader, builds>>

\* download: the file is opened and written in place, so a build that stops
\* leaves an empty file or a part of the dump; one that is there is used as it is.
Fetch ==
    /\ builder.stage = "fetch"
    /\ IF builder.project > Len(Dumps)
       THEN /\ builder' = [builder EXCEPT !.stage = "init", !.refresh = FALSE]
            /\ UNCHANGED cached
       ELSE IF cached[builder.project] = "absent"
       THEN /\ cached' = [cached EXCEPT ![builder.project] = "empty"]
            /\ builder' = [builder EXCEPT !.stage = "download"]
       ELSE /\ ~builder.refresh
            /\ builder' = [builder EXCEPT !.project = @ + 1]
            /\ UNCHANGED cached
    /\ UNCHANGED <<ngrams, finished, reader, builds>>

WriteChunk ==
    /\ builder.stage = "download" /\ cached[builder.project] \in {"empty", "partial"}
    /\ \E grown \in {"partial", "whole"} :
          /\ grown # cached[builder.project]
          /\ cached' = [cached EXCEPT ![builder.project] = grown]
    /\ UNCHANGED <<builder, ngrams, finished, reader, builds>>

\* An empty chunk ends the loop; what came is not compared with Content-Length.
EndDownload ==
    /\ builder.stage = "download"
    /\ builder' = [builder EXCEPT !.stage = "fetch", !.project = @ + 1]
    /\ UNCHANGED <<cached, ngrams, finished, reader, builds>>

Emptied == IF builder.rebuild THEN <<>> ELSE ngrams
InitDb ==
    /\ builder.stage = "init"
    /\ ngrams' = Emptied
    /\ finished' = Unfinished
    /\ builder' = [builder EXCEPT !.stage = "ingest", !.project = 1, !.title = 1]
    /\ UNCHANGED <<cached, reader, builds>>

\* ingest_source, one title; a flush commits and empties the counter.
Cleared(counter) == <<>>
Ingest ==
    /\ builder.stage = "ingest" /\ builder.project <= Len(Dumps)
    /\ builder.title <= Len(Dumps[builder.project])
    /\ \/ cached[builder.project] = "whole"
       \/ cached[builder.project] = "partial" /\ builder.title < Len(Dumps[builder.project])
    /\ LET title == Dumps[builder.project][builder.title]
           counter == IF Accepted(title) THEN Counted(builder.counter, EmitTitle(title))
                      ELSE builder.counter
           full == Accepted(title) /\ Cardinality(DOMAIN counter) >= FlushUnique
       IN /\ ngrams' = IF full THEN Merged(ngrams, counter) ELSE ngrams
          /\ builder' = [builder EXCEPT !.title = @ + 1,
                                        !.counter = IF full THEN Cleared(counter) ELSE counter]
    /\ UNCHANGED <<cached, finished, reader, builds>>

\* An empty file is to gzip a stream without titles, not a truncated one.
EndSource ==
    /\ builder.stage = "ingest" /\ builder.project <= Len(Dumps)
    /\ LET empty == cached[builder.project] = "empty" IN
       /\ empty \/ builder.title > Len(Dumps[builder.project])
       /\ ngrams' = Merged(ngrams, builder.counter)
       /\ builder' = [builder EXCEPT
              !.project = @ + 1, !.title = 1, !.counter = <<>>,
              !.missed = IF empty THEN @ \cup {builder.project} ELSE @]
    /\ UNCHANGED <<cached, finished, reader, builds>>

\* gzip tells a truncated dump by its missing end: the build fails, keeping
\* what it committed.
TruncatedDump ==
    /\ builder.stage = "ingest" /\ builder.project <= Len(Dumps)
    /\ cached[builder.project] = "partial"
    /\ builder.title <= Len(Dumps[builder.project])
    /\ builder' = NoBuild
    /\ UNCHANGED <<cached, ngrams, finished, reader, builds>>

Complete ==
    /\ builder.stage = "ingest" /\ builder.project > Len(Dumps)
    /\ finished' = [how |-> IF builder.rebuild THEN "rebuilt" ELSE "added",
                    missed |-> builder.missed]
    /\ builder' = NoBuild
    /\ UNCHANGED <<cached, ngrams, reader, builds>>

\* The process stops at any point; what is committed stays.
BuildCrash ==
    /\ builder.stage # "none"
    /\ builder' = NoBuild
    /\ UNCHANGED <<cached, ngrams, finished, reader, builds>>

-----------------------------------------------------------------------------
(* Reading it: CachedPhraseIndex.counts                                    *)

Unique(seq) == FoldLeft(LAMBDA kept, x : IF x \in Range(kept) THEN kept ELSE Append(kept, x), <<>>, seq)

\* Move an entry to the recent end, or put it there and drop the oldest ones.
Touch(cache, entry) == Append(SelectSeq(cache, LAMBDA e : e.gram # entry.gram), entry)
RememberCount(cache, entry) ==
    LET grown == Touch(cache, entry) IN
    SubSeq(grown, 1 + Max({0, Len(grown) - CacheLimit}), Len(grown))

Held(cache, gram) == \E i \in DOMAIN cache : cache[i].gram = gram
HeldCount(cache, gram) == (CHOOSE e \in Range(cache) : e.gram = gram).count

\* 0 stands for a gram the table lacks; the database is asked for what the
\* cache does not hold, after the held ones have been touched.
CountsGiven(grams) ==
    [g \in Range(grams) |-> IF Held(reader.counts, g) THEN HeldCount(reader.counts, g) ELSE Tally(ngrams, g)]
CountsRemembered(grams) ==
    LET hits == SelectSeq(Unique(grams), LAMBDA g : Held(reader.counts, g))
        misses == SelectSeq(Unique(grams), LAMBDA g : ~Held(reader.counts, g))
        touched == FoldLeft(LAMBDA c, g : Touch(c, [gram |-> g, count |-> HeldCount(reader.counts, g)]),
                            reader.counts, hits)
    IN FoldLeft(LAMBDA c, g : RememberCount(c, [gram |-> g, count |-> Tally(ngrams, g)]),
                touched, misses)

-----------------------------------------------------------------------------
(* The scores                                                              *)

\* The whole order and its shorter grams.
Asked(words, maxN) ==
    <<words>> \o FlattenSeq([n \in 1 .. Max({0, Min({maxN, Len(words)}) - 1}) |->
                                Grams(words, n + 1)])

Present(grams, given) == SelectSeq(grams, LAMBDA g : given[g] > 0)
Total10(seq) == FoldSeq(+, 0, seq)

\* PhraseIndex.score: the whole order, else its longer grams, else its pairs.
BaseScore(words, given, maxN) ==
    LET whole == IF given[words] > 0 THEN Min({10000, 7200 + 28 * Frequency10(given[words])}) ELSE 0
        longer == FlattenSeq([n \in 1 .. Max({0, Min({maxN, Len(words)}) - 2}) |->
                                 Grams(words, n + 2)])
        strength == Total10([k \in DOMAIN Present(longer, given) |->
                        5500 + 45 * Frequency10(given[Present(longer, given)[k]])])
        pairs == IF Min({maxN, Len(words)}) >= 2 THEN Grams(words, 2) ELSE <<>>
    IN IF words = <<>> THEN 0
       ELSE Max({whole,
                 IF longer = <<>> THEN 0 ELSE (76 * (strength \div Len(longer))) \div 100,
                 IF pairs = <<>> THEN 0 ELSE (3400 * Len(Present(pairs, given))) \div Len(pairs)})

\* A segmentation of the first words of an order into attested spans and single
\* words.
NoSpans == [utility |-> 0, covered |-> 0, segments |-> 0, longest |-> 0, frequency |-> 0]
WithSpan(path, length, count) ==
    [utility |-> path.utility + 10000 * length - 5500 + 12 * Frequency10(count),
     covered |-> path.covered + length, segments |-> path.segments + 1,
     longest |-> Max({path.longest, length}), frequency |-> path.frequency + Frequency10(count)]

\* _path_key, without the texts: they decide only between equal scores.
BetterPath(p, q) ==
    LET Key(r) == <<r.utility, r.covered, -r.segments, r.longest, r.frequency>> IN
    \E i \in 1 .. 5 : Key(p)[i] > Key(q)[i] /\ \A j \in 1 .. i - 1 : Key(p)[j] = Key(q)[j]

\* The best path that the spans of two words or more lead to.
LongestFirst(words, given, maxN) ==
    LET best[e \in 0 .. Len(words)] ==
            LET lengths == {l \in 2 .. Min({maxN, e}) : given[SubSeq(words, e - l + 1, e)] > 0}
            IN IF e = 0 THEN NoSpans
               ELSE IF lengths = {} THEN best[e - 1]
               ELSE WithSpan(best[e - Max(lengths)], Max(lengths),
                             given[SubSeq(words, e - Max(lengths) + 1, e)])
    IN best[Len(words)]
BestSpans(words, given, maxN) ==
    LET best[e \in 0 .. Len(words)] ==
            IF e = 0 THEN NoSpans
            ELSE LET lengths == {l \in 2 .. Min({maxN, e}) :
                                    given[SubSeq(words, e - l + 1, e)] > 0}
                     paths == {best[e - 1]} \cup
                              {WithSpan(best[e - l], l, given[SubSeq(words, e - l + 1, e)]) :
                                  l \in lengths}
                 IN CHOOSE p \in paths : \A q \in paths : ~BetterPath(q, p)
    IN best[Len(words)]

CohesionScore(path, n) ==
    LET shape == 5200 + (3000 * path.longest) \div n + (18 * path.frequency) \div path.segments
        splices == IF path.segments > 1 THEN path.segments - 1 ELSE 0
    IN IF path.segments = 0 THEN 0
       ELSE (path.covered * shape * (100 * Max({1, n - 1}) - 22 * splices))
            \div (n * 100 * Max({1, n - 1}))

Cohesion(words, given, maxN) ==
    IF Len(words) < 2 \/ maxN < 2 THEN 0
    ELSE CohesionScore(BestSpans(words, given, maxN), Len(words))

Blend(base, cohesion) == Min({10000, Max({base, (92 * cohesion) \div 100})})

\* A run opens the index, asks for orders and closes it; the run of a user who
\* is building the index at the same time is not modelled.
OpenIndex ==
    /\ builder.stage = "none" /\ ~reader.open
    /\ reader' = [NoReader EXCEPT !.open = TRUE,
                                  !.maxN = Max({0} \cup {Len(g) : g \in DOMAIN ngrams})]
    /\ UNCHANGED <<builder, cached, ngrams, finished, builds>>

ScoreOrder(words) ==
    /\ reader.open
    /\ LET asked == Asked(words, reader.maxN)
           given == CountsGiven(asked)
           base == BaseScore(words, given, reader.maxN)
           cohesion == Cohesion(words, given, reader.maxN)
       IN reader' = [reader EXCEPT !.counts = CountsRemembered(asked), !.words = words,
                                   !.given = given, !.cohesion = cohesion,
                                   !.score = Blend(base, cohesion)]
    /\ UNCHANGED <<builder, cached, ngrams, finished, builds>>

CloseIndex ==
    /\ reader.open
    /\ reader' = NoReader
    /\ UNCHANGED <<builder, cached, ngrams, finished, builds>>

CorpusNext ==
    \/ \E rebuild, refresh \in BOOLEAN : StartBuild(rebuild, refresh)
    \/ Unlink \/ Fetch \/ WriteChunk \/ EndDownload \/ InitDb \/ Ingest \/ EndSource \/ TruncatedDump
    \/ Complete \/ BuildCrash
    \/ OpenIndex \/ CloseIndex
    \/ \E words \in Orders : ScoreOrder(words)

-----------------------------------------------------------------------------
(* Properties                                                              *)

Occurrences(gram, title) ==
    IF ~Accepted(title) THEN 0
    ELSE IF title = gram THEN 1
    ELSE IF Len(gram) \notin 2 .. MaxNgram THEN 0
    ELSE Cardinality({i \in 1 .. Len(title) :
            /\ Len(gram) < Len(title) /\ i + Len(gram) - 1 <= Len(title)
            /\ SubSeq(title, i, i + Len(gram) - 1) = gram})
AllGrams == UNION {Range(Grams(title, n)) :
                       title \in UNION {Range(dump) : dump \in Range(Dumps)}, n \in 1 .. MaxWords}
TrueCount == [g \in AllGrams, projects \in SUBSET DOMAIN Dumps |->
    MapThenSumSet(LAMBDA p : Total10([t \in DOMAIN Dumps[p] |-> Occurrences(g, Dumps[p][t])]),
                  projects)]

\* A completed rebuild counts every gram of every accepted title exactly, and a
\* completed build without one at least that often, whatever crashed before it
\* and whatever it left, but for the projects whose dump it found as an empty
\* file.  Any other part of a dump that is taken for the whole
\* (build_wikimedia_phrase_index.py:275) fails the build instead, and committed
\* flushes (:158) of a crashed build are only added to by a build that was not
\* asked to start over.
CompletedBuildsCount ==
    finished.how # "never" =>
        \A g \in AllGrams :
            LET true == TrueCount[g, DOMAIN Dumps \ finished.missed] IN
            IF finished.how = "rebuilt" THEN Tally(ngrams, g) = true
            ELSE Tally(ngrams, g) >= true

\* What the bounded cache answers is what the table holds, and the cohesion of
\* an order is that of the best of all its segmentations into attested spans
\* ("chooses a non-overlapping explanation", anagram_corpus_cohesion.py:94):
\* the evidence an order gets depends neither on the orders scored before it
\* nor on the order in which segmentations are tried.
EvidenceIsTheBest ==
    reader.words # <<>> =>
        LET words == reader.words
            Cuts == SUBSET (1 .. Len(words) - 1)
            Path(cuts) ==
                FoldLeft(LAMBDA p, e :
                    LET start == Max({0} \cup {c \in cuts : c < e}) IN
                    IF e \notin cuts \cup {Len(words)} \/ e - start < 2 THEN p
                    ELSE WithSpan(p, e - start, Tally(ngrams, SubSeq(words, start + 1, e))),
                    NoSpans, [i \in DOMAIN words |-> i])
            Attested(cuts) ==
                \A e \in cuts \cup {Len(words)} :
                    LET start == Max({0} \cup {c \in cuts : c < e}) IN
                    e - start >= 2 => /\ e - start <= reader.maxN
                                      /\ Tally(ngrams, SubSeq(words, start + 1, e)) > 0
            paths == {Path(cuts) : cuts \in {c \in Cuts : Attested(c)}}
            best == CHOOSE p \in paths : \A q \in paths : ~BetterPath(q, p)
        IN /\ \A g \in DOMAIN reader.given : reader.given[g] = Tally(ngrams, g)
           /\ Len(reader.counts) <= CacheLimit
           /\ reader.maxN >= 2 =>
                reader.cohesion = IF Len(words) < 2 THEN 0 ELSE CohesionScore(best, Len(words))
=============================================================================
