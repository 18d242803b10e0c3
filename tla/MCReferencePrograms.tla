-------------------------- MODULE MCReferencePrograms --------------------------
(***************************************************************************)
(* The programs of the archive over small instances.  Each is a process of *)
(* its own and shares no memory with the others, so a behaviour runs one   *)
(* of them and leaves the variables of the others alone.                   *)
(***************************************************************************)
EXTENDS ReferenceGeneration, ReferenceRanking, ReferenceCorpus, ReferenceFacade,
        ReferenceRegistry, ReferenceBenchmark, ReferenceGrammar

VARIABLE program

NoRequest == CHOOSE r \in Requests : TRUE
NoSettings == CHOOSE s \in Settings : TRUE

\* A program that does not run.
GenIdle ==
    /\ request = NoRequest /\ stage = "none" /\ plan = NoPlan /\ words = <<>>
    /\ streams = <<>> /\ bags = <<>> /\ truncated = FALSE /\ records = <<>>
RankIdle ==
    /\ settings = NoSettings /\ phase = "none" /\ rows = <<>>
    /\ batches = {} /\ table = <<>> /\ listed = <<>>
RegistryIdle == registry = (CHOOSE d \in Registries : Valid(d)) /\ beside = "none" /\ editor = NoEditor
BenchIdle ==
    /\ cases = <<>> /\ bonus = 0 /\ doing = "none" /\ next = 0
    /\ orderResults = <<>> /\ phraseResults = <<>> /\ refineResults = <<>>
    /\ heldOut = <<>> /\ gate = "none"

GrammarIdle ==
    /\ text = <<>> /\ step = "none" /\ from = <<>> /\ upto = <<>> /\ tails = <<>>
    /\ result = NoResult

ProgramsInit ==
    /\ program \in {"generate", "rank", "corpus", "facade", "registry", "benchmark", "grammar"}
    /\ IF program = "generate" THEN GenInit ELSE GenIdle
    /\ IF program = "rank" THEN RankInit ELSE RankIdle
    /\ IF program = "registry" THEN RegistryInit ELSE RegistryIdle
    /\ IF program = "benchmark" THEN BenchInit ELSE BenchIdle
    /\ IF program = "grammar" THEN GrammarInit ELSE GrammarIdle
    /\ CorpusInit /\ FacadeInit

Generate ==
    /\ program = "generate" /\ GenNext
    /\ UNCHANGED <<program, rankVars, corpusVars, facadeVars, registryVars, benchVars, grammarVars>>
RankRows ==
    /\ program = "rank" /\ RankNext
    /\ UNCHANGED <<program, genVars, corpusVars, facadeVars, registryVars, benchVars, grammarVars>>
UseCorpus ==
    /\ program = "corpus" /\ CorpusNext
    /\ UNCHANGED <<program, genVars, rankVars, facadeVars, registryVars, benchVars, grammarVars>>
CallFacade ==
    /\ program = "facade" /\ FacadeNext
    /\ UNCHANGED <<program, genVars, rankVars, corpusVars, registryVars, benchVars, grammarVars>>
EditRegistry ==
    /\ program = "registry" /\ RegistryNext
    /\ UNCHANGED <<program, genVars, rankVars, corpusVars, facadeVars, benchVars, grammarVars>>
Measure ==
    /\ program = "benchmark" /\ BenchNext
    /\ UNCHANGED <<program, genVars, rankVars, corpusVars, facadeVars, registryVars, grammarVars>>
ScoreStructure ==
    /\ program = "grammar" /\ GrammarNext
    /\ UNCHANGED <<program, genVars, rankVars, corpusVars, facadeVars, registryVars, benchVars>>

ProgramsNext == Generate \/ RankRows \/ UseCorpus \/ CallFacade \/ EditRegistry \/ Measure
                \/ ScoreStructure

allVars == <<program, genVars, rankVars, corpusVars, facadeVars, registryVars, benchVars,
             grammarVars>>
ProgramsSpec == ProgramsInit /\ [][ProgramsNext]_allVars

-----------------------------------------------------------------------------
(* Generation: seven words over two letters, and an eleven-letter target   *)

MCLetters == {"a", "b"}
W(a, b) == [l \in MCLetters |-> IF l = "a" THEN a ELSE b]
MCSpelling == <<W(1, 0), W(2, 0), W(2, 1), W(1, 1), W(0, 1), W(1, 1), W(1, 2)>>
MCZipf == <<5, 3, 4, 4, 3, 4, 0>>
MCVariants == <<{}, {1}, {2, 4}, {}, {}, {5}, {5, 6}>>
MCEdge == [v \in 1..7 |-> [w \in 1..7 |-> ((3 * v + 5 * w * w) % 7) - 3]]
MCSeen == {<<v, w>> \in (1..7) \X (1..7) : (v * w + v) % 3 = 0}
MCLn == <<0, 69, 110, 139, 161, 179, 195, 208, 220, 230, 240, 248, 256, 264, 271>>

Request(t, q, x, h, m, z, c, flags) ==
    [target |-> t, require |-> q, exclude |-> x, hints |-> h, dictionary |-> 1..6,
     short |-> 1..6, min |-> m[1], max |-> m[2], minLength |-> 1, minZipf |-> z,
     cap |-> c, deep |-> 3, direct |-> "direct" \in flags, one |-> "one" \in flags,
     diverse |-> "diverse" \in flags, repeat |-> "repeat" \in flags,
     analyze |-> "analyze" \in flags]
MCRequests ==
    {Request(t, q, x, h, m, z, c, f) :
        t \in {W(3, 2), W(2, 2)}, q \in {<<>>, <<4>>, <<1, 7>>}, x \in {{}, {5}},
        h \in {{}, {1, 7}, {1, 4}}, m \in {<<1, 2>>, <<2, 4>>}, z \in {0, 4}, c \in {0, 1, 3},
        f \in {{"repeat", "analyze"}, {"repeat", "analyze", "diverse"},
               {"repeat", "direct", "diverse"}, {"one", "analyze"}, {"one", "direct"}}}
    \* Clues that fit where no bag has them: a state is dead without a clue, not with one.
    \cup {Request(W(4, 3), <<>>, {}, {1, 5}, <<2, 4>>, 0, c, {"repeat", "analyze"} \cup f) :
            c \in {0, 3}, f \in {{}, {"one"}, {"diverse"}}}

-----------------------------------------------------------------------------
(* Ordering, ranking and measuring: five words with uneven scores          *)

MCPairGrammar == [v \in 1..5 |-> [w \in 1..5 |-> ((7 * v + 5 * w * w + 3 * v * w) % 11) - 4]]
MCStartScore == <<0, 2, -1, 1, 1>>
MCEndScore == <<1, -3, 1, 0, 1>>
MCNormalize(sum, edges) == Min({98, Max({2, 50 + ((2 * sum) \div edges)})})
Hash(order) == FoldLeft(LAMBDA h, w : (h * 7 + 3 * w) % 101, 5, order)
MCStructure(order) ==
    [norm |-> 60 + 2 * (Hash(order) % 5), valency |-> 50 + (Hash(order) % 4) * 10,
     coverage |-> 25 * (Hash(order) % 4),
     kind |-> IF Hash(order) % 3 = 0 THEN "clause" ELSE "fragment"]
MCFamilyWord == <<1, 2, 2, 4, 5>>
MCCollocation == [v \in 1..5 |-> [w \in 1..5 |-> IF (v + 2 * w) % 4 = 0 THEN 30 + 10 * v ELSE 0]]
Attested(order) == Hash(order) % 7 = 0 /\ Len(order) = 4
MCPhrase(order) == IF Attested(order) THEN 7700 ELSE IF Hash(order) % 5 = 0 THEN 2300 ELSE 0
MCPhraseCount(order) == IF Attested(order) THEN 18 ELSE 0

Row(ws, l, f, h) == [words |-> ws, lex |-> l, fam |-> f, hint |-> h]
RowA == Row(<<1, 3, 2>>, 40, 60, 0)
RowB == Row(<<2, 3, 1, 4>>, 30, 50, 50)
RowC == Row(<<3, 3, 4, 1>>, 30, 50, 20)
RowD == Row(<<5, 2, 2, 1>>, 70, 60, 0)
RowE == Row(<<1, 2, 4, 2>>, 10, 10, 0)
MCArrivals ==
    {<<RowA, RowB, RowC, RowD, RowE>>,
     <<RowE, [RowD EXCEPT !.words = <<1, 2, 5, 2>>], RowC, RowB, RowA>>,
     <<RowC, RowE, RowA, [RowB EXCEPT !.words = <<4, 3, 2, 1>>], RowD>>}

Setting(perGroup, all, serial, mode, beam, retained, top, bigrams, index) ==
    [perGroup |-> perGroup, all |-> all, serial |-> serial, batch |-> 2, mode |-> mode,
     beam |-> beam, exactMax |-> 3, retained |-> retained, top |-> top, bonus |-> 1200,
     bigrams |-> bigrams, index |-> index]
MCSettings ==
    {Setting(2, FALSE, serial, mode, 6, retained, 1, bigrams, index) :
        serial \in BOOLEAN, mode \in {"auto", "exact"}, retained \in {2, 5},
        bigrams \in BOOLEAN, index \in BOOLEAN}
    \cup {Setting(1, TRUE, serial, "beam", 3, 4, 4, bigrams, FALSE) :
            serial \in BOOLEAN, bigrams \in BOOLEAN}

MCEvidence(order) == IF Hash(order) % 7 = 0 THEN 77 ELSE IF Hash(order) % 5 = 0 THEN 23 ELSE 0
Case(ws, acceptable, maxRank, cross) ==
    [words |-> ws, acceptable |-> acceptable, maxRank |-> maxRank, cross |-> cross]
CaseX == Case(<<1, 3, 2>>, {<<1, 3, 2>>, <<1, 2, 3>>, <<2, 1, 3>>}, 0, FALSE)
CaseY == Case(<<3, 2, 1>>, {<<3, 2, 1>>, <<2, 3, 1>>}, 4, TRUE)
CaseZ == Case(<<2, 3, 1, 2>>, {<<2, 3, 1, 2>>}, 0, FALSE)
CaseV == Case(<<4, 4, 1, 3>>, {<<4, 1, 4, 3>>}, 9, FALSE)
CaseU == Case(<<1, 2, 3, 4, 5>>, {<<1, 2, 3, 4, 5>>}, 0, FALSE)
CaseT == Case(<<1, 2>>, {<<2, 1>>}, 0, TRUE)
MCCases ==
    {<<CaseX, CaseY, CaseZ, CaseV>>, <<CaseU, CaseY>>, <<CaseX, CaseZ, CaseT, CaseY>>,
     <<CaseV, CaseT>>, <<CaseT, CaseX, CaseV>>}
MCGate == [recall1 |-> 20, recall10 |-> 60, recall50 |-> 100, mrr |-> 30, margin |-> -400]
MCMalformed == {<<2, 1>>, <<3, 1>>}
MCFoldOf(key) == Hash(key) % 3
MCModelScore(m, order) == (Cardinality(m) * Hash(order)) % 5
Refinement(low, high, rounds, budget, limit) ==
    [low |-> low, high |-> high, rounds |-> rounds, budget |-> budget, seedLimit |-> limit]
MCRefinements ==
    {Refinement(3, 5, 2, 100, 1), Refinement(3, 4, 2, 9, 4), Refinement(3, 3, 1, 2, 3),
     Refinement(3, 4, 3, 30, 2)}

-----------------------------------------------------------------------------
(* Corpus, facade and registry                                             *)

MCDumps == << << <<1, 2, 3>>, <<2, 3>>, <<1>> >>, << <<2, 3, 2, 3>>, <<1, 2>> >> >>
MCFrequency10(n) == <<0, 6, 10, 12>>[Min({n, 3}) + 1]
MCOrders == {<<1, 2, 3>>, <<2, 3, 1, 2, 3>>, <<1>>, <<1, 2, 3, 2, 3>>}

MCRawWidth(n) == IF n <= 2 THEN n ELSE n + 4

MCTextLetters == ("ab" :> "ab") @@ ("ba" :> "ab") @@ ("cd" :> "cd") @@ ("12" :> "") @@ (" " :> "") @@ ("" :> "")
Entry(id, suites, answer, target, cross) ==
    [id |-> id, enabled |-> TRUE, suites |-> suites, answer |-> answer, target |-> target,
     source |-> Absent, words |-> 0, required |-> 0, cross |-> cross]
EntryA == Entry("a", {}, "ab", Absent, TRUE)
EntryB == Entry("b", {"core"}, "ba", "ab", TRUE)
EntryC == Entry("c", {"normal_user_cli"}, Absent, "cd", FALSE)
EntryD == [Entry("d", {"full", "performance"}, "ab", Absent, FALSE) EXCEPT !.source = "ba"]
MCRegistries ==
    {<<EntryA, [EntryB EXCEPT !.enabled = FALSE]>>, <<[EntryA EXCEPT !.cross = FALSE], EntryB, EntryC>>}
MCNewCases ==
    {EntryC, EntryD, Entry("e", {"all"}, Absent, "cd", FALSE), Entry("e", {}, "12", Absent, FALSE),
     Entry("e", {"core", "full"}, "cd", "ab", FALSE),
     Entry("e", {"normal_user_cli"}, " ", "12", FALSE),
     [Entry("e", {"normal_user_cli"}, " ", "cd", FALSE) EXCEPT !.words = 2, !.required = 2],
     Entry("e", {"normal_user_cli"}, "cd", "cd", FALSE)}

-----------------------------------------------------------------------------
(* Grammar: orders of a subject, auxiliaries, a verb and a tail, with the  *)
(* ambiguities of WordNet ("a" and "being" are also nouns)                 *)

Grouped(groups) == [w \in UNION DOMAIN groups |-> groups[CHOOSE g \in DOMAIN groups : w \in g]]
MCClass == Grouped(
    ({"a"} :> "ARTICLE") @@ ({"these"} :> "DET_PL") @@ ({"this"} :> "DET_SG") @@ ({"one"} :> "NUM_DET")
    @@ ({"she"} :> "PRON_SG3") @@ ({"we"} :> "PRON_12") @@ ({"than", "by", "before"} :> "PREP")
    @@ ({"is", "are", "be", "been", "being"} :> "BE_AUX") @@ ({"has", "have"} :> "HAVE_AUX")
    @@ ({"will"} :> "MODAL") @@ ({"do"} :> "DO_AUX") @@ ({"not"} :> "NEG")
    @@ ({"man", "dogs", "old", "aim", "tested", "testing", "fall", "falls", "deep", "closer"} :> "none"))
MCFeatures == Grouped(
    ({"a", "being", "aim"} :> {"noun", "singular"}) @@ ({"one"} :> {"noun", "singular", "adj"})
    @@ ({"these", "this", "she", "we", "than", "by", "is", "are", "been", "has", "have"} :> {})
    @@ ({"be", "do"} :> {"verb", "base"}) @@ ({"will", "man", "fall"} :> {"noun", "singular", "verb", "base"})
    @@ ({"before", "not"} :> {"adv"}) @@ ({"dogs", "falls"} :> {"noun", "plural", "verb", "third"})
    @@ ({"old"} :> {"adj"}) @@ ({"deep"} :> {"adj", "adv"}) @@ ({"closer"} :> {"noun", "singular", "er"})
    @@ ({"tested"} :> {"verb", "past", "participle"}) @@ ({"testing"} :> {"noun", "singular", "verb", "ing"}))
MCFrames ==
    [w \in DOMAIN MCClass |-> CASE w \in {"tested", "testing", "man"} -> {"object", "objectPredicative"}
                               [] w \in {"fall", "falls"} -> {"intransitive", "prepositional", "predicative"}
                               [] OTHER -> {}]
MCBases == [w \in DOMAIN MCClass |-> IF w = "closer" THEN {{"adj"}} ELSE {}]
MCMismatched == {<<"a", w>> : w \in {"a", "is", "are", "old", "aim"}}
MCPower(share, exponent) == share - ((exponent - 100) * share * (1000 - share)) \div 100000

Openings == {<<>>, <<"a">>, <<"she">>, <<"these", "dogs">>, <<"one">>, <<"this", "old", "man">>, <<"a", "tested", "aim">>}
Chains == {<<>>, <<"is">>, <<"are">>, <<"has">>, <<"will">>, <<"do">>, <<"been">>, <<"has", "been">>,
           <<"will", "be">>, <<"will", "have", "been">>, <<"is", "not", "being">>, <<"has", "been", "being">>}
Verbs == {<<"tested">>, <<"testing">>, <<"fall">>, <<"falls">>, <<"deep">>}
Tails == {<<>>, <<"deep">>, <<"by", "she", "not">>, <<"closer", "than", "she">>, <<"before", "we", "fall">>,
          <<"a", "man">>}
Halves == {<<"tested", "we", "fall">>, <<"deep", "we", "falls">>, <<"old", "she", "falls">>}
MCTexts ==
    {o \o c \o v \o t : o \in Openings, c \in Chains, v \in Verbs, t \in Tails}
    \cup {g \o h : g \in Halves, h \in Halves}
=============================================================================
