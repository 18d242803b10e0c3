---------------------------- MODULE ReferenceGrammar ----------------------------
(***************************************************************************)
(* The structure score of a complete order in the archived reranker: the   *)
(* constructions of archive/anagram_rerank_core.py, the auxiliary and      *)
(* comparative ones layered over them (archive/anagram_auxiliary_grammar   *)
(* .py, archive/anagram_comparative_grammar.py) and the validity layer     *)
(* that demotes analyses without a subject (archive/                       *)
(* anagram_clause_validity.py).                                            *)
(*                                                                         *)
(* A text is a sequence of words.  A span is found from its first word or  *)
(* from its last one; end 0 or start 0 stands for none.  Scores are in     *)
(* thousandths and divisions round down.  The tables of one text are made  *)
(* in the order in which the scores need them.                             *)
(***************************************************************************)
EXTENDS Integers, Sequences, FiniteSets, FiniteSetsExt, SequencesExt

CONSTANTS
    Texts,              \* the orders that are scored
    Class,              \* word -> function_class, "none" for a content word
    Features,           \* word -> what the lexicon knows of it, see below
    Frames,             \* verb -> frames it allows, {} where none are known
    Bases,              \* word in -er -> features of the bases it may have
    Subordinators, ComparativeWords, IrregularWords, FiniteBe,
    Mismatched,         \* pairs of an indefinite article and the word it misfits
    Power(_, _)         \* share of 0 .. 1000, exponent in hundredths -> share

KnownFeatures == {"noun", "singular", "plural", "adj", "adv", "verb", "base", "third", "past",
                  "participle", "ing", "er"}

\* A participle is a past form in -ed or -en, "er" the spelling of a comparative.
ASSUME GrammarShape ==
    /\ \A w \in DOMAIN Class : /\ Features[w] \subseteq KnownFeatures
                               /\ Features[w] \cap {"base", "third", "past", "ing"} # {}
                                    => "verb" \in Features[w]
    /\ \A t \in Texts : t # <<>> /\ \A i \in DOMAIN t : t[i] \in DOMAIN Class

VARIABLES
    text,
    step,       \* "read", "spans", "tails", "based" or "scored"
    from,       \* position -> noun phrase, comparative and graded comparative from it
    upto,       \* position -> noun phrase that ends there
    tails,      \* position of a verb -> how well its tail fits, how many words it takes
    result      \* the analysis chosen so far

grammarVars == <<text, step, from, upto, tails, result>>

NoSpan == [end |-> 0, quality |-> 0]
NoResult == [norm |-> 0, valency |-> 0, coverage |-> 0, kind |-> "none"]

GrammarInit ==
    /\ text \in Texts /\ step = "read"
    /\ from = <<>> /\ upto = <<>> /\ tails = <<>> /\ result = NoResult

-----------------------------------------------------------------------------
(* Words                                                                   *)

Has(w, f) == f \in Features[w]
Determiners == {"DET_PL", "DET_SG", "ARTICLE", "DET", "NUM_DET"}
Pronouns == {"PRON", "PRON_12", "PRON_PL", "PRON_SG3"}
Auxiliaries == {"BE_AUX", "HAVE_AUX", "MODAL", "DONT", "DOESNT", "DO_AUX"}
IsDet(w) == Class[w] \in Determiners
IsPronoun(w) == Class[w] \in Pronouns
Quantities == {"more", "less", "most", "least"}
Adverbial(w) == Class[w] = "NEG" \/ (Has(w, "adv") /\ Class[w] \notin {"PREP", "CONJ"})

Clamp(x, top) == Max({0, Min({top, x})})
Within1(x) == Clamp(x, 1000)
N == Len(text)
Collisions == Cardinality({i \in 1 .. N - 1 : IsDet(text[i]) /\ IsDet(text[i + 1])})

\* What a determiner adds to the phrase of a head; both parsers have a table.
DetBonus(det, head, plural, singular, misfit) ==
    CASE Class[det] = "DET_PL" -> IF Has(head, "plural") THEN plural ELSE -singular
      [] Class[det] = "DET_SG" -> IF Has(head, "singular") THEN 200 ELSE -singular
      [] Class[det] = "ARTICLE" -> IF det \in {"a", "an"} /\ Has(head, "plural") THEN -misfit ELSE 150
      [] Class[det] = "NUM_DET" -> IF det = "one" THEN IF Has(head, "plural") THEN -200 ELSE 120
                                   ELSE IF Has(head, "plural") THEN 120 ELSE 20
      [] OTHER -> 100

-----------------------------------------------------------------------------
(* Noun phrases                                                            *)

\* _np_span_ending_at: what the word before a head adds, 0 where it stops.
ModifierBonus(i) ==
    LET w == text[i] IN
    IF i < 1 \/ Class[w] # "none" THEN 0
    ELSE IF Has(w, "adj") THEN 80
    ELSE IF Has(w, "participle") /\ i > 1 /\ IsDet(text[i - 1]) THEN 60
    ELSE IF Has(w, "noun") /\ ~Has(w, "verb") THEN 25 ELSE 0

EndingBonus(det, head) ==
    IF Class[det] \in {"DET_PL", "DET_SG"} /\ Features[head] \cap {"plural", "singular"} = {} THEN 0
    ELSE DetBonus(det, head, 240, 350, 450)

NounPhraseUpto(h) ==
    LET head == text[h]
        count == IF h = 1 \/ ModifierBonus(h - 1) = 0 THEN 0
                 ELSE IF h = 2 \/ ModifierBonus(h - 2) = 0 THEN 1 ELSE 2
        base == (IF Has(head, "noun") THEN 760 ELSE 700)
                + MapThenSumSet(ModifierBonus, h - count .. h - 1)
        det == h - count - 1
    IN IF IsPronoun(head) THEN [start |-> h, quality |-> 1000]
       ELSE IF ~Has(head, "noun") /\ head \notin Quantities THEN [start |-> 0, quality |-> 0]
       ELSE IF det >= 1 /\ IsDet(text[det])
       THEN [start |-> det, quality |-> Within1(base + EndingBonus(text[det], head))]
       ELSE [start |-> h - count, quality |-> Within1(base)]

\* _np_span_starting_at: attributes, at most one noun as modifier, the head.
Nominal(i) == i <= N /\ (Has(text[i], "noun") \/ Has(text[i], "adj"))
Attribute(s, i) ==
    \/ Has(text[i], "adj") /\ (Has(text[i], "noun") => Nominal(i + 1))
    \/ i = s + 1 /\ IsDet(text[s]) /\ Has(text[i], "participle") /\ Nominal(i + 1)
Core(s) ==
    LET first == IF IsDet(text[s]) THEN s + 1 ELSE s
    IN [first |-> first, end |-> Min({i \in first .. N + 1 : i > N \/ ~Attribute(s, i)})]
Modifies(i) ==
    /\ i < N /\ Has(text[i + 1], "noun")
    /\ Has(text[i], "noun") /\ ~Has(text[i], "verb") /\ ~Has(text[i], "adj")

Headed(s, core, h) ==
    IF h > N \/ ~(Has(text[h], "noun") \/ text[h] \in Quantities) THEN NoSpan
    ELSE [end |-> h,
          quality |-> 720 + Min({120, 40 * (core.end - core.first)})
                      + (IF h > core.end THEN 25 ELSE 0)
                      + (IF IsDet(text[s]) THEN DetBonus(text[s], text[h],
                            IF Class[text[s]] = "DET_PL" THEN 230 ELSE 200, 300, 400) ELSE 0)]
BareNounPhrase(s) ==
    IF IsPronoun(text[s]) THEN [end |-> s, quality |-> 900]
    ELSE LET core == Core(s) IN
         IF core.end > N THEN NoSpan
         ELSE Headed(s, core, IF Modifies(core.end) THEN core.end + 1 ELSE core.end)

\* One prepositional phrase may follow the head.
WithPrepositional(s, np) ==
    LET next == np.end + 1
        inner == IF np.end = 0 \/ IsPronoun(text[s]) \/ next >= N \/ text[next] \notin {"of", "for", "with"}
                 THEN NoSpan ELSE BareNounPhrase(next + 1)
    IN IF inner.end = 0 THEN [np EXCEPT !.quality = Within1(@)]
       ELSE [end |-> inner.end,
             quality |-> Within1(np.quality + (80 * Within1(inner.quality)) \div 1000)]
NounPhraseFrom(s) == WithPrepositional(s, BareNounPhrase(s))

-----------------------------------------------------------------------------
(* Comparatives                                                            *)

\* The end of what follows a "than", 0 if nothing does.
RightEnd(than, np) ==
    LET w == text[than + 1] IN
    IF np[than + 1].end > 0 THEN np[than + 1].end
    ELSE IF Features[w] \cap {"noun", "adj", "adv"} # {} \/ Class[w] \in Pronouns \cup {"NEG", "NUM_DET"}
    THEN than + 1 ELSE 0

ComparativeLike(w) ==
    w \in ComparativeWords \/ (Has(w, "er") /\ Features[w] \cap {"adj", "adv"} # {})

\* comparative_evidence
ComparativeEvidence(w) ==
    IF w \in ComparativeWords THEN 1000 ELSE IF w \in IrregularWords THEN 980
    ELSE IF ~\E b \in Bases[w] : b \cap {"adj", "adv"} # {} THEN 0
    ELSE IF Features[w] \cap {"adj", "adv"} # {} THEN 960
    ELSE IF Class[w] # "none" \/ Features[w] # {} THEN 380 ELSE 900

\* The first "than" within reach that has a comparative before it and
\* something to compare with after it; compared are the places of
\* comparatives, quality that of a comparison up to each place.
Comparison(s, np, compared, quality) ==
    LET found == {t \in s + 1 .. Min({N - 1, s + 4}) :
                    text[t] = "than" /\ RightEnd(t, np) > 0 /\ compared \cap (s .. t - 1) # {}}
    IN IF found = {} THEN NoSpan
       ELSE [end |-> RightEnd(Min(found), np), quality |-> quality[Min(found)]]

CoreComparative(s, np) ==
    Comparison(s, np, {i \in s .. N : ComparativeLike(text[i]) \/ Features[text[i]] \cap {"adj", "adv"} # {}},
               [t \in 1 .. N |-> IF ComparativeLike(text[s]) THEN 950 ELSE 900])
GradedComparative(s, np) ==
    Comparison(s, np, {i \in s .. N : ComparativeEvidence(text[i]) > 0},
               [t \in s + 1 .. N |-> LET best == Max({ComparativeEvidence(text[i]) : i \in s .. t - 1}) IN
                                    Min({990, 820 + (160 * best) \div 1000
                                              + (IF ComparativeEvidence(text[s]) > 0 THEN 20 ELSE 0)})])

SpansFrom(np) ==
    [s \in 1 .. N |-> [np |-> np[s], compared |-> CoreComparative(s, np),
                       graded |-> GradedComparative(s, np)]]

FindSpans ==
    /\ step = "read"
    /\ from' = SpansFrom([s \in 1 .. N |-> NounPhraseFrom(s)])
    /\ upto' = [h \in 1 .. N |-> NounPhraseUpto(h)]
    /\ step' = "spans"
    /\ UNCHANGED <<text, tails, result>>

-----------------------------------------------------------------------------
(* Agreement                                                               *)

WordNumber(w) ==
    IF w \in {"we", "they", "you", "i"} THEN "plural"
    ELSE IF w \in {"he", "she", "it"} THEN "third"
    ELSE IF Has(w, "plural") THEN "plural" ELSE IF Has(w, "singular") THEN "third" ELSE "unknown"

\* Explicit determiners beat an ambiguous head.
Decides(w) == Class[w] \in {"DET_PL", "DET_SG", "NUM_DET"} \/ w \in {"a", "an"}
NumberOf(start, head) ==
    LET deciding == {i \in start .. head : Decides(text[i])} IN
    IF deciding = {} THEN WordNumber(text[head])
    ELSE IF Class[text[Min(deciding)]] \in {"DET_SG", "ARTICLE"} \/ text[Min(deciding)] = "one"
    THEN "third" ELSE "plural"

ByNumber(number, third, plural) ==
    IF number = "third" THEN third ELSE IF number = "plural" THEN plural ELSE 550

SubjectAgreement(number, w, auxiliary) ==
    CASE Class[w] = "DONT" -> ByNumber(number, 0, 1000)
      [] Class[w] = "DOESNT" -> ByNumber(number, 1000, 0)
      [] Class[w] = "BE_AUX" -> IF w = "is" THEN ByNumber(number, 1000, 100)
                                ELSE IF w = "are" THEN ByNumber(number, 150, 1000) ELSE 650
      [] Class[w] \in {"MODAL", "DO_AUX", "HAVE_AUX"} -> 750
      [] OTHER ->
            IF auxiliary THEN 500 ELSE IF Has(w, "past") THEN 850
            ELSE IF number = "third" /\ Has(w, "third") THEN 1000
            ELSE IF number = "third" /\ Has(w, "base") THEN 150
            ELSE IF number = "plural" /\ Has(w, "base") THEN 1000
            ELSE IF number = "plural" /\ Has(w, "third") THEN 100 ELSE 500

\* auxiliary_agreement: the negated forms of be and have count as the plain ones.
FormOf(w) ==
    CASE w = "isnt" -> "is" [] w = "arent" -> "are" [] w = "wasnt" -> "was" [] w = "werent" -> "were"
      [] w = "hasnt" -> "has" [] w = "havent" -> "have" [] w = "hadnt" -> "had" [] OTHER -> w
BeAgreement(subject, number, form) ==
    CASE form = "am" -> IF subject = "i" THEN 1000 ELSE 50
      [] form = "is" -> ByNumber(number, 1000, 100)
      [] form = "are" -> IF subject = "i" THEN 50 ELSE ByNumber(number, 150, 1000)
      [] form = "was" -> IF subject = "i" THEN 1000 ELSE ByNumber(number, 1000, 150)
      [] form = "were" -> IF subject = "i" THEN 150 ELSE ByNumber(number, 150, 1000)
      [] OTHER -> 550
HaveAgreement(number, form) ==
    CASE form = "had" -> 960 [] form = "has" -> ByNumber(number, 1000, 100)
      [] form = "have" -> ByNumber(number, 120, 1000) [] OTHER -> 550
AuxiliaryAgreement(subject, number, w) ==
    CASE Class[w] = "MODAL" -> 980
      [] Class[w] = "BE_AUX" -> BeAgreement(subject, number, FormOf(w))
      [] Class[w] = "HAVE_AUX" -> HaveAgreement(number, FormOf(w))
      [] OTHER -> SubjectAgreement(number, w, TRUE)

-----------------------------------------------------------------------------
(* The tail of a verb: _valency_for_tail                                   *)

\* Missing frame data stays neutral.
Licence(verb, frame, yes, no, unknown) ==
    IF Frames[verb] = {} THEN unknown ELSE IF frame \in Frames[verb] THEN yes ELSE no

Fit(valency, taken) == [valency |-> valency, taken |-> taken]

\* A clause after a subordinator needs the tail of its own, later, verb.
ClauseVerb(s) ==
    IF from[s].np.end = 0 THEN 0
    ELSE LET i == Min({i \in from[s].np.end + 1 .. N + 1 : i > N \/ ~Adverbial(text[i])})
         IN IF i <= N /\ Has(text[i], "verb") THEN i ELSE 0
ClauseQuality(s, i, valency) ==
    (450 * from[s].np.quality
     + 300 * SubjectAgreement(NumberOf(s, from[s].np.end), text[i], FALSE) + 250 * valency) \div 1000
SubordinateFit(v, i, fit) ==
    LET valency == IF i < N THEN fit.valency ELSE Licence(text[i], "intransitive", 950, 650, 650)
    IN Fit((900 * (850 + (150 * ClauseQuality(v + 2, i, valency)) \div 1000)) \div 1000,
           i + (IF i < N THEN fit.taken ELSE 0) - v)

IsSubordinate(v) == v + 1 < N /\ text[v + 1] \in Subordinators /\ ClauseVerb(v + 2) > 0

PrepositionalFit(v) ==
    LET np == IF v + 2 <= N THEN from[v + 2].np ELSE NoSpan
        taken == IF np.end = 0 THEN 1 ELSE np.end - v + 1
    IN Fit(Licence(text[v], "prepositional", 950, 450, 650), Min({taken, N - v}))

ObjectFit(v, e) ==
    IF e < N /\ Features[text[e + 1]] \cap {"adj", "noun"} # {}
       /\ Licence(text[v], "objectPredicative", TRUE, FALSE, FALSE)
    THEN Fit(980, e + 1 - v)
    ELSE Fit(Licence(text[v], "object", 1000, 80, 520), e - v)

PlainFit(v) ==
    LET s == v + 1 IN
    IF s > N THEN Fit(Licence(text[v], "intransitive", 1000, 420, 650), 0)
    ELSE IF from[s].compared.end > 0
    THEN Fit((880 * from[s].compared.quality) \div 1000, from[s].compared.end - v)
    ELSE IF Class[text[s]] = "PREP" THEN PrepositionalFit(v)
    ELSE IF from[s].np.end > 0 THEN ObjectFit(v, from[s].np.end)
    ELSE IF Features[text[s]] \cap {"adj", "adv"} # {}
    THEN Fit(Licence(text[v], "predicative", 960, 380, 620), 1)
    ELSE IF Features[text[s]] \cap {"base", "ing"} # {}
    THEN Fit(Licence(text[v], "infinitive", 920, 350, 560), 1)
    ELSE Fit(350, 0)

FindTails ==
    /\ step = "spans"
    /\ tails' = LET fit[v \in 1 .. N] ==
                        IF IsSubordinate(v)
                        THEN SubordinateFit(v, ClauseVerb(v + 2), fit[ClauseVerb(v + 2)])
                        ELSE PlainFit(v)
                IN fit
    /\ step' = "tails"
    /\ UNCHANGED <<text, from, upto, result>>

-----------------------------------------------------------------------------
(* The constructions of the core: phrase_structure                         *)

Coverage(start, words) ==
    ((IF start > 1 THEN 900 ELSE 1000) * Min({1000, (1000 * words) \div N})) \div 1000
Damped(norm, coverage, floor, exponent) ==
    (norm * (floor + ((1000 - floor) * Power(coverage, exponent)) \div 1000)) \div 1000
Penalized(norm, agreement, threshold) ==
    (IF agreement <= threshold THEN Min({norm, 420}) ELSE norm) - 220 * Collisions
Analysis(norm, valency, coverage, kind) ==
    [norm |-> norm, valency |-> valency, coverage |-> coverage, kind |-> kind]

Comparatives ==
    IF from[1].compared.end # N THEN <<>>
    ELSE <<Analysis(Min({970, 840 + (130 * from[1].compared.quality) \div 1000}), 780, 1000,
                    "comparative")>>

Complement(s) ==
    IF from[s].compared.end > 0 THEN from[s].compared
    ELSE IF from[s].np.end > 0 THEN from[s].np
    ELSE IF Features[text[s]] \cap {"adj", "adv"} # {} THEN [end |-> s, quality |-> 860] ELSE NoSpan

CopulaAnalysis(i, subject, complement) ==
    LET agreement == SubjectAgreement(NumberOf(subject.start, i - 1), text[i], TRUE)
        coverage == Coverage(subject.start, complement.end - subject.start + 1)
        norm == 290 + (220 * agreement + 160 * subject.quality + 190 * coverage
                       + 140 * complement.quality) \div 1000
    IN Analysis(Within1(Penalized(Damped(norm, coverage, 300, 150), agreement, 150)),
                1000, coverage, "copula")
Copula(i) ==
    IF Class[text[i]] # "BE_AUX" \/ i = 1 \/ i = N \/ upto[i - 1].start = 0 \/ Complement(i + 1).end = 0
    THEN <<>> ELSE <<CopulaAnalysis(i, upto[i - 1], Complement(i + 1))>>

ClauseAnalysis(start, words, opening, agreement, quality, valency) ==
    LET coverage == Coverage(start, words)
        norm == opening + (quality + 180 * coverage + 140 * valency) \div 1000
    IN Analysis(Within1(Penalized(Damped(norm, coverage, 300, 150), agreement, 150)),
                valency, coverage, "clause")

TakesVerb(i) ==
    \/ Class[text[i]] \in {"DONT", "DOESNT", "MODAL", "DO_AUX"} /\ Has(text[i + 1], "base")
    \/ Class[text[i]] = "HAVE_AUX" /\ Features[text[i + 1]] \cap {"past", "base"} # {}
Auxiliary(i) ==
    IF i = N \/ ~TakesVerb(i) THEN <<>>
    ELSE IF i > 1 /\ upto[i - 1].start > 0
    THEN LET subject == upto[i - 1]
             agreement == SubjectAgreement(NumberOf(subject.start, i - 1), text[i], TRUE)
         IN <<ClauseAnalysis(subject.start, i - subject.start + 2 + tails[i + 1].taken, 320, agreement,
                             200 * agreement + 160 * subject.quality, tails[i + 1].valency)>>
    ELSE IF i = 1 /\ Class[text[i]] \in {"DONT", "DO_AUX", "MODAL"}
    THEN <<ClauseAnalysis(1, 2 + tails[2].taken, 214, 600, 200 * 600 + 160 * 550, tails[2].valency)>>
    ELSE <<>>

\* The subject's head may be followed by adverbs and negations.
HeadBefore(i) == Max({0} \cup {h \in 1 .. i - 1 : ~Adverbial(text[h])})
FiniteConfidence(w, number) ==
    IF Features[w] \cap {"third", "past"} # {} \/ (number = "plural" /\ Has(w, "base")) THEN 950 ELSE 720
LexicalAnalysis(i, h, subject, number) ==
    LET agreement == SubjectAgreement(number, text[i], FALSE)
    IN ClauseAnalysis(subject.start, i - subject.start + 1 + tails[i].taken,
                      (270 * FiniteConfidence(text[i], number)) \div 1000, agreement,
                      240 * agreement + 170 * subject.quality, tails[i].valency)
Lexical(i) ==
    LET h == HeadBefore(i) IN
    IF ~Has(text[i], "verb") \/ h = 0 \/ upto[Max({1, h})].start = 0 THEN <<>>
    ELSE <<LexicalAnalysis(i, h, upto[h], NumberOf(upto[h].start, h))>>

NounPhrase ==
    IF from[1].np.end # N THEN <<>>
    ELSE <<Analysis(Clamp(700 + (200 * from[1].np.quality) \div 1000 - 220 * Collisions, 900),
                    600, 1000, "noun-phrase")>>

ImperativeNorm(fit, coverage) ==
    Damped(520 + (200 * fit.valency + 180 * coverage) \div 1000, coverage, 250, 170)
    - (IF \E i \in 2 + fit.taken .. N : Class[text[i]] # "none" THEN 250 ELSE 0)
Imperative ==
    LET coverage == Coverage(1, 1 + tails[1].taken) IN
    IF ~Has(text[1], "base") \/ Class[text[1]] # "none" THEN <<>>
    ELSE <<Analysis(Clamp(ImperativeNorm(tails[1], coverage) - 220 * Collisions, 880),
                    tails[1].valency, coverage, "imperative")>>

Fragment ==
    LET known == (1000 * Cardinality({i \in 1 .. N : Class[text[i]] # "none" \/ Features[text[i]] # {}}))
                 \div N
    IN Analysis(Max({50, (220 * known) \div 1000 - 200 * Collisions}), 500, known \div 4, "fragment")

\* The first of the best.
StrongerAnalysis(a, b) ==
    \/ a.norm > b.norm
    \/ a.norm = b.norm /\ (a.coverage > b.coverage \/ (a.coverage = b.coverage /\ a.valency > b.valency))
Strongest(analyses) ==
    FoldLeft(LAMBDA best, a : IF best = NoResult \/ StrongerAnalysis(a, best) THEN a ELSE best,
             NoResult, analyses)

Constructions ==
    Comparatives \o FlattenSeq([i \in 1 .. N |-> Copula(i)]) \o FlattenSeq([i \in 1 .. N |-> Auxiliary(i)])
    \o FlattenSeq([i \in 1 .. N |-> Lexical(i)]) \o NounPhrase \o Imperative

PhraseStructure ==
    /\ step = "tails"
    /\ result' = Strongest(IF Constructions = <<>> THEN <<Fragment>> ELSE Constructions)
    /\ step' = "based"
    /\ UNCHANGED <<text, from, upto, tails>>

-----------------------------------------------------------------------------
(* Auxiliary chains: anagram_auxiliary_grammar.py                          *)

NoChain == [main |-> 0, passive |-> FALSE, quality |-> 0]
ChainTo(main, passive, quality) == [main |-> main, passive |-> passive, quality |-> quality]

\* _skip_negation: at most one, at some cost.
Negated(i) == i <= N /\ Class[text[i]] = "NEG"
SkipNegation(i) == IF Negated(i) THEN i + 1 ELSE i
Cost(i, quality) == IF Negated(i) THEN (970 * quality) \div 1000 ELSE quality
Nested(i, quality, chain) ==
    IF chain.main = 0 THEN NoChain
    ELSE [chain EXCEPT !.quality = Cost(i, (quality * chain.quality) \div 1000)]

LexicalVerb(i, form) == i <= N /\ Class[text[i]] = "none" /\ Has(text[i], form)

BeChain(be) ==
    LET i == SkipNegation(be + 1)
        j == SkipNegation(i + 1)
    IN IF i <= N /\ text[i] = "being"
       THEN IF LexicalVerb(j, "past") THEN ChainTo(j, TRUE, Cost(be + 1, Cost(i + 1, 970))) ELSE NoChain
       ELSE IF LexicalVerb(i, "ing") THEN ChainTo(i, FALSE, Cost(be + 1, 990))
       ELSE IF LexicalVerb(i, "past") THEN ChainTo(i, TRUE, Cost(be + 1, 960))
       ELSE NoChain

HaveChainOfAnyVerb(have) ==
    LET i == SkipNegation(have + 1) IN
    IF i <= N /\ text[i] = "been" THEN Nested(have + 1, 980, BeChain(i))
    ELSE IF LexicalVerb(i, "past") \/ LexicalVerb(i, "base") THEN ChainTo(i, FALSE, Cost(have + 1, 980))
    ELSE NoChain
HaveChain(have) ==
    LET i == SkipNegation(have + 1) IN
    IF i <= N /\ text[i] = "been" THEN Nested(have + 1, 980, BeChain(i))
    ELSE IF LexicalVerb(i, "past") THEN ChainTo(i, FALSE, Cost(have + 1, 980)) ELSE NoChain

ModalChain(modal) ==
    LET i == SkipNegation(modal + 1) IN
    IF i <= N /\ text[i] = "be" THEN Nested(modal + 1, 980, BeChain(i))
    ELSE IF i <= N /\ text[i] = "have" THEN Nested(modal + 1, 980, HaveChain(i))
    ELSE IF LexicalVerb(i, "base") THEN ChainTo(i, FALSE, Cost(modal + 1, 970)) ELSE NoChain

ParseChain(i) ==
    CASE Class[text[i]] = "BE_AUX" -> IF text[i] \in FiniteBe THEN BeChain(i) ELSE NoChain
      [] Class[text[i]] = "HAVE_AUX" -> HaveChain(i)
      [] Class[text[i]] = "MODAL" -> ModalChain(i)
      [] OTHER -> LET j == SkipNegation(i + 1)
                  IN IF LexicalVerb(j, "base") THEN ChainTo(j, FALSE, Cost(i + 1, 960)) ELSE NoChain

\* A passive is complete; an agent and adverbs may follow.
AdverbsFrom(i) == Min({j \in i .. N + 1 : j > N \/ ~Adverbial(text[j])})
PassiveTail(main) ==
    LET s == main + 1 IN
    IF s > N THEN Fit(960, 0)
    ELSE IF text[s] = "by" /\ s < N /\ from[Min({N, s + 1})].np.end > 0
    THEN Fit(990, AdverbsFrom(from[s + 1].np.end + 1) - s)
    ELSE Fit(IF Adverbial(text[s]) THEN 920 ELSE 900, AdverbsFrom(s) - s)

\* valid_subject_head
ValidHead(w) ==
    \/ IsPronoun(w) \/ w \in {"one", "more", "less", "most", "least"}
    \/ Class[w] = "none" /\ Has(w, "noun")

ChainAnalysis(i, chain, subject, tail) ==
    LET agreement == AuxiliaryAgreement(text[i - 1], NumberOf(subject.start, i - 1), text[i])
        coverage == Coverage(subject.start, chain.main - subject.start + 1 + tail.taken)
        norm == (180 * subject.quality + 220 * agreement + 200 * chain.quality
                 + 180 * tail.valency + 220 * coverage) \div 1000
    IN Analysis(Clamp(Penalized(Damped(norm, coverage, 420, 130), agreement, 200), 980),
                tail.valency, coverage, "aux")
SubjectBeforeAuxiliary(i) == ValidHead(text[i - 1]) /\ upto[i - 1].start > 0
ChainFrom(i, chain) ==
    IF chain.main = 0 \/ ~SubjectBeforeAuxiliary(i) THEN <<>>
    ELSE <<ChainAnalysis(i, chain, upto[i - 1],
                         IF chain.passive THEN PassiveTail(chain.main) ELSE tails[chain.main])>>
AuxiliaryStructure ==
    IF N < 3 THEN <<>>
    ELSE FlattenSeq([i \in 1 .. N |->
            IF i = 1 \/ Class[text[i]] \notin Auxiliaries THEN <<>> ELSE ChainFrom(i, ParseChain(i))])

\* lexical_finite_form: a bare participle in -ing is no finite verb.
LexicalFinite(w) == Class[w] = "none" /\ Features[w] \cap {"base", "third", "past"} # {}

ComparedAnalysis(v, subject, agreement, quality) ==
    LET valency == (880 * quality) \div 1000
        coverage == Coverage(subject.start, N - subject.start + 1)
        norm == 220 + (140 * subject.quality + 200 * agreement + 180 * valency
                       + 160 * quality + 100 * coverage) \div 1000
    IN Analysis(Clamp(Damped(norm, coverage, 550, 125), 980), valency, coverage, "comparative-clause")
ComparativeClause(v) ==
    LET subject == upto[v - 1]
        agreement == SubjectAgreement(NumberOf(subject.start, v - 1), text[v], FALSE)
    IN IF ~LexicalFinite(text[v]) \/ subject.start = 0 \/ from[v + 1].graded.end # N THEN <<>>
       ELSE IF agreement <= 150 THEN <<>>
       ELSE <<ComparedAnalysis(v, subject, agreement, from[v + 1].graded.quality)>>
ComparativeClauses ==
    IF N < 4 THEN <<>> ELSE FlattenSeq([k \in 1 .. N - 3 |-> ComparativeClause(k + 1)])

FrontedQuality(w) ==
    IF Class[w] # "none" THEN 0 ELSE IF Has(w, "past") THEN 980
    ELSE IF Has(w, "adj") /\ ~Has(w, "noun") THEN 820 ELSE 0
HalfAgreement(i) == SubjectAgreement(WordNumber(text[i]), text[i + 1], FALSE)
HalfFits(i) ==
    /\ FrontedQuality(text[i - 1]) > 0 /\ IsPronoun(text[i]) /\ LexicalFinite(text[i + 1])
    /\ HalfAgreement(i) > 150
\* Two halves of a modifier, the same pronoun and a verb.
ParallelClause ==
    IF N # 6 THEN <<>> ELSE IF text[2] # text[5] \/ ~HalfFits(2) \/ ~HalfFits(5) THEN <<>>
    ELSE LET Half(i) == Licence(text[i], "intransitive", 980, 350, 650)
             valency == (Half(3) + Half(6)) \div 2
             modifiers == FrontedQuality(text[1]) + FrontedQuality(text[4])
             agreements == HalfAgreement(2) + HalfAgreement(5)
         IN <<Analysis(Clamp(440 + (100 * modifiers + 100 * agreements + 160 * valency) \div 1000, 980),
                       valency, 1000, "parallel-clause")>>

-----------------------------------------------------------------------------
(* Validity: anagram_clause_validity.py                                    *)

\* A nominal function word as subject of an auxiliary; only "one" has a number.
NominalCompatible(w, auxiliary) ==
    w \in Quantities \/ (w = "one" /\ auxiliary \notin {"am", "are", "arent", "have", "havent", "do", "dont"})

FiniteAuxiliary(w) == Class[w] \in Auxiliaries /\ (Class[w] = "BE_AUX" => w \in FiniteBe)
FiniteAuxiliaries == {i \in 2 .. N : FiniteAuxiliary(text[i])}
SubjectSpanned(i) == upto[i - 1].start > 0
SubjectAccepted(i) ==
    LET w == text[i - 1] IN
    /\ ValidHead(w)
    /\ IF w \in Quantities \cup {"one"} THEN NominalCompatible(w, text[i]) ELSE upto[i - 1].start > 0

DoImperative == N >= 2 /\ text[1] \in {"do", "dont"} /\ Has(text[Min({2, N})], "base")

SubjectOf(v) ==
    LET h == HeadBefore(v) IN
    IF h = 0 THEN 0 ELSE IF ValidHead(text[h]) THEN upto[h].start ELSE 0
BestValidCoverage ==
    Max({0} \cup {Coverage(SubjectOf(v), v - SubjectOf(v) + 1 + tails[v].taken) :
                    v \in {u \in 2 .. N : LexicalFinite(text[u]) /\ SubjectOf(u) > 0}})

HardDemoted(r) ==
    Analysis(Min({r.norm, 250}), Min({r.valency, 500}), Min({r.coverage, 250}), "fragment")
Demoted(r, coverage) ==
    LET kept == Min({r.coverage, coverage})
        scale == 250 + (750 * Power((1000 * kept) \div r.coverage, 140)) \div 1000
    IN IF kept = 0 THEN HardDemoted(r)
       ELSE Analysis((r.norm * scale) \div 1000, Min({r.valency, 650}), kept,
                     IF kept < 600 THEN "fragment" ELSE r.kind)

\* The core's analysis without the clauses that no subject supports.
AdjustedBase(r) ==
    IF r.kind \notin {"clause", "copula"} \/ r.coverage = 0 THEN r
    ELSE IF FiniteAuxiliaries # {}
    THEN IF \E i \in FiniteAuxiliaries : SubjectAccepted(i) THEN r ELSE HardDemoted(r)
    ELSE IF r.kind = "copula" \/ DoImperative THEN r
    ELSE IF BestValidCoverage + 50 >= r.coverage THEN r ELSE Demoted(r, BestValidCoverage)

PairsIn(flawed) == Cardinality({i \in 1 .. N - 1 : <<text[i], text[i + 1]>> \in flawed})
Surface(r) ==
    LET dangling == {<<a, b>> \in Range(text) \X Range(text) :
                        IsDet(a) /\ Class[b] \in Auxiliaries /\ ~NominalCompatible(a, b)}
        flaws == 120 * PairsIn(Mismatched) + 180 * PairsIn(dangling)
                 + 300 * PairsIn(FiniteBe \X FiniteBe)
    IN [r EXCEPT !.norm = Max({0, @ - flaws})]

\* phrase_structure_with_auxiliaries
ScorePhrase ==
    /\ step = "based"
    /\ result' = Surface(Strongest(<<AdjustedBase(result)>> \o AuxiliaryStructure
                                   \o ComparativeClauses \o ParallelClause))
    /\ step' = "scored"
    /\ UNCHANGED <<text, from, upto, tails>>

GrammarNext == FindSpans \/ FindTails \/ PhraseStructure \/ ScorePhrase
GrammarSpec == GrammarInit /\ [][GrammarNext]_grammarVars

-----------------------------------------------------------------------------
(* Properties                                                              *)

\* What the verb after an auxiliary must be, negation aside.
Licenses(i, j) ==
    LET a == Class[text[i]] b == text[j] IN
    CASE a = "MODAL" -> b \in {"be", "have"} \/ LexicalVerb(j, "base")
      [] a = "HAVE_AUX" -> b = "been" \/ LexicalVerb(j, "past")
      [] a = "BE_AUX" -> \/ LexicalVerb(j, "past")
                         \/ text[i] # "being" /\ (b = "being" \/ LexicalVerb(j, "ing"))
      [] OTHER -> LexicalVerb(j, "base")
\* j is the lexical verb of the chain of auxiliaries from i.
Governs(i, j) ==
    LET chain == {k \in i .. j : Class[text[k]] # "NEG"}
        After(k) == Min({m \in chain : m > k})
    IN /\ FiniteAuxiliary(text[i]) /\ Class[text[j]] = "none"
       /\ \A k \in chain \ {j} : /\ Class[text[k]] \in Auxiliaries
                                 /\ After(k) <= k + 2 /\ Licenses(k, After(k))

\* parse_auxiliary_chain finds a verb exactly if every word of the chain has
\* the form the auxiliary before it asks for ("Non-finite BE forms are accepted
\* only when reached inside a finite modal/perfect chain"), and calls it
\* passive exactly if a form of "be" asks for a past participle.
ChainsAreLicensed ==
    step = "scored" =>
        \A i \in {k \in 1 .. N : Class[text[k]] \in Auxiliaries} :
            LET verbs == {j \in i + 1 .. N : Governs(i, j)} chain == ParseChain(i) IN
            /\ IF verbs = {} THEN chain = NoChain ELSE verbs = {chain.main}
            /\ chain.passive <=>
                 \E j \in verbs : LET k == Max({m \in i .. j - 1 : Class[text[m]] # "NEG"}) IN
                    Class[text[k]] = "BE_AUX" /\ (text[k] = "being" \/ ~Has(text[j], "ing"))

\* An order passes for a clause only if some finite verb or auxiliary has a
\* word before it that may head its subject, adverbs and negations aside, or if
\* it is a command with "do": articles and determiners are no subjects
\* (clause_validity.py keeps its list of nominal heads narrow "so a/the/my
\* cannot become subjects").  Comparative clauses are not held to it.
ClausesHaveSubjects ==
    (step = "scored" /\ result.kind \in {"clause", "aux", "parallel-clause"}) =>
        \/ DoImperative
        \/ \E v \in 2 .. N : /\ FiniteAuxiliary(text[v]) \/ LexicalFinite(text[v])
                             /\ \E h \in 1 .. v - 1 : /\ ValidHead(text[h])
                                                      /\ \A k \in h + 1 .. v - 1 : Adverbial(text[k])
=============================================================================
