--------------------------- MODULE ReferenceRegistry ---------------------------
(***************************************************************************)
(* The registry of benchmark cases: archive/anagram_suite.py.              *)
(*                                                                         *)
(* One maintainer at a time edits it with the management commands, each    *)
(* edit written beside the registry, validated there and published by a    *)
(* rename; the edit may be killed at any point.  The suites that read the  *)
(* registry rely on what the validation promises.                          *)
(*                                                                         *)
(* A document is a sequence of cases; of a text, whose letters are Latin   *)
(* ones, only the letters matter.  The commands write no malformed types,  *)
(* so only valid ones are modelled.                                        *)
(***************************************************************************)
EXTENDS Integers, Sequences, FiniteSets, Functions, SequencesExt

CONSTANTS
    TextLetters,        \* text -> its letters A-Z in order, "" for none
    Blank,          \* texts that are empty but for spaces
    Absent,         \* no text
    DefaultSuites,  \* suites of a case that names none
    DefaultMaxWords,\* --max-words of the frontend
    Registries,     \* documents to start from
    NewCases,       \* cases that add is asked for
    MaxEdits        \* bound: commands started

Suites == {"ordering", "phrase_ordering", "normal_user_cli", "full", "performance",
           "refinement", "feature_ranker"}
AnswerRequired == Suites \ {"normal_user_cli"}

\* enabled: TRUE or FALSE; suites: names and groups, {} where the key is absent.
CaseShape(c) ==
    /\ c.enabled \in BOOLEAN /\ c.cross \in BOOLEAN
    /\ c.suites \subseteq Suites \cup {"core", "all"}
    /\ {c.answer, c.target, c.source} \subseteq DOMAIN TextLetters \cup {Absent}
    /\ {c.words, c.required} \subseteq Nat

ASSUME RegistryShape ==
    /\ DefaultSuites \subseteq Suites /\ Blank \subseteq DOMAIN TextLetters
    /\ \A c \in NewCases \cup UNION {Range(d) : d \in Registries} : CaseShape(c)

VARIABLES
    registry,   \* the document on disk
    beside,     \* the document written beside it, "partial" or "none"
    editor      \* the running command: its stage and the document it wants

registryVars == <<registry, beside, editor>>

NoEditor == [stage |-> "none", document |-> <<>>, edits |-> 0]

-----------------------------------------------------------------------------
(* What a case resolves to                                                 *)

Expand(names) ==
    (names \cap Suites)
    \cup (IF "all" \in names THEN Suites ELSE {})
    \cup (IF "core" \in names
          THEN {"ordering", "phrase_ordering", "refinement", "feature_ranker"} ELSE {})
SuitesOf(c) == IF c.suites = {} THEN DefaultSuites ELSE Expand(c.suites)

Given(text) == text # Absent /\ text \notin Blank
HasLetters(text) == Given(text) /\ TextLetters[text] # ""

\* target_for_case: the target as it is given, else letters of source or answer.
TargetTexts(c) ==
    IF Given(c.target) THEN {c.target}
    ELSE IF HasLetters(c.source) THEN {c.source}
    ELSE {c.answer} \cap {text \in DOMAIN TextLetters : HasLetters(text)}

\* normal_user_case: the case as arguments that the frontend accepts.
Resolves(c) ==
    LET max == IF c.words = 0 THEN DefaultMaxWords ELSE c.words IN
    \E text \in TargetTexts(c) : HasLetters(text) /\ (c.required = 0 \/ c.required < max)

\* cases_for, and when it raises.
CasesFor(d, suite) == SelectSeq(d, LAMBDA c : c.enabled /\ suite \in SuitesOf(c))
Refuses(d, suite) ==
    suite \in AnswerRequired /\ \E c \in Range(CasesFor(d, suite)) : ~Given(c.answer)

-----------------------------------------------------------------------------
(* validate_registry                                                       *)

ValidCase(c) ==
    /\ c.enabled => SuitesOf(c) # {}
    /\ SuitesOf(c) \cap AnswerRequired # {} => Given(c.answer)
    /\ (c.enabled /\ "performance" \in SuitesOf(c) /\ Given(c.answer)) => HasLetters(c.answer)
    /\ (Given(c.target) /\ c.answer # Absent) => TextLetters[c.target] = TextLetters[c.answer]
    /\ (~Given(c.target) /\ Given(c.source) /\ c.answer # Absent)
            => TextLetters[c.source] = TextLetters[c.answer]
    /\ "normal_user_cli" \in SuitesOf(c) => Resolves(c)
    /\ (c.cross /\ c.enabled) => "ordering" \in SuitesOf(c)

CrossReferences(d) ==
    {i \in DOMAIN d : d[i].cross /\ d[i].enabled /\ "ordering" \in SuitesOf(d[i])}

DistinctIds(d) == \A i, j \in DOMAIN d : d[i].id = d[j].id => i = j

ValidEachCase(d) == DistinctIds(d) /\ \A c \in Range(d) : ValidCase(c)
ValidWithAnyReferences(d) ==
    ValidEachCase(d) /\ \A suite \in Suites : ~Refuses(d, suite) /\ CasesFor(d, suite) # <<>>
Valid(d) ==
    /\ ValidEachCase(d)
    /\ Cardinality(CrossReferences(d)) = 1
    /\ \A suite \in Suites : ~Refuses(d, suite) /\ CasesFor(d, suite) # <<>>

RegistryInit ==
    /\ registry \in {d \in Registries : Valid(d)}
    /\ beside = "none"
    /\ editor = NoEditor

-----------------------------------------------------------------------------
(* The commands                                                            *)

BeginEdit(d) ==
    /\ editor.stage = "none" /\ editor.edits < MaxEdits
    /\ editor' = [stage |-> "edited", document |-> d, edits |-> editor.edits + 1]
    /\ UNCHANGED <<registry, beside>>

Ids(d) == {c.id : c \in Range(d)}

\* A case of that name refuses the command, as does one without any text.
AddCase(c) ==
    /\ c.id \notin Ids(registry)
    /\ c.answer \notin {Absent, ""} \/ c.target \notin {Absent, ""}
    /\ BeginEdit(Append(registry, c))

RemoveCase(id) ==
    /\ id \in Ids(registry)
    /\ BeginEdit(SelectSeq(registry, LAMBDA c : c.id # id))

SwitchCase(id, on) ==
    /\ id \in Ids(registry)
    /\ BeginEdit([i \in DOMAIN registry |->
                IF registry[i].id = id THEN [registry[i] EXCEPT !.enabled = on] ELSE registry[i]])

\* _write_registry, step by step.
StartWriting ==
    /\ editor.stage = "edited"
    /\ beside' = "partial"
    /\ editor' = [editor EXCEPT !.stage = "writing"]
    /\ UNCHANGED registry

EndWriting ==
    /\ editor.stage = "writing"
    /\ beside' = editor.document
    /\ editor' = [editor EXCEPT !.stage = "written"]
    /\ UNCHANGED registry

Reject ==
    /\ editor.stage = "written" /\ ~Valid(beside)
    /\ beside' = "none"
    /\ editor' = [NoEditor EXCEPT !.edits = editor.edits]
    /\ UNCHANGED registry

Publish ==
    /\ editor.stage = "written" /\ Valid(beside)
    /\ registry' = beside /\ beside' = "none"
    /\ editor' = [NoEditor EXCEPT !.edits = editor.edits]

\* What is beside the registry stays there until the next edit writes over it.
EditorStops ==
    /\ editor.stage # "none"
    /\ editor' = [NoEditor EXCEPT !.edits = editor.edits]
    /\ UNCHANGED <<registry, beside>>

RegistryNext ==
    \/ \E c \in NewCases : AddCase(c)
    \/ \E id \in Ids(registry) : RemoveCase(id) \/ \E on \in BOOLEAN : SwitchCase(id, on)
    \/ StartWriting \/ EndWriting \/ Reject \/ Publish \/ EditorStops

-----------------------------------------------------------------------------
(* Properties                                                              *)

\* Whatever edits were made, refused or killed, the registry on disk serves
\* every suite: each finds cases and all the labels it needs, the ordering gate
\* its one reference ("must select exactly one cross-bag reference case",
\* ci_ordering_gate.py:66), and a user run is never waiting for an answer that
\* its own target cannot spell.
SuitesStayRunnable ==
    /\ \A suite \in Suites : Len(CasesFor(registry, suite)) > 0
    /\ \A suite \in AnswerRequired : \A c \in Range(CasesFor(registry, suite)) :
            c.answer \in DOMAIN TextLetters \ Blank
    /\ Len(SelectSeq(CasesFor(registry, "ordering"), LAMBDA c : c.cross)) = 1
    /\ \A c \in Range(CasesFor(registry, "normal_user_cli")) :
            \E text \in TargetTexts(c) : Given(c.answer) => TextLetters[text] = TextLetters[c.answer]
    /\ \A i, j \in DOMAIN registry : registry[i].id = registry[j].id => i = j
=============================================================================
