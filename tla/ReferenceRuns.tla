---------------------------- MODULE ReferenceRuns ----------------------------
(***************************************************************************)
(* Runs of the archived one-command solver that share one data directory,  *)
(* from archive/anagram_solver.py with the caches it uses:                 *)
(* anagram_user_lexicon.py (dictionary and policy), anagram_run_cache.py   *)
(* (finished rankings), anagram_rerank.py (prepared rows) and the          *)
(* provisioning of WordNet and n-grams in anagram_rerank_core.py.          *)
(*                                                                         *)
(* One action is one file operation of one process.  A file is published   *)
(* by a rename, so it changes in one step; temporaries have random names,  *)
(* are never read by anybody else and are left out, except the directory   *)
(* WordNet is unpacked into, which other runs do find.  Stopping covers a  *)
(* kill, a failing child, a failing download and a persistent sharing      *)
(* violation: none of them changes a shared file.                          *)
(*                                                                         *)
(* Nothing locks the directory: a cold run downloads the dictionary and a  *)
(* refresh replaces it whatever the other runs are doing.                  *)
(*                                                                         *)
(* A file's contents are what it was derived from: candidates are named by *)
(* the dictionary they were generated from, a ranking by its candidates,   *)
(* options and the WordNet files that were read.  The dictionary stands    *)
(* for itself and the unigram counts that are stamped beside it; versions  *)
(* share their two-letter words, so a lexicon's token is its stamps.       *)
(***************************************************************************)
EXTENDS Naturals, FiniteSets, Sequences, Functions

CONSTANTS
    Processes,      \* concurrent runs
    Requests,       \* [options, top, rebuild]: what may be asked for one target
    Versions,       \* versions of the dictionary, in the order they are published
    Barren,         \* versions that admit no anagram of the target
    MaxRuns,        \* bound: runs started in a behaviour
    Rows,           \* ranked phrases of a version that is not barren
    Starts          \* [dictionary, archive, bigrams]: which downloads are there

\* A version is known by its size and modification time: none comes twice.
ASSUME RunsShape ==
    /\ Requests \subseteq [options: STRING, top: 1 .. Rows, rebuild: BOOLEAN]
    /\ Versions \in Seq(STRING \ {"none", "damaged"}) /\ Versions # <<>>
    /\ IsInjective(Versions)
    /\ "dict" \notin Processes
    /\ MaxRuns \in Nat /\ Rows \in Nat \ {0}
    /\ Starts \subseteq [dictionary: {"none", Versions[1]},
                        archive: BOOLEAN, bigrams: BOOLEAN]

VARIABLES
    dictionary,     \* the base dictionary file
    augmented,      \* the augmented dictionary derived from it
    policy,         \* the stamps of the lexicon policy cache
    candidates,     \* run directory -> candidates.txt
    prepared,       \* prepared-row files: key -> what the rows were made from
    rankings,       \* ranking-*.json files: key -> payload
    reranked,       \* run directory -> reranked.txt
    archive,        \* has the WordNet archive been downloaded?
    trees,          \* "dict" or a process's unpacking directory -> files in it
    bigrams,        \* has count_2w.txt been downloaded?
    run,            \* the state of each process
    started,        \* runs started so far
    worn,           \* has a file been damaged?
    crossed         \* history: was the dictionary replaced under a derivation?

lexiconFiles == <<dictionary, augmented, policy>>
resultFiles == <<candidates, prepared, rankings, reranked>>
corpora == <<archive, trees, bigrams>>
runVars == <<lexiconFiles, resultFiles, corpora, run, started, worn, crossed>>

-----------------------------------------------------------------------------
Content == Range(Versions)
File == Content \cup {"none", "damaged"}

\* The files of WordNet: the four indexes that find_wordnet_dict asks for, and
\* the exceptions and verb frames it does not.
WordNet == {"index", "frames"}
Trees == {"dict"} \cup Processes

NoPayload == [content |-> "none", options |-> "none", lexicon |-> {}, rows |-> 0]
NoRows == [content |-> "none", lexicon |-> {}]
NoRowsKey == [run |-> "none", content |-> "none", lexicon |-> {}]
NoSeen == [content |-> "none", bigrams |-> FALSE, archive |-> FALSE,
           trees |-> [t \in Trees |-> {}]]
NoRun == [at |-> "idle", request |-> CHOOSE r \in Requests : TRUE, child |-> FALSE,
          stamp |-> "none", token |-> "none", text |-> "none",
          todo |-> {}, torn |-> FALSE, tree |-> "dict", lexicon |-> {},
          made |-> NoRows, rowsKey |-> NoRowsKey, seen |-> NoSeen, ranking |-> NoPayload]

RunsInit ==
    /\ \E start \in Starts :
          /\ dictionary = start.dictionary
          /\ archive = start.archive /\ bigrams = start.bigrams
    /\ augmented = "none" /\ policy = "none"
    /\ candidates = [v \in Content |-> "none"]
    /\ prepared = <<>> /\ rankings = <<>>
    /\ reranked = [v \in Content |-> NoPayload]
    /\ trees = [t \in Trees |-> IF t = "dict" /\ archive THEN WordNet ELSE {}]
    /\ run = [p \in Processes |-> NoRun]
    /\ started = 0 /\ worn = FALSE /\ crossed = FALSE

At(p, place) == run[p].at = place
Goes(p, place) == run' = [run EXCEPT ![p].at = place]
Done(p, ranking) == [NoRun EXCEPT !.at = "done", !.request = run[p].request,
                                 !.token = run[p].token, !.ranking = ranking]
Idle == \A p \in Processes : run[p].at \in {"idle", "done"}

-----------------------------------------------------------------------------
(* The lexicon of ordinary users: ensure_user_lexicon, called by the       *)
(* frontend to name the run directory and again by the generator it starts.*)

Begin(p, request) ==
    /\ run[p].at \in {"idle", "done"} /\ started < MaxRuns
    /\ started' = started + 1
    /\ run' = [run EXCEPT ![p] = [NoRun EXCEPT !.at = "dictionary", !.request = request]]
    /\ UNCHANGED <<lexiconFiles, resultFiles, corpora, worn, crossed>>

\* get_dictionary: a dictionary that is there is taken as it is.
FindDictionary(p) ==
    /\ At(p, "dictionary")
    /\ Goes(p, IF dictionary = "none" THEN "download" ELSE "stamps")
    /\ UNCHANGED <<lexiconFiles, resultFiles, corpora, started, worn, crossed>>

\* A run derives from the dictionary between its stamps and its generation.
Deriving(p) ==
    \/ run[p].at \in {"policy", "base", "augment", "savePolicy", "candidates", "generate"}
    \/ run[p].child /\ run[p].at \in {"dictionary", "stamps"}

\* download_atomic: another version takes the place of the one that is there.
PublishDictionary ==
    /\ \/ dictionary = "none" /\ dictionary' = Versions[1]
       \/ \E i \in DOMAIN Versions \ {Len(Versions)} :
             dictionary = Versions[i] /\ dictionary' = Versions[i + 1]
    /\ crossed' = (crossed \/ \E p \in Processes : Deriving(p))

\* A cold run downloads the dictionary it did not find, also when another run
\* has published one since.
Download(p) ==
    /\ At(p, "download")
    /\ PublishDictionary
    /\ Goes(p, "stamps")
    /\ UNCHANGED <<augmented, policy, resultFiles, corpora, started, worn>>

ReadStamps(p) ==
    /\ At(p, "stamps")
    /\ run' = [run EXCEPT ![p].at = "policy", ![p].stamp = dictionary]
    /\ UNCHANGED <<lexiconFiles, resultFiles, corpora, started, worn, crossed>>

\* A cached policy is reused when its stamps are those of the sources; of the
\* augmented dictionary only the existence is asked.
AnyPolicyIsCurrent(stamp) == augmented # "none" /\ policy \in Content
PolicyIsCurrent(stamp) == augmented # "none" /\ policy = stamp

\* The frontend turns the token into its run directory; the generator goes on.
LexiconReady(p) ==
    run' = [run EXCEPT ![p] = IF run[p].child THEN [@ EXCEPT !.at = "generate"]
                              ELSE [@ EXCEPT !.at = "candidates", !.token = run[p].stamp]]

LoadPolicy(p) ==
    /\ At(p, "policy")
    /\ IF PolicyIsCurrent(run[p].stamp) THEN LexiconReady(p) ELSE Goes(p, "base")
    /\ UNCHANGED <<lexiconFiles, resultFiles, corpora, started, worn, crossed>>

\* build_augmented_dictionary: the base dictionary is read again, and what was
\* read takes the place of whatever is there.
ReadBase(p) ==
    /\ At(p, "base")
    /\ run' = [run EXCEPT ![p].at = "augment", ![p].text = dictionary]
    /\ UNCHANGED <<lexiconFiles, resultFiles, corpora, started, worn, crossed>>

WriteAugmented(p) ==
    /\ At(p, "augment")
    /\ augmented' = run[p].text
    /\ run' = [run EXCEPT ![p].at = "savePolicy", ![p].text = "none"]
    /\ UNCHANGED <<dictionary, policy, resultFiles, corpora, started, worn, crossed>>

SavePolicy(p) ==
    /\ At(p, "savePolicy")
    /\ policy' = run[p].stamp
    /\ LexiconReady(p)
    /\ UNCHANGED <<dictionary, augmented, resultFiles, corpora, started, worn, crossed>>

-----------------------------------------------------------------------------
(* Candidates: reuse a whole export of the run directory or generate one.  *)

Whole(file) == file \in Content
Generated(file) == IF file \in Barren THEN 0 ELSE Rows

\* An export without bags ends the run before anything is ranked.
Summarised(p) ==
    LET file == candidates[run[p].token] IN
    run' = [run EXCEPT ![p] =
        IF Generated(file) = 0
        THEN Done(p, [NoPayload EXCEPT !.content = file])
        ELSE [@ EXCEPT !.at = "hash"]]

FindCandidates(p) ==
    /\ At(p, "candidates")
    /\ IF ~run[p].request.rebuild /\ Whole(candidates[run[p].token])
       THEN Summarised(p)
       ELSE run' = [run EXCEPT ![p].at = "dictionary", ![p].child = TRUE]
    /\ UNCHANGED <<lexiconFiles, resultFiles, corpora, started, worn, crossed>>

\* publish(): one rename puts a whole value in the place of whatever was there.
Published(files, key, value) ==
    [k \in DOMAIN files \cup {key} |-> IF k = key THEN value ELSE files[k]]

\* The generator reads the augmented dictionary and writes a private export; it
\* is renamed to candidates.txt only when the generator succeeded.
GenerateInPlace(p) ==
    /\ At(p, "generate")
    /\ run' = [run EXCEPT ![p].at = "publish", ![p].text = augmented]
    /\ candidates' = [candidates EXCEPT ![run[p].token] = "damaged"]
    /\ UNCHANGED <<lexiconFiles, prepared, rankings, reranked, corpora, started, worn, crossed>>
Generate(p) ==
    /\ At(p, "generate")
    /\ run' = [run EXCEPT ![p].at = "publish", ![p].text = augmented]
    /\ UNCHANGED <<lexiconFiles, resultFiles, corpora, started, worn, crossed>>

PublishCandidates(p) ==
    /\ At(p, "publish")
    /\ candidates' = Published(candidates, run[p].token, run[p].text)
    /\ run' = [run EXCEPT ![p].at = "verify", ![p].text = "none"]
    /\ UNCHANGED <<lexiconFiles, prepared, rankings, reranked, corpora, started, worn, crossed>>

Verify(p) ==
    /\ At(p, "verify")
    /\ IF Whole(candidates[run[p].token]) THEN Summarised(p)
       ELSE run' = [run EXCEPT ![p] = NoRun]
    /\ UNCHANGED <<lexiconFiles, resultFiles, corpora, started, worn, crossed>>

-----------------------------------------------------------------------------
(* Rankings: reuse a saved one, or start the reranker.                     *)

\* ranking_key hashes the rows of the candidates and then looks at the files of
\* the n-grams and of WordNet, one directory after the other.  A file that goes
\* between the listing and its stat counts as one that was not listed.
HashCandidates(p) ==
    /\ At(p, "hash")
    /\ run' = [run EXCEPT ![p].at = "ngrams",
                          ![p].seen = [NoSeen EXCEPT !.content = candidates[run[p].token]]]
    /\ UNCHANGED <<lexiconFiles, resultFiles, corpora, started, worn, crossed>>

ListNgrams(p) ==
    /\ At(p, "ngrams")
    /\ run' = [run EXCEPT ![p].at = "root", ![p].seen.bigrams = bigrams]
    /\ UNCHANGED <<lexiconFiles, resultFiles, corpora, started, worn, crossed>>

\* The process's own unpacking directory is changed by nobody else.
ListRoot(p) ==
    /\ At(p, "root")
    /\ run' = [run EXCEPT ![p].at = "trees", ![p].todo = Trees \ {p},
                          ![p].seen.archive = archive, ![p].seen.trees[p] = trees[p]]
    /\ UNCHANGED <<lexiconFiles, resultFiles, corpora, started, worn, crossed>>

\* The key is wanted before the rankings are looked up and before one is saved.
ListTree(p) ==
    /\ At(p, "trees")
    /\ \E t \in run[p].todo :
          run' = [run EXCEPT
              ![p].todo = @ \ {t}, ![p].seen.trees[t] = trees[t],
              ![p].at = IF run[p].todo # {t} THEN "trees"
                        ELSE IF run[p].ranking = NoPayload THEN "lookup" ELSE "save"]
    /\ UNCHANGED <<lexiconFiles, resultFiles, corpora, started, worn, crossed>>

KeyWithoutCorpora(p) ==
    [run |-> run[p].token, content |-> run[p].seen.content,
     options |-> run[p].request.options,
     archive |-> FALSE, trees |-> [t \in Trees |-> {}], bigrams |-> FALSE]
RankingKey(p) ==
    [run |-> run[p].token, content |-> run[p].seen.content,
     options |-> run[p].request.options, archive |-> run[p].seen.archive,
     trees |-> run[p].seen.trees, bigrams |-> run[p].seen.bigrams]

\* Every row is saved, whatever number of rows this run was asked to show.
SavedCut(p, ranking) == [ranking EXCEPT !.rows = run[p].request.top]
Saved(p, ranking) == ranking

Shown(p, ranking) ==
    [ranking EXCEPT !.rows = IF @ < run[p].request.top THEN @ ELSE run[p].request.top]

\* load_results: a saved ranking with its schema, its checksum and valid rows.
Readable(key) == key \in DOMAIN rankings /\ rankings[key].rows > 0

FindRanking(p) ==
    LET key == RankingKey(p) IN
    /\ At(p, "lookup")
    /\ IF /\ ~run[p].request.rebuild
          /\ Readable(key)
       THEN run' = [run EXCEPT ![p] = Done(p, Shown(p, rankings[key]))]
       ELSE run' = [run EXCEPT ![p].at = "wordnet", ![p].seen = NoSeen]
    /\ UNCHANGED <<lexiconFiles, resultFiles, corpora, started, worn, crossed>>

(* The reranker provisions WordNet for itself.                             *)

\* find_wordnet_dict accepts the first directory below the root, whoever made
\* it, that holds the index files.
FoundTrees == {t \in Trees : "index" \in trees[t]}

FindWordNet(p) ==
    /\ At(p, "wordnet")
    /\ \/ \E t \in FoundTrees :
             run' = [run EXCEPT ![p].at = "load", ![p].tree = t]
       \/ FoundTrees = {} /\ Goes(p, "archive")
    /\ UNCHANGED <<lexiconFiles, resultFiles, corpora, started, worn, crossed>>

FetchArchive(p) ==
    /\ At(p, "archive")
    /\ archive' = TRUE
    /\ run' = [run EXCEPT ![p].at = "unpack", ![p].todo = WordNet]
    /\ trees' = [trees EXCEPT ![p] = {}]
    /\ UNCHANGED <<lexiconFiles, resultFiles, bigrams, started, worn, crossed>>

Unpack(p) ==
    /\ At(p, "unpack") /\ run[p].todo # {}
    /\ \E file \in run[p].todo :
          /\ trees' = [trees EXCEPT ![p] = @ \cup {file}]
          /\ run' = [run EXCEPT ![p].todo = @ \ {file}]
    /\ UNCHANGED <<lexiconFiles, resultFiles, archive, bigrams, started, worn, crossed>>

\* An older tree is removed first, even one that another run is filling.
StartCopy(p) ==
    /\ At(p, "unpack") /\ run[p].todo = {}
    /\ trees' = [trees EXCEPT !["dict"] = {}]
    /\ run' = [q \in Processes |->
                 IF q = p THEN [run[p] EXCEPT !.at = "copy", !.todo = WordNet, !.torn = FALSE]
                 ELSE [run[q] EXCEPT !.torn = @ \/ run[q].at = "copy"]]
    /\ UNCHANGED <<lexiconFiles, resultFiles, archive, bigrams, started, worn, crossed>>

Copy(p) ==
    /\ At(p, "copy") /\ run[p].todo # {}
    /\ \E file \in run[p].todo :
          /\ trees' = [trees EXCEPT !["dict"] = @ \cup {file}]
          /\ run' = [run EXCEPT ![p].todo = @ \ {file}]
    /\ UNCHANGED <<lexiconFiles, resultFiles, archive, bigrams, started, worn, crossed>>

\* A copy whose directory was removed under it may fail; its unpacking
\* directory is removed in any case.
EndCopy(p) ==
    /\ At(p, "copy")
    /\ \/ /\ run[p].todo = {}
          /\ trees' = [trees EXCEPT ![p] = {}]
          /\ Goes(p, "wordnet")
       \/ /\ run[p].torn
          /\ trees' = [trees EXCEPT ![p] = {}]
          /\ run' = [run EXCEPT ![p] = NoRun]
    /\ UNCHANGED <<lexiconFiles, resultFiles, archive, bigrams, started, worn, crossed>>

\* Without the index files the load fails; the other files are optional.
LoadWordNet(p) ==
    /\ At(p, "load")
    /\ IF "index" \in trees[run[p].tree]
       THEN run' = [run EXCEPT ![p].at = "prepared", ![p].lexicon = trees[run[p].tree]]
       ELSE run' = [run EXCEPT ![p] = NoRun]
    /\ UNCHANGED <<lexiconFiles, resultFiles, corpora, started, worn, crossed>>

-----------------------------------------------------------------------------
(* The stages of the reranker's main.                                      *)

PreparedKey(p) ==
    [run |-> run[p].token, content |-> candidates[run[p].token],
     lexicon |-> trees[run[p].tree]]

\* load_prepared_cache: a file whose rows all pass their bounds, or nothing.
ValidRows(key) == key \in DOMAIN prepared /\ prepared[key] # NoRows

\* Valid rows of the cache replace the parse and the preparation.
FindPrepared(p) ==
    LET key == PreparedKey(p) IN
    /\ At(p, "prepared")
    /\ IF /\ ~run[p].request.rebuild
          /\ ValidRows(key)
       THEN run' = [run EXCEPT ![p].at = "bigrams", ![p].made = prepared[key]]
       ELSE run' = [run EXCEPT ![p].at = "parse", ![p].rowsKey = key]
    /\ UNCHANGED <<lexiconFiles, resultFiles, corpora, started, worn, crossed>>

\* The candidates are read again, and their rows are saved under the key
\* computed before.  A file without rows ends the reranker.
Prepare(p) ==
    LET file == candidates[run[p].token]
        rows == [content |-> file, lexicon |-> run[p].lexicon]
    IN
    /\ At(p, "parse")
    /\ IF Generated(file) = 0
       THEN /\ run' = [run EXCEPT ![p] = NoRun]
            /\ UNCHANGED prepared
       ELSE /\ prepared' = Published(prepared, run[p].rowsKey, rows)
            /\ run' = [run EXCEPT ![p].at = "bigrams", ![p].made = rows]
    /\ UNCHANGED <<lexiconFiles, candidates, rankings, reranked, corpora, started, worn, crossed>>

FetchBigrams(p) ==
    /\ At(p, "bigrams")
    /\ bigrams' = TRUE
    /\ Goes(p, "export")
    /\ UNCHANGED <<lexiconFiles, resultFiles, archive, trees, started, worn, crossed>>

\* The reranker's private export, read back by the frontend.
Export(p) ==
    /\ At(p, "export")
    /\ run' = [run EXCEPT ![p].at = "hash",
         ![p].ranking = [content |-> run[p].made.content,
                         options |-> run[p].request.options,
                         lexicon |-> run[p].made.lexicon \cap run[p].lexicon, rows |-> Rows]]
    /\ UNCHANGED <<lexiconFiles, resultFiles, corpora, started, worn, crossed>>

SaveResults(p) ==
    LET key == RankingKey(p) IN
    /\ At(p, "save")
    /\ rankings' = Published(rankings, key, Saved(p, run[p].ranking))
    /\ Goes(p, "publishRanking")
    /\ UNCHANGED <<lexiconFiles, candidates, prepared, reranked, corpora, started, worn, crossed>>

\* What is shown was read from the private export, never from the shared one.
AnswerFromTheSharedExport(p, ranking) == Shown(p, reranked[run[p].token])
Answer(p, ranking) == Shown(p, ranking)

PublishRanking(p) ==
    /\ At(p, "publishRanking")
    /\ reranked' = Published(reranked, run[p].token, run[p].ranking)
    /\ run' = [run EXCEPT ![p] = Done(p, Answer(p, run[p].ranking))]
    /\ UNCHANGED <<lexiconFiles, candidates, prepared, rankings, corpora, started, worn, crossed>>

-----------------------------------------------------------------------------
(* What happens around the runs.                                           *)

Stop(p) ==
    /\ run[p].at \notin {"idle", "done"}
    /\ run' = [run EXCEPT ![p] = NoRun]
    /\ UNCHANGED <<lexiconFiles, resultFiles, corpora, started, worn, crossed>>

\* anagram_user_generate.py --refresh: the dictionary is replaced whatever the
\* runs are doing.  What the refresher derives from it afterwards is what a run
\* derives that is stopped before its candidates.
ReplaceDictionary ==
    /\ dictionary # "none" /\ PublishDictionary
    /\ UNCHANGED <<augmented, policy, resultFiles, corpora, run, started, worn>>

\* A file is damaged between runs; every reader but that of the augmented
\* dictionary can tell.
Damage ==
    /\ Idle /\ ~worn /\ worn' = TRUE
    /\ \/ /\ policy # "none" /\ policy' = "damaged"
          /\ UNCHANGED <<candidates, prepared, rankings>>
       \/ /\ \E v \in Content : /\ candidates[v] # "none"
                                /\ candidates' = [candidates EXCEPT ![v] = "damaged"]
          /\ UNCHANGED <<policy, prepared, rankings>>
       \/ /\ \E k \in DOMAIN prepared : prepared' = [prepared EXCEPT ![k] = NoRows]
          /\ UNCHANGED <<policy, candidates, rankings>>
       \/ /\ \E k \in DOMAIN rankings : rankings' = [rankings EXCEPT ![k].rows = 0]
          /\ UNCHANGED <<policy, candidates, prepared>>
    /\ UNCHANGED <<dictionary, augmented, reranked, corpora, run, started, crossed>>

RunsNext ==
    \/ \E p \in Processes :
         \/ \E r \in Requests : Begin(p, r)
         \/ FindDictionary(p) \/ Download(p) \/ ReadStamps(p)
         \/ LoadPolicy(p) \/ ReadBase(p) \/ WriteAugmented(p) \/ SavePolicy(p)
         \/ FindCandidates(p) \/ Generate(p) \/ PublishCandidates(p) \/ Verify(p)
         \/ HashCandidates(p) \/ ListNgrams(p) \/ ListRoot(p) \/ ListTree(p)
         \/ FindRanking(p) \/ FindWordNet(p) \/ FetchArchive(p) \/ Unpack(p)
         \/ StartCopy(p) \/ Copy(p) \/ EndCopy(p) \/ LoadWordNet(p)
         \/ FindPrepared(p) \/ Prepare(p) \/ FetchBigrams(p) \/ Export(p)
         \/ SaveResults(p) \/ PublishRanking(p)
         \/ Stop(p)
    \/ ReplaceDictionary \/ Damage

RunsSpec == RunsInit /\ [][RunsNext]_runVars

-----------------------------------------------------------------------------
(* Properties                                                              *)

\* A finished run shows a ranking made under its own options and cut at its own
\* --top, whoever else ran beside it: the promise of anagram_solver.py:550-552,
\* "simultaneous runs cannot return each other's results (or consume a partially
\* written export)".  It is the ranking of the dictionary its own key names,
\* unless the dictionary was replaced while a run was deriving from it.
ResultsAreOwn ==
    \A p \in Processes : run[p].at = "done" =>
        /\ crossed \/ run[p].ranking.content = run[p].token
        /\ Generated(run[p].ranking.content) > 0 =>
             /\ run[p].ranking.options = run[p].request.options
             /\ run[p].ranking.rows = run[p].request.top

\* What anagram_solver.py:498-500 says of the run directories: "refreshed
\* dictionary/frequency data cannot silently reuse candidates generated under an
\* older policy".  The directory of a version holds no candidates of an older one.
CandidatesAreNotOlder ==
    \A i, j \in DOMAIN Versions : candidates[Versions[j]] = Versions[i] => i >= j

\* A run directory only ever holds candidates generated from the dictionary its
\* name was derived from, whatever was interrupted between the augmented
\* dictionary and the policy and whenever the dictionary is refreshed, except
\* between the stamps and the generation of a run.
CandidatesMatchTheirRun ==
    crossed \/ \A v \in Content : candidates[v] \in {"none", "damaged", v}

\* A saved ranking was made under the options of its key, and the key knows the
\* bigrams and the WordNet archive the ranking was made from: it is recomputed
\* because a cold run provisions corpora while it ranks (anagram_solver.py:562).
\* Its candidates are those the key names, with the same exception.
RankingsMatchTheirKeys ==
    \A k \in DOMAIN rankings :
        LET r == rankings[k] IN
        r.rows > 0 =>
            /\ r.options = k.options
            /\ k.bigrams /\ k.archive
            /\ crossed \/ r.content = k.content

\* The files a later run takes without asking are what their names say.
CachedFilesMatchTheirKeys == CandidatesMatchTheirRun /\ RankingsMatchTheirKeys

\* A whole candidate export is replaced by a whole one: no run, rebuilding,
\* failing or stopped, takes away what another one is ranking.
WholeExportsStay ==
    [][~worn' => \A v \in Content : Whole(candidates[v]) => Whole(candidates'[v])]_candidates
=============================================================================
