# Formal models of TajsAnagrams

TLA+ specifications of the desktop anagram solver in this repository (its job
owner, the execution of a request, its exact search and its parallel ranking, the
result cache the processes share, the maintenance panel of its user interface, and its
installer) and of the archived Python programs the native engine is held to: the
runs that share one data directory, the generator, the reranker with its orders,
grammar and phrase evidence, the phrase index, the case registry and the measurements.
TLC checks each of them on a small instance; what eight of them promise of every state
and every step (the job owner, the exact search, the deep ranking, the execution, the
panel, the installer, the archived facade and the archived runs, see "Proofs"), and that the
cache is a bounded queue to its readers, is also proved with TLAPS for every instance. Paths
below are relative to the repository.

## The system

A desktop window (Svelte, one event loop) calls commands of a Rust host (Tauri).
The host owns at most one worker thread, which runs a solve, a generation or a
maintenance operation with the engine (`anagram-core`). The command line
(`anagram-cli`) calls the same engine. Both share the ranked-result cache, a
SQLite file. A PowerShell installer moves and replaces the installed program.

`archive/` holds the Python implementation, "a pinned historical oracle"
(`archive/README.md`): a front end starts a generator and a reranker as child
processes and caches what they make; the reranker is a facade over three layers; an
index of n-grams, a registry of cases and several measurements go with it. The golden
files of `tests/parity` come from it, so what it computes is what the native engine
promises to compute.

| Component | State it keeps | Operations | Talks to |
|---|---|---|---|
| Job owner (`jobs.rs`, `experimental.rs`, command handlers in `main.rs`) | one mutex over the current job, the current operation, a cancellation control, the worker's join handle, `closing` and the settings | start, cancel, save settings, clear the cache, shut down; the worker publishes statuses and settles | callers block on its mutex; it joins the worker; the worker calls back into it |
| Maintenance operations (`management.rs`) | files in staging directories | validate, prepare corpora, build data, train | runs in the job owner's worker |
| Settings store (`settings.rs`) | `settings.json` | load with migration, validate, save by atomic replacement | job owner |
| Solve pipeline (`solve.rs`, `progress.rs`, `contracts.rs`, `policy.rs`) | the status of an execution | admit, load, look up, generate, prepare, rank, rescore, finalize, publish | its control, the cache, the observer of its caller |
| Result cache (`cache.rs`) | one SQLite table and its limits | open, look up, put, clear | every process that solves |
| Deep ranking (`ranking.rs`) | a shared task counter, a channel, the rows | workers rank rows; a coordinator collects them | the pipeline's observer and control |
| Generation (`generation.rs`, `request.rs`) | depth-first streams and their dead states | enumerate bags with budget, group limits and interruption | the pipeline |
| Control (`control.rs`) | a shared flag and a deadline | cancel, check, interruptible sort and reader | everything |
| Maintenance panel (`Management.svelte`) | busy, cancelling, report, a timer, a revision | run, cancel, poll, open a manifest | job owner, by asynchronous calls |
| Main window (`App.svelte`, `bridge.ts`) | the snapshot on display | start, cancel, poll | job owner |
| Installer (`tools/desktop-installation.ps1`) | a journal in a recovery directory | move, copy, activate, undo | the file system |
| Orders, diversity, corpus ranking, refinement | none | pure functions | deep ranking |
| Linguistic scoring, corpora, feature ranker, phrase builder, contracts | tables and files | pure functions, parsing, training | the pipeline |
| Archived runs (`anagram_solver.py` and its caches) | dictionary, policy, candidates, rankings, WordNet and n-grams in one directory | resolve the lexicon, generate, provision, rank, publish | other runs, by files alone |
| Archived generator (`anagram_generate.py`) | streams and dead states | plan, admit words, search, rank | its export |
| Archived reranker (`anagram_rerank*.py`, `anagram_order_*.py`) | rows, retained orders | prepare, analyse in batches, retain, rescore, list | its facade, a worker pool |
| Its facade and adapters (`anagram_rerank.py`, `anagram_performance.py`) | names, width and tables of modules | patch around a call, restore | threads of one process |
| Its grammar (`anagram_*_grammar.py`, `anagram_clause_validity.py`) | none | spans, constructions, chains, validity | the orders |
| Archived phrase index (`build_wikimedia_phrase_index.py`, `anagram_corpus_cohesion.py`) | a SQLite table, a cache of counts | download, build, count, segment | the rescoring |
| Case registry (`anagram_suite.py`) | `anagram_benchmarks.json` | add, remove, switch, validate | every suite |
| Measurements (`anagram_benchmark.py`, `ci_*.py`, `*_feature_ranker.py`) | none | benchmark, gate, cross-validate | reranker, registry |

`PROJECT.json` lists every component with its status.

### What is hard about it

- The worker takes the mutex of the job owner for every status. A start joins the
  previous worker *with the mutex held*; shutdown joins without it. Whether this
  deadlocks depends on when the `active` flags are cleared.
- Workers write their statuses into the current job without comparing ids, and
  every start replaces the control, so "the job", "the control" and "the thread"
  have to be the same run at all times.
- Cancellation and deadlines race with every stage, with the last check and with
  the settlement. A request to cancel may arrive for a job that was replaced.
- Statuses are built at some twenty places from separate pieces, and each must
  satisfy a contract that relates state, stage and counts.
- The cache is shared by processes with different limits; each transaction can
  stop anywhere; only complete results may be stored in it.
- The panel's replies can be overtaken by its own newer calls, by the end of the
  operation and by the next one.
- Archived runs have no lock at all: any two of them, a stop between two file
  operations and a refreshed dictionary meet in the same directory.
- Threads inside the archived reranker patch and restore the names of one module.
- What the reranker keeps of a search is pruned three times (states, retained
  orders, shortlist), in an order that depends on rows, batches and ties.
- The phrase index adds counts in flushes, and a crash leaves some of them.

### What makes each part correct

- *Job owner*: one thread at a time; every start and shutdown returns; the snapshot
  only ever shows its own job and ends in one final verdict; a stop reaches the run
  it was meant for and no other; settings in memory and on disk agree.
- *Execution*: every status it emits is valid and follows from the one before; a
  success shows exactly what the request yields, computed or cached; an
  interrupted execution never enters the cache; a cancellation is what the last
  status says.
- *Cache*: to its readers a bounded first-in-first-out queue with atomic puts.
- *Panel*: locked while its operation runs, one polling chain, no report of an older
  operation, usable again in the end.
- *Deep ranking*: no row is ranked twice, success means every row was ranked, the
  error of any worker surfaces, counts fit the rows and never go back, and the
  coordinator returns.
- *Generation*: exactly the bags of the request, each once, whatever the dead states
  and the bounds cut off; a prefix without gaps; a reason for its end that is true.
- *Installer*: a rollback that finishes leaves the file system as it was; the installer's
  own steps never block it; no content of the user is ever gone.
- *Archived runs*: every run shows its own ranking; a file is what its name says; a
  whole export is only replaced by a whole one.
- *Generator*: every answer obeys the request, none is lost below the cap, and the
  report of truncation is true.
- *Reranker*: the ranking is a function of the bags and the settings; what is kept is
  the best; evidence never lowers a row.
- *Facade*: nobody gets what another asked for, nothing is left behind.
- *Grammar*: chains ask each word for its form, and clauses have subjects.
- *Index*: a completed build counts every gram; an answer from the cache is the table's.
- *Registry and measurements*: suites stay runnable; a measurement measures the
  program, and tests on nothing it has learned.

## Modules

| Module | Models | Role |
|---|---|---|
| `DesktopJobs` | `jobs.rs`, `experimental.rs`, commands of `main.rs` | the job owner, its callers and workers |
| `SolverSlot` | what the job owner promises | abstract specification: one slot, one verdict per job |
| `DesktopJobsRefinement` | | `DesktopJobs` implements `SolverSlot` |
| `DesktopProofs` | | theorems about `DesktopJobs` and `DesktopInstallation` |
| `GenerationSearchProofs`, `ParallelRankingProofs`, `SolveExecutionProofs`, `MaintenancePanelProofs`, `ResultCacheProofs` | | theorems about the module each is named after |
| `ReferenceProofs` | | theorems about `ReferenceFacade` and `ReferenceRuns` |
| `FunctionSums` | | lemmas about sums over finite sets, for these |
| `MCDesktopJobs` | | the instance TLC uses |
| `MaintenancePanel` | `Management.svelte` with the backend's operation slot | the panel, calls, replies, the operation |
| `SolveExecution` | `solve.rs`, `progress.rs`, `generate_only` of `jobs.rs` | executions of one request and their statuses |
| `ResultCache` | `cache.rs` as `solve.rs` uses it | transactions of several processes |
| `GenerationSearch` | `generation.rs` | streams, their stacks and dead states, turns, budget |
| `MCGenerationSearch` | | the vocabularies and options TLC uses |
| `ParallelRanking` | `deep_analyze_parallel` of `ranking.rs` | workers, the channel, the coordinator |
| `MCParallelRanking` | | the counts TLC uses |
| `DesktopInstallation` | `tools/desktop-installation.ps1` | the plan, the statements, the journal, the undo |
| `MCDesktopInstallation` | | the file systems TLC starts from |
| `BoundedFifo` | what the cache promises | abstract specification: a bounded queue |
| `ResultCacheRefinement` | | `ResultCache` implements `BoundedFifo` |
| `MCResultCache` | | the limits TLC uses |
| `ReferenceRuns` | `anagram_solver.py`, `anagram_user_lexicon.py`, `anagram_run_cache.py`, `anagram_cache_io.py`, provisioning in `anagram_rerank_core.py` | runs as processes, one file operation a step |
| `MCReferenceRuns` | | requests and dictionaries TLC uses |
| `ReferenceGeneration` | `anagram_generate.py`, limits of `anagram_solver.py` | one request to the generator |
| `ReferenceOrdering` | the order search, `anagram_order_diversity.py`, `anagram_order_refinement.py` | operators, used by `ReferenceRanking` and `ReferenceBenchmark` |
| `ReferenceRanking` | `anagram_rerank.py`, `anagram_rerank_topk_impl.py`, `anagram_rerank_core.py` | one ranking, from rows to export |
| `ReferenceFacade` | `anagram_rerank.py`, `anagram_performance.py` | threads inside and outside the facade |
| `ReferenceGrammar` | `anagram_rerank_core.py`, `anagram_auxiliary_grammar.py`, `anagram_comparative_grammar.py`, `anagram_clause_validity.py` | the structure score of an order |
| `ReferenceCorpus` | `build_wikimedia_phrase_index.py`, `anagram_corpus_cohesion.py`, the cached index | builds with crashes, counts, cohesion |
| `ReferenceRegistry` | `anagram_suite.py` | edits of the registry |
| `ReferenceBenchmark` | `anagram_benchmark.py`, `ci_ordering_gate.py`, `ci_order_refinement.py`, `train_feature_ranker.py`, `anagram_feature_ranker.py` | measurements |
| `MCReferencePrograms` | | the last eight side by side, with the data TLC uses |

### The job owner: `DesktopJobs`

`job`, `experiment`, `control`, `worker`, `closing` and `settings` are the fields of
`Inner` (`jobs.rs:20-31`). `lock` is the holder of the mutex, `pc` and `joinee` say
what a caller is in the middle of, `run` is the set of worker threads. A critical
section that cannot block is one action. Three are more than one action:

- a start: `Enter` (admission, `worker.take()`), then `LaunchJob`,
  `LaunchOperation` or one of the failures once the join has returned, all with
  the mutex held;
- clearing the cache: `BeginClear`, `EndClear`, with the mutex held;
- shutdown: `BeginShutdown`, `EndShutdown`, without the mutex in between.

A worker does `Report` (a status through the observer), `Decide` (the closure
returned), `ReportEnd` (the terminal status of `Progress::finish`), `Settle` (the
outcome and `active = false` in one section) and `ThreadExit`. What it may decide is
`OutcomesOf`: with a `Progress` the last check of the control overrides the result
(`solve.rs:169`), an operation reports every failure as one error. A rejected command
changes nothing and is not an action. The read-only commands are left out, because
they change nothing; so are the poisoned-mutex branches (`catch_unwind` keeps the
panics of a run away from the mutex) and a result that cannot be serialized.

### The panel: `MaintenancePanel`

One action per turn of the event loop: `Run`, `Cancel`, `Poll`, `Dispose`, and
`Deliver` for the code after an `await`. The backend takes calls in the order they
were sent (its commands are synchronous functions); replies are promises of their
own, so they may be handled in any order unless `InOrder`. The revision counter
appears as a flag on each call, `fresh`: the code compares a reply's number only with
the latest one, and `++revision` makes all calls in flight stale. `reopen` is three
actions: `Reopen` opens the file dialog (`choose_path` answers it from a thread of its
own, so other calls are not held up), `Choose` is the code after the first `await`,
`ReadReply` the code after the second. It shows the manifest it read (`Opened`) without
looking at `busy` or the revision, so this may come in the middle of an operation, after
it, or between two of its status replies.

### The execution: `SolveExecution`

The pipeline's position is `pc`, `status` is the record in `Progress`, `emitted` what
the observer saw last: several places change the record without emitting it. `Step`
is a piece of `run()` between two emits and checks the control where the code does
(`Checked`); `Interrupted` is the early return of such a check, `Fails` an error from
inside a stage. The end is two actions, as in the code: `Conclude` is the last check of
the control with what hangs on it (`solve.rs:169-175`), `Publish` the terminal status
(`Progress::finish`); a cancellation or the deadline may fall between the two. `yield` is what a complete computation of the request gives, the same
each time. `Again` starts the same request anew with the cache it left behind.
Stored payloads may also be damaged, or claim what the request cannot have produced
(`Foreign`): the checks of `solve.rs:296-318` are `Reusable`.

### The cache: `ResultCache`

`table` holds the committed rows, `draft` what the one open transaction sees, `writer`
who has it open. `Prune` is one turn of the loop. `Abandon` stands for every way to
leave early: a storage error, a busy database, an interruption, the death of the
process. Keys are the opaque digests of requests; payloads are known by their size.

### The search: `GenerationSearch`

Each problem is what `generate_inner` (`request.rs:351-360`) hands to `search`: the
target's letters, the admitted words in their order, the clues, those the required
words meet already, the word counts and the options. `streams` is the queue of
`search`, its head the stream that has its turn; `frames`, `dead` and `produced` are
the fields of `Stream`. Every iteration of the loop in `Stream::next` is one action,
named for what it decides: `SkipDead`, `Reject`, `Retire`, `PassOver`, `Choose`,
`PushRoot`, or a bag (`Keep`, `Duplicate`, `Cap`). The index by signature is the set
`Finisher`; the lists keep admission order, so its first element from `next` on is the
code's binary search. `Interrupt` stands for a cancel and for a deadline.
`SolutionsOf` is the reference: every sequence of indices, filtered by the definition
of a bag, with no order of search, no pruning and no memory.

### The ranking: `ParallelRanking`

Workers claim rows from the shared counter (`TakeTask`), rank them in three steps that
may interleave with those of the other workers (`Observe`, `FinishRow`, `SendRow`), and
end by running dry, by a stop, by an error or by a panic. `channel` is the `mpsc`
queue, `open` the coordinator's own sender, which it drops before it receives. `Join`
takes the handles in order. A worker's error is reported only by its join; its last
counts, by its messages.

### The installer: `DesktopInstallation`

`fs` maps paths (sequences of names) to contents; moving a directory moves what is below
it. `plan` is the result of `New-DesktopInstallPlan`, `Accepted` what it does not throw
for. `Statement(k)` gives the elementary operations of the k-th statement of
`Invoke-DesktopInstallation`, computed when its turn comes because some test the file
system; `ops` is what is left of them. Each operation also writes its journal entry, a
file's with the snapshot the code keeps in the recovery directory. `Throw` stands for
every exception, `CopyBreaks` for a copy that leaves a wrong file behind, `Activate` for
the started application, which writes before it succeeds or fails: a data directory if
there is none, relocated settings, a web view cache if there is none (what it changes
inside a cache it finds is its own). The undo takes one
entry a step and gives up at the first it cannot undo (`Blocked`) or the disk refuses
(`UndoBreaks`).

### The archived runs: `ReferenceRuns`

`run` is the state of each process: one run of `anagram_solver.py`, with its children,
which it waits for, so that parent and child are one sequence of file operations. Files
hold what they were derived from: `augmented`, `policy` and `candidates` a version of the
dictionary, `rankings` the candidates, options and corpora they were ranked with. A rename publishes in one step; a directory that is
copied or unpacked (`StartCopy`, `Copy`, `Unpack`) has a partial state that others see.
`Stop` covers every way in which a run ends early, `Damage` a file that is torn from
outside.

What is read in several steps is read in several actions. The lexicon: `FindDictionary`
asks whether there is a dictionary, `Download` publishes one, `ReadStamps` takes its
stamps, `ReadBase` reads it, `WriteAugmented` publishes what was derived from what was
read. A ranking's key: `HashCandidates`, `ListNgrams`, `ListRoot`, `ListTree`, one for each
directory (`anagram_run_cache.py:33-45` stats file by file). Prepared rows: `FindPrepared`
computes the key, `Prepare` reads the candidates again and saves the rows under it.

Nothing locks the directory, so `ReplaceDictionary` (`anagram_user_generate.py --refresh`) and
the `Download` of a cold run replace the dictionary whatever the other runs are doing.
What the code promises of candidates and their directory does not survive a replacement
while a run is between its stamps and its generation: `crossed` records that this has
happened, and the run `reference_runs_refresh` shows what comes of it. The properties
say which of their parts hold only without it; all others hold with it.

### The archived generator: `ReferenceGeneration`

`Refuse`, `AnswerDirectly`, `Constrain` and `Admit` are the steps before the search,
`Plan` the constraints they derive. A stream is a pure generator in the code, so `Dfs`
computes the sequence of bags it would produce, dead states included, and `Accept`,
`StreamEnds`, `Truncate` interleave the streams as `solve_many` does. `Rank` is
`write_full_export`. Logarithms come from a table (`Ln`), scores are integers.

### The archived reranker: `ReferenceOrdering`, `ReferenceRanking`, `ReferenceFacade`

`ReferenceOrdering` has no variables: `KBestLocalOrders` is the dynamic programming with
its pruning, `RealizedOrders` the choice between exact search and beam, `Retain` the
diverse subset, `RefineOrder` and `AugmentSeedPool` the climbs. `ReferenceRanking` goes
from `Prepare` over `StartAnalysis` and one `EndBatch` for each batch, in any order, to
`Rescore`, `Export`. `ReferenceFacade` forgets rows and scores: only who patched what,
when it is restored, and what each thread finds under the name it calls.

### The structure grammar: `ReferenceGrammar`

One text goes through `FindSpans` (noun phrases from each word and up to each word),
`FindTails` (what may follow a verb), `PhraseStructure` (the core's constructions) and
`ScorePhrase` (auxiliaries, comparatives, parallel clauses, validity, penalties); each
tabulates what the Python functions compute on demand. Word classes, features, frames
and bases are constants, where the code asks WordNet. Scores are thousandths and
divisions round down, where the code has floats; over nine thousand random texts the
operators agreed with the Python functions except for a handful of ties that rounding
decides.

### The phrase index, the registry and the measurements

`ReferenceCorpus`: `EmitTitle` adds a title's grams to the counter, `Ingest` flushes it,
`BuildCrash` leaves what was committed. A dump is deleted (`Unlink`), opened (`Fetch`) and
written (`WriteChunk`) in place, so a build that stops leaves an empty file or a part, and the next
one takes either for the dump: a part fails it (`TruncatedDump`), an empty file is read as
one without titles (`EndSource`), and the build notes nothing; `missed` does. A reader
counts through the cache (`CountsGiven`, `CountsRemembered`). `ReferenceRegistry`: an
edit is written beside the registry, validated there and published by a rename
(`StartWriting`, `EndWriting`, `Publish`, `Reject`). `ReferenceBenchmark`: each `Run...`
action is one case or fold of a measurement, `Judge` the gate.

## Runs

| Run | Question | Bounds and why they are enough |
|---|---|---|
| `jobs` | Do the mutex, the worker, the flags, the verdict, the settings and shutdown agree in every interleaving, is a stop honoured and meant for its run, is it all one `SolverSlot`, does every worker end and every blocked caller return? | Two callers: one in a blocking section, one to interfere. Two runs: a worker and the one that joins it. Two settings, to tell old from new. No symmetry, because of the liveness. The safety properties are proved for any number of callers and runs. |
| `panel` | Does the panel stay locked, show no report of an older operation, keep one polling chain and recover? | Two operations, so that one reply can meet the other's run; three calls or file dialogs in flight, so that a manifest can be opened beside a start; two failed calls; one refused start; replies in any order. |
| `panel_cancel` | Is Cancel only disabled when it was pressed in this run? | Violated, even with replies in order and without failures; see the finding. |
| `cache` | Is it a bounded FIFO queue with atomic puts, and do transactions end? | Two processes with limits that differ in both dimensions, so each evicts what the other put; three keys for an eviction that has a choice; a payload one of them cannot keep; sequence numbers up to four, so that one is reused after clearing. |
| `generation` | Do pruning, dead states and turns change what is found, in which order, and what the end is blamed on? | Six vocabularies of at most five words over two letters: anagrams of each other (a state met again by another branch), a word that is the target, one with no bag. No clue, one, two, one that is no candidate, one a required word meets. Word counts from 1, from 2, and beyond the target. Budgets none, below, at and above the number of bags. Four dead states at most, so that the set fills up; bags of up to five words. |
| `ranking` | Is each row ranked once, is success complete, do counts fit and advance, does the coordinator return? | Two workers and three rows: one worker takes two rows while the other fails. One count in flight before a row's last one. |
| `installation` | Does a rollback restore, what can block it, is anything lost? | 375 file systems the preflight accepts: no installation, a current or a legacy one, with and without backups, corpus, profile, an old profile (complete, with corpus, diagnostics only), shortcuts. Two corpus files in one directory, either missing. A candidate that is the installed release, a new one, none. Failures at every operation and again in the undo. |
| `installation_rollback` | Does a rollback cover every failure that is not of the disk? | Violated; see the second finding. |
| `execution` | Are statuses valid and advancing, is a success the yield, is only the yield cached, is a cancel reported? | Up to two bags and three orders, which separates none, some and all; a budget that is reached, one that is not and none; a deployment limit the shortlist exceeds and none; two executions for every path through the cache. |
| `reference_runs` | Does every run show its own ranking, are files what their names say, does a rebuild keep whole exports whole? | Two processes and two runs, over a cold and a warm directory: the second run is beside the first or after it and meets what that one left; what a third would take is asserted of the files themselves. Three requests: two that share candidates but not `--top`, one with other options, one that rebuilds. Two dictionaries, the second without candidates, replaced or downloaded at any moment. One damaged file and stops everywhere. |
| `reference_runs_refresh` | Does a directory never hold candidates of an older dictionary? | Violated; see the third finding. |
| `reference_programs` | Do the seven programs keep what they promise? | See below. |

The programs of `reference_programs` share no memory, so a behaviour runs one of them:

- *generation*: seven words over two letters, so that bags, anagrams and dead states
  meet; three targets, required words that are clues, one that is not in the dictionary,
  clues nobody can use, clues that fit but lead nowhere; caps of none, one and three.
- *ordering and ranking*: five rows of three and four words, some of them repeated,
  arriving in three orders with their words in other orders; batches of two; every order mode;
  wide and narrow retention; with and without bigrams and an index. Scores are uneven
  and include ties. Bags of up to five words against all permutations.
- *grammar*: 2,529 texts: an opening, a chain of auxiliaries, a verb and a tail, and pairs of
  fronted halves, from 29 words chosen for what the lexicon calls them ("a" and "being"
  are also nouns, "before" an adverb).
- *corpus*: two dumps of five titles, a flush after three grams, two builds with the
  files of the first one empty, partial or whole, a cache of four counts, four orders.
- *facade*: two callers, two workers, four calls, failures everywhere.
- *registry*: two registries, eight new cases, four edits; refused or killed anywhere.
- *measurements*: six cases in five lists, four refinements, three folds.

Every property of a passing run has a mutant in `PROJECT.json`: the change to the
code that breaks it.

### Fairness

- `DesktopJobs`: the operating system schedules the threads (weak fairness of what a
  caller or worker can do without the mutex) and the mutex does not starve a worker
  for ever (strong fairness of its three sections: callers may take the mutex between,
  and each such section is short). Computations end, by their deadline or their
  finite work. Nobody is assumed to start, cancel or close anything.
- `MaintenancePanel`: timers fire, calls are taken and answered, the oldest reply is
  handled, an operation settles. The user is not assumed to do anything.
- `ResultCache`: a process in a transaction goes on or dies.
- `SolveExecution`: the pipeline takes its steps.
- `ParallelRanking`: threads and the coordinator are scheduled, and ranking a row is
  finite work.
- `GenerationSearch`, `DesktopInstallation` and the archived programs have no liveness
  property and assume nothing.

### Deadlock

The job owner must never block for good, so TLC checks it for deadlock; an execution,
a search, a ranking, an installation, a panel and its user and the archived programs may
simply be done, so these runs do not.

## Findings

`panel_cancel`: `Management.svelte:25` sets `cancelling` when the call is answered,
whether or not the operation it was for still runs, and `run()` (line 17) does not
reset it as `Experimental.svelte:14` does. If the call crosses the last status of its
operation, the next operation shows "Cancelling; waiting for the worker" and its Cancel
button is disabled to its end, though its backend was never asked to stop. The panel
says "cancellation stays available" (line 42).

`installation_rollback`: on a first installation there is no profile yet. The started
application creates `user-data` (`main.rs:286`, `jobs.rs:114`) before its window can fail.
If it fails, the undo deletes the executable and then cannot delete the installation
directory (`desktop-installation.ps1:132`), because `user-data` is in it: the script ends
with "Rollback incomplete" and leaves the directories. The header says "Rollback covers
synchronous failures" (line 2). Not deleting what the installer does not own is deliberate;
that the application's directory is not foreseen is the disagreement, and
`BlockedOnlyByTheApplication` shows that it is the only case.

`reference_runs_refresh`: `anagram_solver.py:498-500` says the lexicon is resolved first "so
refreshed dictionary/frequency data cannot silently reuse candidates generated under an older
policy". A run reads the old dictionary; a refresh replaces it, and a second run derives and
saves the new lexicon; then the first run's augmented dictionary takes the place of the new
one (`anagram_user_lexicon.py:189`). The policy carries the new stamps, and of the augmented
file only the existence is asked (line 205), so the second run's generator publishes
candidates of the old dictionary in the directory of the new one, and every later run
reuses them.

### Seen while modelling

No run of its own, but worth a look by whoever maintains the panel, the installer or the
archive:

- `reopen` (`Management.svelte:20-24`) checks neither `busy` nor the revision when its file
  has been read: a manifest chosen before a start appears while that operation runs, until
  its next status reply, or in place of its report when it has ended.
- A cancellation after the last check of the control (`solve.rs:169`) and before the last
  status (line 176) is in time for nobody: the last status says `Succeeded`, although the
  flag is set. `StatusesAreTrue` asks for a cancelled end only if the check saw it.
- A generator that meets a newer dictionary than its front end did (its child resolves the
  lexicon again) publishes newer candidates in the older directory.
- `ranking_key` looks at one directory of corpora after the other (`anagram_run_cache.py:33-45`).
  While WordNet is copied, it can miss every whole tree, and a ranking made from a half-copied
  one can be saved under the key of the whole. `RankingsMatchTheirKeys` therefore asks of a key
  the archive and the bigrams, not the trees.
- `download` (`build_wikimedia_phrase_index.py:91`) opens the dump in place. After a crash
  before the first write the next build finds an empty file, takes it for the dump (line 275),
  reads no title, and completes. `CompletedBuildsCount` excepts exactly these projects.
- A prepositional tail counts one word too many: `anagram_rerank_core.py:1793` sets
  `consumed = np[0] + 2` for an inclusive end, where `anagram_auxiliary_grammar.py:287`
  explains that `end + 1` is exact; the `min` with the tail's length hides it at the end
  of a text.
- A comparative clause (`anagram_auxiliary_grammar.py:403`) does not ask
  `valid_subject_head` of its subject as the other clauses do, so an article that WordNet
  knows as a noun may be one. `ClausesHaveSubjects` excludes these clauses.
- `find_wordnet_dict` (`anagram_rerank_core.py:189`) takes a directory for complete as soon
  as four files are there, and `dest` is removed (line 227) while another run may read or
  fill it.
- `desktop-installation.ps1:166` moves whatever is called `backup/AnagramSolver.exe` to the
  recovery directory, which a commit deletes with everything in it. A release only ever put
  a file there; a directory of that name would be deleted with the user's files in it. The
  proof of `NothingIsEverLost` needs `BackupAssumption` for it.
- The table of retained orders belongs to the process (`anagram_rerank.py:511`): a second
  thread that analyses or rescores clears what the first has not rescored yet.
- `_write_registry` (`anagram_suite.py:645`) uses a fixed temporary name: two editors at a
  time write into each other's file. `ReferenceRegistry` has one editor at a time.

## Proofs

Each theorem holds for every value of the constants its module's assumption admits:
any number of callers, workers, rows, calls, failures, versions. None of the properties
is inductive alone; every proof module begins with the invariant that is, named part by
part, and each of these invariants was also run through TLC on the bounds of its run
before it was proved (`InstallInv` in the form TLC can evaluate: undoing the
whole journal in any state gives what was found).

| Module | Theorem | Statement |
|---|---|---|
| `DesktopProofs` | `CoreInvariant`, `TypeCorrect` | `CoreInv`, and with it `TypeOK`, are invariant |
| | `AtMostOneThread` | there is never more than one live worker thread |
| | `FlagsAreExact` | the active flags name exactly the unsettled run and its control |
| | `NoJoinDeadlock` | whoever blocks with the mutex held waits only for a thread that no longer needs it |
| | `ShutdownIsComplete` | after shutdown no thread is left |
| | `StopsHitTheirTarget` | a run that ended cancelled was asked to stop |
| | `SettingsAgree` | memory and file agree |
| | `SnapshotsAreTheirOwn` | results, statuses and errors belong to the job they are shown for |
| | `VerdictsAreComplete` | an inactive job shows a result or an error, with the matching state |
| | `OwnerConsistent` | `OwnerIsConsistent`: the six of these that `jobs` checks together |
| | `StopsAreHonoured` | `StopIsHonoured`: a job that was asked to stop while it ran publishes no result |
| | `ImplementsSlotSafely` | `DesktopJobs` implements `SolverSlot` |
| | `RollbackAlwaysRestores` | `RollbackRestores`: an installation that reports a rollback has restored every path |
| | `OnlyTheApplicationBlocks` | `BlockedOnlyByTheApplication`: the installer's own steps never block an undo |
| | `NothingIsEverLost` | `NothingIsLost`: until the commit the contents of every file found are in the file system or in a snapshot, and a commit gives up only what a release replaces on purpose |
| `GenerationSearchProofs` | `SearchInvariant` | `SearchInv` is invariant: no branch leaves out a completion, every solution not found yet lies ahead of some stream |
| | `SearchIsAlwaysTruthful` | `SearchIsTruthful`: dead states are dead, bags are solutions and found once, the reason of the end is true |
| | `OrderInvariant`, `RoundInvariant` | `OrderInv` and `RoundInv` are invariant: the order of the search, and its first round |
| | `PrefixNeverHasGaps` | `PrefixHasNoGap`: wherever a prefix search stops, it has the first of the solutions |
| | `StrataAreAlwaysServed` | `EveryStratumIsServed`: a diverse search leaves out no word count and no clue that has a solution |
| `ResultCacheProofs` | `CacheInvariant` | `CacheInv` is invariant: rows are ordered, drafts are pruned no more than needed |
| | `CacheImplementsFifo` | `ImplementsFifo`: `ResultCache` implements `BoundedFifo`; the safety half of `StoreServesFifo` |
| `ParallelRankingProofs` | `RankingIsAlwaysExact` | `RankingIsExact`: rows ranked once, success is complete, counts fit |
| | `ProgressNeverGoesBack` | `ProgressAdvances`: the totals the observer gets only grow, up to the number of rows |
| `SolveExecutionProofs` | `ExecutionIsAlwaysConsistent` | `ExecutionIsConsistent`: valid statuses, success is the yield, the cache holds the yield |
| | `StatusesNeverGoBack` | `StatusesAdvance`, the safety half of `StatusesAreTrue` |
| `MaintenancePanelProofs` | `PanelAlwaysFollows` | `PanelFollowsTheOperation`: locked while it runs, one polling chain, no older report |
| `ReferenceProofs` | `NoTraceIsLeft` | `FacadeLeavesNoTrace`: adapters are installed exactly while somebody is inside |
| | `CallersAreApart` | `CallersDoNotMeet`: no thread works with what another one installed |
| | `RunsInvariant` | `RunsInv` is invariant: what each run knows of the files at each place |
| | `ResultsAreAlwaysOwn` | `ResultsAreOwn`: a finished run shows its own ranking |
| | `CachedFilesAlwaysMatch` | `CachedFilesMatchTheirKeys`: rankings are of their key; candidates of their directory, unless the dictionary was replaced under a derivation |
| | `ExportsStayWhole` | `WholeExportsStay`: a whole export is only replaced by a whole one |

The assumptions are those of the modules. `InstallationAssumption` says what a file
system is: whatever is in it has its directories, none of it is what the application of
tomorrow will write, and the recovery directory, whose name is fresh, is not there.
`BackupAssumption` says that nothing lies below `backup/AnagramSolver.exe`, that is, that it
is a file; only `NothingIsEverLost` needs it, and the section *Seen while modelling* says why.
`JobsAssumption`, `RankingAssumption`,
`ExecutionAssumption` and `PanelAssumption` only give the constants their types.
`SearchAssumption` says what `generate_inner` hands to `search`: finitely many letters;
a target and words that are not empty, the words fitting into the target; word counts in order;
clues that are candidates, or 0 for the
required words; and those of them the required words meet already.
`FacadeShape` says that there are finitely many threads. `RunsShape` says that a
directory of a process is not the shared one and that no version of the dictionary comes
back after another (the code knows a version by size and modification time,
`anagram_user_lexicon.py:36-38`), and that the first one is the one a warm directory starts
with. The proof needs the latter: were an old dictionary
restored with its old time, a run that read the stamps before and wrote the policy after
would leave a policy that vouches for the wrong augmented dictionary.

### The invariants

*Job owner.* `CoreInv` adds to `TypeOK` and `FlagsNameTheRun`: `MutexInv` (a caller is in a
blocking section exactly while it holds the mutex, and nothing is active meanwhile:
admission looked, and everything that could change it needs the mutex), `ThreadInv` (a
live thread is the one in `inner.worker` or the one a caller is joining), `ClosingInv` (one
caller shuts down, and from then on `inner.worker` stays empty), `FreshInv` (runs that do
not exist yet have neither a thread nor a cancelled flag, and each run uses its own
control). On top of it `RunInv` follows a worker's position, outcome and last status,
`SnapshotInv` ties an active job to its run, `StopInv` says that the flag of a live run is
set only if somebody asked, and `AskedInv` the converse, that whoever asked has set it.
`FlagsNameTheRun` is what makes the unchecked writes into `inner.job` safe: a worker that
still writes *is* the active job's. The refinement maps the slot to the run in
`inner.control` while a flag is active; its proof shows for each kind of step which step of
`SolverSlot` it is, or that it stutters.

*Installation.* `InstallInv` says that the journal leads back (`Recorded`): there is a
history, one tree before each entry and one after the last, that begins with what was
found, and undoing an entry on the tree after it gives the tree before it (`Reverses`).
What is really on disk lies over the last of these trees: equal to it until the
application starts, and afterwards with files of the application on top (`Covers`). The
undo of an entry carries this down by one (`FileGoesBack`, `MoveGoesBack`,
`DirectoryGoesBack`), also when the file it restores was rewritten since; with no entry
left, what is on disk covers what was found. A history is quantified, not a variable: the
code keeps no old trees. To add an entry, the proof needs of the step that it is
reversible, and this rests on the order of the operations (`Pending`): directories are
made on the way to a path, nearest ancestor first, a file is copied only right after it
was saved, a move goes to a free place outside its source, and what the later statements
move is still there (`Sources`). The application may rewrite `settings.json` because
the last statement saved it (line 176), and for no other reason. A rollback cannot be
blocked by the installer itself because neither a directory it made nor the place it moved
something from has in the recorded trees what would stand in the way.

`CommitInv` is about what a commit leaves behind, which the journal says nothing of. Until
the application starts, each file that is not replaced on purpose has a place with its
contents that is `Safe` at the present statement (`Held`): not in the recovery directory, not
a backup of the earlier name, not the shortcut, no destination of a corpus file still to be
copied, not the backup before it is written, and the executable only if its contents are the
candidate's. This is inductive only together with what the operations under way may do
(`Meant`): a copy goes to the places its statement is for, a move is one of the migrations or
that of the old backup, so each `Safe` place is carried to a `Safe` place (`Rebase` below what
moves) and overwritten by nothing. The one place that is overwritten with something in it is
the executable; `ExeIsBackedUp` says that by then the backup has the same contents, unless
the executable is the candidate already. A settings file is
`Safe` where the application may rewrite it, because that is what counts as replaced; so
after the start `OutOfRecovery` is left, which the deletion of the recovery directory
keeps. The proof found the one case the runs had not: `BackupAssumption`.

*Exact search.* `SearchInv` says of each frame of a stream's stack that it is an honest
prefix (`FrameInv`: its letters and those of its choices are the target's, its choices
are in order) and that the frame above it is for the word it chose last (`ChildInv`). Two
statements carry the proof. The first is about giving up: as long as a branch gave no bag,
each completion of its prefix begins with a word it has yet to look at, or lies in the
frame above it (`ExploredInv`). So a branch that is retired without a bag has no completion,
and what `retire_dead_branch` remembers stays true of every later branch that meets the same
letters, count, start and clues (`NoCompletion`). For the pruning this needs that the last
word is the first finisher from `next` on, that a word passed over begins no completion,
and that no word list can make up for a clue out of reach. The second is about the queue:
each solution is found already or `Pending` in some stream, ahead of one of its frames
or in a word count it has not begun. A turn moves it from one to the other and never drops it,
so that an empty queue means that everything was found. The strata of a diverse search
are shown to cover every solution between them (`Strata`, `StreamsStart`).

For the order, `OrderInv` says that the stack of a stream is a line of choices (`LineInv`):
a frame has chosen what each frame below it had chosen when it passed its word on, and then
that word. So what is pending in a stream begins like the choices of one of its frames
and goes on with a word from `next` on, which comes after every bag that came out of the
stack before; and the bag a prefix search finds, whose own stack is a prefix of it at every
level, comes before everything else that is pending. Hence the two other parts: the bags
found are in order, and every solution not found comes after all of them.

`RoundInv` is about the first round of a diverse search whose budget allows each stream a
bag. Some number `done` of streams had their turn: their strata are served, there are no
more bags than that, and the streams at the head of the queue are those of the other strata,
in order, each with every bag of its stratum that is not found yet pending (`Waits`). A turn that ends in a duplicate or finds
nothing adds no bag, so the budget cannot run out before `done` has reached them all.

*Cache.* `CacheInv`: `Locked` (the database is held by exactly the process in a
transaction), `Listed` (the committed rows, ordered by sequence number, are a list without
repeated keys or numbers) and `DraftPruned`: what the open transaction sees is the end of
the list it began with (for a put, without the row of its key), and every longer end had no
room. The last is what makes the commit one step of the queue: the draft on which the loop
stops is the least trimming. The rest relates tables to lists: the oldest row is the first, a
row with a new number is the last, removing a row removes it from the list, and a table's
bytes are the sum over its list in any order (`SumOfList`). Two orders matter: `max + 1` over the *pruned*
table is still above every row that is left, and a row is only known by its key, so the key has
to be deleted before the insert.

*Deep ranking.* `RankingInv`: `PlacesInv` (each claimed row is in exactly one place: with
its worker, in the channel, or with the coordinator), `TotalsInv` (what the workers have
counted together is the number of rows that left them, and those rows' orders),
`GrowthInv` (the messages of one worker only grow and the coordinator is behind them),
`LatestInv` (the last message of a worker, or the coordinator's own entry when there is
none, is all that worker counted, unless it failed), `EndInv` (without a failure nothing
claimed is lost). The coordinator's total is a sum over workers of counts it learned at
different times; `FunctionSums` has what such sums satisfy. (The letters that a list of
words uses are sums as well: those of a list and of its first word, of its rest, of two
lists one after the other.)

*Execution.* `ExecutionInv`: `RowInv` (only this request's own yield passes
for a cached one), `StatusInv` (what the status says at each place of the pipeline),
`EndInv` (how it ends), `ObserverInv` (the observer is never ahead of the pipeline, which
matters because some changes of the record are not emitted).

*Panel.* `PanelInv`: `OneWayInv` (of the calls that move the panel on, a start, a status
call that still counts and a timer, only one is under way; a call that a newer one
overtook no longer counts), `AnswersInv` (what an answer that counts says is still so,
unless the operation has ended since), `BusyInv` (busy for what it has started).

*Facade.* `FacadeInv`: `HooksInv` (the depth counter is the number of scopes that all
threads are in together, again a sum), `PrepareInv`, `LockInv`, `AloneInv`, `WidthInv` (whoever
widened the analysis keeps the value to restore), `WorkInv` and `UsedInv` (workers
work for an analysis that waits for them).

*Archived runs.* `RunsInv`: `LexiconInv` (if the policy carries the stamps of the present
dictionary, the augmented dictionary is that one's, `Vouching`: true because the augmented
file is written first), `FilesInv` (candidates, prepared rows and rankings are what their
names say), `ArchiveInv` (there is no WordNet without its archive), and for each place of a
run what it knows whatever the others do: `Sure` (there is a dictionary, there are the
corpora it fetched), `KnowsRanking` (the ranking it carries was made under its own options
with the archive and the bigrams its key names) and `Tracks` (up to its generation the
dictionary is the one it stamped, from then on all it reads is of the version its directory
is named by). `Vouching`, `Tracks` and the contents of `FilesInv` are only claimed while
`crossed` is false: until the dictionary was replaced between the stamps and the generation
of a run. A replacement at any other moment keeps them, because no run relies on the
dictionary then and the stamps in the policy are no longer those of the present one.

### Sums

The provers have no induction over data, so the facts about sums in `FunctionSums` are
proved by least counterexamples: a set of subsets of a finite set has a minimal member
(`MinimalSubset`, from the well-foundedness of the strict subset ordering), which would
be the first place where the fact fails. This gives that the recursive sum exists
(`SumExists`), is independent of the order (`SumsInAnyOrder`), changes by the difference
(`SumAfterUpdate`), is monotonic, and bounds its values.

### Model-checked only

- All liveness, because liveness and `ENABLED` are outside what the provers do:
  `EveryWorkerEnds`, `CallersReturn`, `PanelRecovers`, and the parts of `StoreServesFifo`,
  `RankingAdvances` and `StatusesAreTrue` that say something happens in the end.
- `ReferenceGeneration`, which has recursive operators, and the other archived programs that
  are computed by folds and recursive functions over data: `ReferenceOrdering`,
  `ReferenceRanking`, `ReferenceCorpus`, `ReferenceRegistry`, `ReferenceGrammar` and
  `ReferenceBenchmark`. What they compute for every input would need an induction over
  data; TLC compares them with reference definitions on the bounds above.

## Plan

In this order, the most important behaviour first:

1. `ControlledSort`: the interruptible merge sort: stable, and a permutation wherever it
   stops.
2. Publication of prepared files and the loading of settings, with crashes.
3. The main window next to the panel: starting, polling and cancelling solves.
4. The wrapper of the native search in `request.rs`: validation, admission, required words.
5. In the archive: the local pair scores of `anagram_rerank_core.py`; the full benchmark over
   child processes.

## Not modelled, and why

- Native scoring (`grammar.rs`, `structure.rs`, `scoring.rs`, ...): heuristics without state
  over floating-point numbers; the archived ones they are compared with are modelled.
- Corpora, lexicons and provenance: parsing and hashing of files; failures appear as
  outcomes of a run, WordNet's answers as constants.
- The numbers of the feature ranker's training; only the groups it learns from matter.
- The local pair scores of the archived grammar: a table of weights; any values will do.
- Read-only commands, dialogs, formatting of reports, diagnostics and exports.
- The archive's measurement harnesses (`benchmark_user_runs.py`, `ci_user_runs.py`,
  `ci_performance_probe.py`, `ci_phrase_matrix.py`) and the capture scripts in `tools/`: child
  processes, clocks and the parsing of their output, without state.
- The contracts directory: generated types, schemas, golden files.
