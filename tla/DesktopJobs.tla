---------------------------- MODULE DesktopJobs ----------------------------
(***************************************************************************)
(* The job owner of the desktop application                                *)
(* (apps/desktop/src-tauri/src/jobs.rs, experimental.rs and the command    *)
(* handlers of main.rs).                                                   *)
(*                                                                         *)
(* One mutex protects one record (struct Inner).  Callers -- the threads   *)
(* Tauri runs command handlers on, and the one that receives the Exit      *)
(* event -- take the mutex to start a solve, a generation or a maintenance *)
(* operation, to cancel, to change settings, to clear the result cache and *)
(* to shut down.  A started run is a worker thread.  The worker takes the  *)
(* mutex for each status it publishes and once more to settle, and it      *)
(* writes into inner.job without looking at the job's id.                  *)
(*                                                                         *)
(* A critical section that cannot block is one step.  The two that block   *)
(* (a start that joins the previous worker with the mutex held, and        *)
(* shutdown, which joins without it) and the one that works on a file      *)
(* with the mutex held (clear_cache) are several.                          *)
(*                                                                         *)
(* A rejected command changes nothing and is not a step.                   *)
(***************************************************************************)
EXTENDS Naturals

CONSTANTS
  Callers,        \* threads that run command handlers
  Free,           \* the value of lock while nobody holds the mutex
  MaxRuns,        \* bound: runs started in one process lifetime
  SettingsValues, \* contents settings.json can have
  Unsaved         \* settings.json is missing or unreadable

ASSUME JobsAssumption ==
  /\ Free \notin Callers
  /\ MaxRuns \in Nat
  /\ Unsaved \notin SettingsValues
  /\ SettingsValues # {}

VARIABLES
  lock,       \* holder of Desktop.inner
  pc,         \* what each caller is in the middle of
  joinee,     \* the worker a caller took out of inner.worker (0: none)
  job,        \* inner.job; result names the run that computed it (0: none)
  experiment, \* inner.experiment; report names the run that made it (0: none)
  control,    \* the run inner.control was created for (0: Desktop::new)
  worker,     \* inner.worker (0: None)
  closing,    \* inner.closing
  settings,   \* inner.settings
  disk,       \* settings.json
  last,       \* number of runs created so far
  run,        \* the worker threads
  cancelled,  \* the shared flag of each Control
  asked       \* history: runs somebody asked to stop

owner == <<job, experiment, control, worker, closing>>
vars == <<lock, pc, joinee, job, experiment, control, worker, closing,
          settings, disk, last, run, cancelled, asked>>

Runs == 1..MaxRuns

JobKinds == {"solve", "generate"}
Kinds == JobKinds \cup {"operation"}

\* Positions of a worker thread, in order.  "reported" is after Progress::finish
\* has published a terminal status, "leaving" after the settling section.
Working == {"working", "ended", "reported"}
Live == Working \cup {"leaving"}
Positions == Live \cup {"none", "exited"}

Outcomes == {"none", "succeeded", "cancelled", "timed_out", "failed", "panicked"}
Errors == (Outcomes \ {"succeeded"}) \cup {"spawn"}
Terminal == {"succeeded", "cancelled", "timed_out", "failed"}
JobStates == Terminal \cup {"none", "queued", "running"}

\* A run before it starts.
NoRun == [at |-> "none", kind |-> "none", job |-> 0, control |-> 0,
          state |-> "none", outcome |-> "none"]

\* Desktop::new with settings::load: an unreadable or missing file leaves
\* the defaults in memory and the file as it is.
Init ==
  /\ lock = Free
  /\ pc = [c \in Callers |-> "idle"]
  /\ joinee = [c \in Callers |-> 0]
  /\ job = [id |-> 0, active |-> FALSE, about |-> 0, state |-> "none",
            result |-> 0, error |-> "none"]
  /\ experiment = [active |-> FALSE, report |-> 0, error |-> "none"]
  /\ control = 0
  /\ worker = 0
  /\ closing = FALSE
  /\ disk \in SettingsValues \cup {Unsaved}
  /\ settings \in SettingsValues
  /\ disk \in SettingsValues => settings = disk
  /\ last = 0
  /\ run = [n \in Runs |-> NoRun]
  /\ cancelled = [n \in 0..MaxRuns |-> FALSE]
  /\ asked = {}

-----------------------------------------------------------------------------
(* Starting a run *)

BusyUnlessSolving == closing \/ experiment.active
BusyIgnoringClosing == job.active \/ experiment.active
\* start_with_mode and operation refuse while anything is active or closing.
Busy == closing \/ job.active \/ experiment.active

TakenWorkerIgnored(c) == TRUE
\* JoinHandle::join on the worker the caller took has returned.
Joined(c) == joinee[c] # 0 => run[joinee[c]].at = "exited"

ControlReused(n) == control
\* Every start installs a new Control: nothing of an older run's cancellation
\* reaches the new one.
FreshControl(n) == n

\* Admission, and taking the previous worker to join it with the mutex held.
\* MaxRuns bounds the model here.
Enter(c, k) ==
  /\ pc[c] = "idle" /\ lock = Free
  /\ ~Busy
  /\ last < MaxRuns
  /\ lock' = c
  /\ pc' = [pc EXCEPT ![c] = k]
  /\ joinee' = [joinee EXCEPT ![c] = worker]
  /\ worker' = 0
  /\ UNCHANGED <<job, experiment, control, closing, settings, disk, last, run,
                 cancelled, asked>>

\* The caller leaves its critical section.
Release(c) ==
  /\ lock' = Free
  /\ pc' = [pc EXCEPT ![c] = "idle"]
  /\ joinee' = [joinee EXCEPT ![c] = 0]

RememberedBeforeSave == settings' \in SettingsValues /\ UNCHANGED disk
\* The new settings are a clone until the file holds them.
NothingRemembered == UNCHANGED <<settings, disk>>

\* settings::save failed: the start returns its error with the old worker gone.
SaveFails(c) ==
  /\ pc[c] \in JobKinds
  /\ Joined(c)
  /\ NothingRemembered
  /\ Release(c)
  /\ UNCHANGED <<owner, last, run, cancelled, asked>>

\* settings::save replaces the file atomically; memory follows only then.
Remember(s) == disk' = s /\ settings' = s

NewJobKeepsSnapshot(id) == [job EXCEPT !.id = id, !.active = TRUE]
\* A new job starts from an empty snapshot.
NewJob(id) == [id |-> id, active |-> TRUE, about |-> 0, state |-> "none",
               result |-> 0, error |-> "none"]

NewRun(n, k, id) ==
  [at |-> "working", kind |-> k, job |-> id, control |-> FreshControl(n),
   state |-> "none", outcome |-> "none"]

\* The request is saved with the settings, the job gets the next id and its
\* thread starts.
LaunchJob(c) ==
  LET n == last + 1 IN
  /\ pc[c] \in JobKinds
  /\ Joined(c)
  /\ \E s \in SettingsValues : Remember(s)
  /\ job' = NewJob(job.id + 1)
  /\ control' = FreshControl(n)
  /\ worker' = n
  /\ last' = n
  /\ run' = [run EXCEPT ![n] = NewRun(n, pc[c], job.id + 1)]
  /\ Release(c)
  /\ UNCHANGED <<experiment, closing, cancelled, asked>>

\* As LaunchJob, but the thread could not be created.
JobSpawnFails(c) ==
  LET n == last + 1 IN
  /\ pc[c] \in JobKinds
  /\ Joined(c)
  /\ \E s \in SettingsValues : Remember(s)
  /\ job' = [NewJob(job.id + 1) EXCEPT !.active = FALSE, !.error = "spawn"]
  /\ control' = FreshControl(n)
  /\ last' = n
  /\ Release(c)
  /\ UNCHANGED <<experiment, worker, closing, run, cancelled, asked>>

NewExperiment == [active |-> TRUE, report |-> 0, error |-> "none"]

LaunchOperation(c) ==
  LET n == last + 1 IN
  /\ pc[c] = "operation"
  /\ Joined(c)
  /\ experiment' = NewExperiment
  /\ control' = FreshControl(n)
  /\ worker' = n
  /\ last' = n
  /\ run' = [run EXCEPT ![n] = NewRun(n, "operation", 0)]
  /\ Release(c)
  /\ UNCHANGED <<job, closing, settings, disk, cancelled, asked>>

OperationSpawnFails(c) ==
  LET n == last + 1 IN
  /\ pc[c] = "operation"
  /\ Joined(c)
  /\ control' = FreshControl(n)
  /\ last' = n
  /\ Release(c)
  /\ experiment' = [NewExperiment EXCEPT !.active = FALSE, !.error = "spawn"]
  /\ UNCHANGED <<job, worker, closing, settings, disk, run, cancelled, asked>>

-----------------------------------------------------------------------------
(* The other commands *)

CancelsAnyJob(id) == job.active
\* cancel_job acts only on the job it names, and only while that job is active.
CancelsJob(id) == job.id = id /\ job.active

\* The user asks to stop job id; the command may have been issued for a job
\* that has since been replaced.
CancelJob(c, id) ==
  /\ pc[c] = "idle" /\ lock = Free
  /\ CancelsJob(id)
  /\ cancelled' = [cancelled EXCEPT ![control] = TRUE]
  /\ asked' = asked \cup {n \in Runs : run[n].kind \in JobKinds /\ run[n].job = id}
  /\ UNCHANGED <<lock, pc, joinee, owner, settings, disk, last, run>>

CancelTraining(c) ==
  /\ pc[c] = "idle" /\ lock = Free
  /\ experiment.active
  /\ cancelled' = [cancelled EXCEPT ![control] = TRUE]
  /\ asked' = asked \cup {n \in Runs : run[n].kind = "operation"}
  /\ UNCHANGED <<lock, pc, joinee, owner, settings, disk, last, run>>

\* save_settings refuses while a run is active, but not while closing.
SaveSettings(c) ==
  /\ pc[c] = "idle" /\ lock = Free
  /\ ~job.active /\ ~experiment.active
  /\ \E s \in SettingsValues : Remember(s)
  /\ UNCHANGED <<lock, pc, joinee, owner, last, run, cancelled, asked>>

\* clear_cache opens the cache file and deletes its rows with the mutex held.
BeginClear(c) ==
  /\ pc[c] = "idle" /\ lock = Free
  /\ ~Busy
  /\ lock' = c
  /\ pc' = [pc EXCEPT ![c] = "clearing"]
  /\ UNCHANGED <<joinee, owner, settings, disk, last, run, cancelled, asked>>

EndClear(c) ==
  /\ pc[c] = "clearing"
  /\ Release(c)
  /\ UNCHANGED <<owner, settings, disk, last, run, cancelled, asked>>

CloseWithoutCancel == UNCHANGED cancelled
\* shutdown cancels whatever control is current.
CloseCancels == cancelled' = [cancelled EXCEPT ![control] = TRUE]

JoinWithMutex(c) == lock' = c
\* shutdown lets go of the mutex before it joins.
JoinWithoutMutex(c) == UNCHANGED lock

\* RunEvent::Exit, which happens once.
BeginShutdown(c) ==
  /\ pc[c] = "idle" /\ lock = Free
  /\ ~closing
  /\ closing' = TRUE
  /\ CloseCancels
  /\ asked' = asked \cup {n \in Runs : run[n].at \in Live}
  /\ pc' = [pc EXCEPT ![c] = "exiting"]
  /\ joinee' = [joinee EXCEPT ![c] = worker]
  /\ worker' = 0
  /\ JoinWithoutMutex(c)
  /\ UNCHANGED <<job, experiment, control, settings, disk, last, run>>

\* The join of shutdown, without the mutex.
EndShutdown(c) ==
  /\ pc[c] = "exiting"
  /\ Joined(c)
  /\ pc' = [pc EXCEPT ![c] = "exited"]
  /\ joinee' = [joinee EXCEPT ![c] = 0]
  /\ UNCHANGED <<lock, owner, settings, disk, last, run, cancelled, asked>>

-----------------------------------------------------------------------------
(* The worker *)

\* Progress::new publishes Queued and Progress::start Running; statuses that
\* repeat Running (stages and counts) change nothing kept here.
NextState(s) == IF s = "none" THEN "queued" ELSE "running"

AnnouncedAndFreed(n, s) ==
  [job EXCEPT !.state = s, !.about = run[n].job, !.active = @ /\ s \notin Terminal]
\* The observer of a job: inner.job.status = Some(status).
Announced(n, s) == [job EXCEPT !.state = s, !.about = run[n].job]

Report(n) ==
  LET s == NextState(run[n].state) IN
  /\ run[n].at = "working" /\ run[n].kind \in JobKinds
  /\ run[n].state \in {"none", "queued"}
  /\ lock = Free
  /\ run' = [run EXCEPT ![n].state = s]
  /\ job' = Announced(n, s)
  /\ UNCHANGED <<lock, pc, joinee, experiment, control, worker, closing,
                 settings, disk, last, cancelled, asked>>

\* Outcomes of the closure of a solve or generation.  Once Progress exists the
\* last check of its control overrides what was computed; a solve whose control
\* is cancelled before Progress exists fails at its first check, and a
\* generation does not look at the flag before it is Running.
JobOutcomes(n) ==
  LET stop == cancelled[run[n].control]
      s == run[n].state
  IN {"panicked"}
     \cup (IF s = "none" THEN {"failed"} ELSE {})
     \cup (IF stop /\ (run[n].kind = "solve" \/ s = "running")
             THEN {"cancelled"} ELSE {})
     \cup (IF ~stop /\ run[n].kind = "solve" /\ s = "queued"
             THEN {"timed_out"} ELSE {})
     \cup (IF ~stop /\ s = "running"
             THEN {"succeeded", "timed_out", "failed"} ELSE {})

\* An operation reports every failure, cancellation included, as one error
\* string, and one cancelled after its last check still succeeds.
OutcomesOf(n) ==
  IF run[n].kind = "operation" THEN {"succeeded", "failed", "panicked"}
  ELSE JobOutcomes(n)

\* catch_unwind returns, or the solver has its result and has yet to publish it.
Decide(n) ==
  /\ run[n].at = "working"
  /\ \E o \in OutcomesOf(n) :
       run' = [run EXCEPT ![n].at = "ended", ![n].outcome = o]
  /\ UNCHANGED <<lock, pc, joinee, owner, settings, disk, last, cancelled, asked>>

\* Progress::finish runs only if Progress was created and nothing panicked.
PublishesEnd(n) ==
  /\ run[n].kind \in JobKinds
  /\ run[n].outcome # "panicked"
  /\ run[n].state # "none"

\* Progress::finish publishes the terminal status before the worker settles.
ReportEnd(n) ==
  /\ run[n].at = "ended" /\ PublishesEnd(n)
  /\ lock = Free
  /\ run' = [run EXCEPT ![n].at = "reported", ![n].state = run[n].outcome]
  /\ job' = Announced(n, run[n].outcome)
  /\ UNCHANGED <<lock, pc, joinee, experiment, control, worker, closing,
                 settings, disk, last, cancelled, asked>>

\* Progress::finish maps every other error code to Failed.
StateOf(o) == IF o \in Terminal THEN o ELSE "failed"

ErrorKeepsStatus(n) ==
  [job EXCEPT !.active = FALSE, !.error = run[n].outcome]
\* inner.job after an error: a status left Queued, Running or absent is
\* completed with the error, a terminal one is kept.
SettledWithError(n) ==
  [job EXCEPT !.active = FALSE, !.error = run[n].outcome,
              !.state = IF @ \in Terminal THEN @ ELSE StateOf(run[n].outcome),
              !.about = IF job.state \in Terminal THEN @ ELSE run[n].job]

SettledJob(n) ==
  IF run[n].outcome = "succeeded"
    THEN [job EXCEPT !.active = FALSE, !.result = n]
    ELSE SettledWithError(n)

CanSettle(n) ==
  \/ run[n].at = "reported"
  \/ run[n].at = "ended" /\ ~PublishesEnd(n)

\* After settling the worker is done with the mutex.
SettledExperiment(n) ==
  IF run[n].outcome = "succeeded"
    THEN [experiment EXCEPT !.active = FALSE, !.report = n]
    ELSE [experiment EXCEPT !.active = FALSE, !.error = run[n].outcome]

Leave(n) == [run EXCEPT ![n].at = "leaving"]

\* The worker's last critical section: outcome, then active = false, together.
Settle(n) ==
  /\ CanSettle(n)
  /\ lock = Free
  /\ IF run[n].kind = "operation"
       THEN experiment' = SettledExperiment(n) /\ UNCHANGED job
       ELSE job' = SettledJob(n) /\ UNCHANGED experiment
  /\ run' = Leave(n)
  /\ UNCHANGED <<lock, pc, joinee, control, worker, closing, settings, disk,
                 last, cancelled, asked>>

ThreadExit(n) ==
  /\ run[n].at = "leaving"
  /\ run' = [run EXCEPT ![n].at = "exited"]
  /\ UNCHANGED <<lock, pc, joinee, owner, settings, disk, last, cancelled, asked>>

-----------------------------------------------------------------------------
CallerStep(c) ==
  \/ \E k \in Kinds : Enter(c, k)
  \/ SaveFails(c) \/ LaunchJob(c) \/ JobSpawnFails(c)
  \/ LaunchOperation(c) \/ OperationSpawnFails(c)
  \/ \E id \in Runs : CancelJob(c, id)
  \/ CancelTraining(c) \/ SaveSettings(c)
  \/ BeginClear(c) \/ EndClear(c)
  \/ BeginShutdown(c) \/ EndShutdown(c)

WorkerStep(n) ==
  \/ Report(n) \/ Decide(n) \/ ReportEnd(n) \/ Settle(n) \/ ThreadExit(n)

Next ==
  \/ \E c \in Callers : CallerStep(c)
  \/ \E n \in Runs : WorkerStep(n)

Spec == Init /\ [][Next]_vars

\* A handler in the middle of its work.
Proceed(c) ==
  \/ SaveFails(c) \/ LaunchJob(c) \/ JobSpawnFails(c)
  \/ LaunchOperation(c) \/ OperationSpawnFails(c)
  \/ EndClear(c) \/ EndShutdown(c)

\* Threads are scheduled: a handler that may go on does, and a worker computes.
\* A worker that wants the mutex competes with callers that take it again and
\* again, so its turns need strong fairness: every section is short except a
\* start's, which waits only for a worker that no longer needs the mutex.
\* Nobody has to start, cancel or close anything.
Fairness ==
  /\ \A c \in Callers : WF_vars(Proceed(c))
  /\ \A n \in Runs :
       /\ WF_vars(Decide(n)) /\ WF_vars(ThreadExit(n))
       /\ SF_vars(Report(n)) /\ SF_vars(ReportEnd(n)) /\ SF_vars(Settle(n))

FairSpec == Spec /\ Fairness
-----------------------------------------------------------------------------
(* Properties *)

JobRecords == [id : Nat, active : BOOLEAN, about : Nat, state : JobStates,
               result : 0..MaxRuns, error : Errors]
ExperimentRecords == [active : BOOLEAN, report : 0..MaxRuns, error : Errors]
RunRecords == [at : Positions, kind : Kinds \cup {"none"}, job : Nat,
               control : 0..MaxRuns, state : JobStates, outcome : Outcomes]

TypeOK ==
  /\ lock \in Callers \cup {Free}
  /\ pc \in [Callers -> Kinds \cup {"idle", "clearing", "exiting", "exited"}]
  /\ joinee \in [Callers -> 0..MaxRuns]
  /\ job \in JobRecords
  /\ experiment \in ExperimentRecords
  /\ control \in 0..MaxRuns
  /\ worker \in 0..MaxRuns
  /\ closing \in BOOLEAN
  /\ settings \in SettingsValues
  /\ disk \in SettingsValues \cup {Unsaved}
  /\ last \in 0..MaxRuns
  /\ run \in [Runs -> RunRecords]
  /\ cancelled \in [0..MaxRuns -> BOOLEAN]
  /\ asked \in SUBSET Runs

\* There is never more than one worker thread: a start joins the previous one,
\* and a shutdown that takes the last one lets no other start.
OneThread ==
  \A m, n \in Runs : run[m].at \in Live /\ run[n].at \in Live => m = n

\* While a caller sits in a blocking section with the mutex held (joining the
\* previous worker, or deleting cache rows) no worker still needs the mutex or
\* uses the cache.  Otherwise the join would never return.
BlockingSectionsAreQuiet ==
  \A c \in Callers : pc[c] \in Kinds \cup {"clearing"} =>
    \A n \in Runs : run[n].at \notin Working

\* The active flags say exactly that the run inner.control belongs to has not
\* settled: the UI's cancel buttons act on a flag, the cancellation on the
\* control.
FlagsNameTheRun ==
  /\ job.active \/ experiment.active => control \in Runs
  /\ job.active => /\ run[control].at \in Working
                   /\ run[control].kind \in JobKinds
                   /\ run[control].job = job.id
  /\ experiment.active => /\ run[control].at \in Working
                          /\ run[control].kind = "operation"
  /\ \A n \in Runs :
       run[n].at \in Working => n = control /\ (job.active \/ experiment.active)

\* Workers write into inner.job without checking whose it is.  Still a result,
\* a status and an error in it always come from the job it names.
SnapshotIsOfItsJob ==
  /\ job.result # 0 => /\ run[job.result].job = job.id
                       /\ run[job.result].outcome = "succeeded"
  /\ job.state # "none" => job.about = job.id
  /\ experiment.report # 0 => /\ run[experiment.report].kind = "operation"
                              /\ run[experiment.report].outcome = "succeeded"

\* Once a job is inactive its snapshot is a verdict: a result with a succeeded
\* status, or an error with the status that error stands for (none at all if
\* the thread never started).
VerdictIsComplete ==
  job.id # 0 /\ ~job.active =>
    \/ job.result # 0 /\ job.state = "succeeded" /\ job.error = "none"
    \/ job.result = 0 /\ job.error \in Outcomes \ {"none"} /\ job.state = StateOf(job.error)
    \/ job.result = 0 /\ job.error = "spawn" /\ job.state = "none"

\* A run ends cancelled only if somebody asked to stop that run: a request for
\* an earlier job, or one that came too late for it, never stops a later one.
CancelledWasAsked ==
  \A n \in Runs : run[n].outcome = "cancelled" => n \in asked

\* inner.settings is what settings.json holds, except before anything was saved
\* in a process that could not read the file.
SettingsAreOnDisk == disk # Unsaved => settings = disk

\* After shutdown returned no worker thread is left or can start.
ShutdownLeavesNoThread ==
  (\E c \in Callers : pc[c] = "exited") => \A n \in Runs : run[n].at \notin Live

\* The mutex, the single worker, the flags, the verdict, the settings file and
\* the shutdown of the job owner agree with one another in every state: each
\* handler may rely on what the others promise (jobs.rs:188-314).
OwnerIsConsistent ==
  /\ OneThread /\ BlockingSectionsAreQuiet /\ FlagsNameTheRun
  /\ VerdictIsComplete /\ SettingsAreOnDisk /\ ShutdownLeavesNoThread

\* A stop that was asked for while a job was running, by its user or by
\* shutdown, is honoured: the job cannot end as anything but cancelled (or
\* panicked).
StopIsHonoured ==
  [][\A n \in asked :
       run[n].kind \in JobKinds /\ run[n].at = "working" /\ run[n].state = "running" =>
         run'[n].outcome \in {"none", "cancelled", "panicked"}]_run

\* Every worker that started ends.
EveryWorkerEnds == \A n \in Runs : run[n].at = "working" ~> run[n].at = "exited"

\* A caller that blocks, in a start or a clearing with the mutex held or in a
\* shutdown without it, returns, whatever was running: nobody waits for ever.
CallersReturn ==
  \A c \in Callers :
    pc[c] \in Kinds \cup {"clearing", "exiting"} ~> pc[c] \in {"idle", "exited"}
=============================================================================
