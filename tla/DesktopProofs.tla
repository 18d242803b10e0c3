--------------------------- MODULE DesktopProofs ---------------------------
(***************************************************************************)
(* Theorems about the desktop program: the owner of its jobs (DesktopJobs) *)
(* and its installation (DesktopInstallation).                             *)
(*                                                                         *)
(* Jobs: the safety properties, for every set of callers, every number of  *)
(* runs and every set of settings.                                         *)
(*                                                                         *)
(* Installation: for every file system that is found, every candidate and  *)
(* every corpus, a rollback restores what was found.  The invariant is a   *)
(* history that the journal stands for: a tree before each entry, such     *)
(* that undoing the entry on the tree after it gives the tree before it.   *)
(* What the started application adds lies on top of the last tree, and     *)
(* undoing an entry carries it down to the tree before.                    *)
(***************************************************************************)
EXTENDS DesktopJobsRefinement, DesktopInstallation, FunctionSums, SequenceTheorems

-----------------------------------------------------------------------------
(* The owner of the jobs *)

Holding == Kinds \cup {"clearing"}

\* The mutex is held across steps exactly by a caller in a blocking section,
\* and such a section was entered while nothing was active or closing.
MutexInv ==
  /\ \A c \in Callers : pc[c] \in Holding <=> lock = c
  /\ \A c \in Callers : pc[c] \in Holding => ~Busy
  /\ \A c \in Callers : pc[c] \in Kinds => worker = 0 /\ last < MaxRuns

\* A thread that has not ended is reachable: in inner.worker, or in the hands
\* of the caller that is joining it.
ThreadInv ==
  /\ OneThread
  /\ \A n \in Runs : run[n].at \in Live =>
       n = worker \/ \E c \in Callers : pc[c] \in Kinds \cup {"exiting"} /\ joinee[c] = n

\* One caller shuts down, and it took the last worker.
ClosingInv ==
  /\ \A c \in Callers : pc[c] \in {"exiting", "exited"} => closing
  /\ \A c, d \in Callers :
       pc[c] \in {"exiting", "exited"} /\ pc[d] \in {"exiting", "exited"} => c = d
  /\ closing => worker = 0

\* Runs that do not exist yet are blank, and a run uses its own control.
FreshInv ==
  /\ control <= last
  /\ \A n \in Runs : n > last => run[n] = NoRun /\ ~cancelled[n]
  /\ \A n \in Runs : run[n].at # "none" => run[n].control = n

CoreInv ==
  TypeOK /\ MutexInv /\ ThreadInv /\ ClosingInv /\ FreshInv /\ FlagsNameTheRun

\* How far a run has come determines its outcome and the state it published.
RunInv ==
  \A n \in Runs :
    /\ run[n].at \in {"none", "working"} => run[n].outcome = "none"
    /\ run[n].at \in {"working", "ended"} => run[n].state \in {"none", "queued", "running"}
    /\ run[n].at \in Live \ {"working"} => run[n].outcome # "none"
    /\ run[n].kind \in JobKinds /\ run[n].at = "ended" /\ run[n].outcome = "succeeded"
         => run[n].state = "running"
    /\ run[n].at = "reported"
         => run[n].kind \in JobKinds /\ run[n].outcome \in Terminal /\ run[n].state = run[n].outcome

\* An active job shows what its run published and no verdict yet.
SnapshotInv ==
  /\ job.active => /\ job.id # 0 /\ job.state = run[control].state
                   /\ job.result = 0 /\ job.error = "none"
  /\ job.result # 0 => run[job.result].at \in {"leaving", "exited"}
  /\ experiment.report # 0 => run[experiment.report].at \in {"leaving", "exited"}

\* The flag of a live run is set only by a request to stop that run.
StopInv ==
  \A n \in Runs : cancelled[n] /\ run[n].at \in Live => n \in asked

-----------------------------------------------------------------------------
(* Type correctness *)

LEMMA InitTypeOK == Init => TypeOK
<1> SUFFICES ASSUME Init PROVE TypeOK
  OBVIOUS
<1> USE JobsAssumption DEF Init
<1>1. run \in [Runs -> RunRecords]
  BY DEF RunRecords, NoRun, Positions, JobStates, Outcomes
<1>2. job \in JobRecords /\ experiment \in ExperimentRecords
  BY DEF JobRecords, ExperimentRecords, JobStates, Errors, Outcomes
<1>3. cancelled \in [0..MaxRuns -> BOOLEAN] /\ asked \in SUBSET Runs
  OBVIOUS
<1>4. pc \in [Callers -> Kinds \cup {"idle", "clearing", "exiting", "exited"}]
  OBVIOUS
<1>5. joinee \in [Callers -> 0..MaxRuns] /\ 0 \in 0..MaxRuns
  OBVIOUS
<1> QED
  BY <1>1, <1>2, <1>3, <1>4, <1>5 DEF TypeOK

\* What a worker's update of its own record preserves.
LEMMA RunUpdateTyped ==
  ASSUME run \in [Runs -> RunRecords], NEW n \in Runs, NEW r \in RunRecords
  PROVE  [run EXCEPT ![n] = r] \in [Runs -> RunRecords]
OBVIOUS

LEMMA NewRunTyped ==
  ASSUME NEW n \in Runs, NEW k \in Kinds, NEW id \in Nat
  PROVE  NewRun(n, k, id) \in RunRecords
<1>1. n \in 0..MaxRuns
  BY JobsAssumption DEF Runs
<1> QED
  BY <1>1 DEF NewRun, FreshControl, RunRecords, Positions, Live, Working, JobStates, Outcomes

LEMMA NextTypeOK ==
  ASSUME TypeOK, MutexInv, [Next]_vars PROVE TypeOK'
<1> USE JobsAssumption
<1>1. ASSUME NEW c \in Callers, NEW k \in Kinds, Enter(c, k) PROVE TypeOK'
  BY <1>1 DEF TypeOK, Enter
<1>2. ASSUME NEW c \in Callers, SaveFails(c) PROVE TypeOK'
  BY <1>2 DEF TypeOK, SaveFails, Release, NothingRemembered, owner
<1>3. ASSUME NEW c \in Callers, LaunchJob(c) PROVE TypeOK'
  <2> DEFINE n == last + 1
  <2>1. n \in Runs /\ pc[c] \in Kinds /\ job.id + 1 \in Nat
    BY <1>3 DEF LaunchJob, MutexInv, TypeOK, Runs, Kinds, JobRecords
  <2>2. run' \in [Runs -> RunRecords]
    BY <1>3, <2>1, NewRunTyped, RunUpdateTyped DEF LaunchJob, TypeOK
  <2>3. job' \in JobRecords
    BY <1>3, <2>1 DEF LaunchJob, NewJob, JobRecords, JobStates, Errors, Outcomes
  <2> QED
    BY <1>3, <2>1, <2>2, <2>3 DEF TypeOK, LaunchJob, Release, Remember, FreshControl, Runs
<1>4. ASSUME NEW c \in Callers, JobSpawnFails(c) PROVE TypeOK'
  <2>1. last + 1 \in Runs /\ job.id + 1 \in Nat
    BY <1>4 DEF JobSpawnFails, MutexInv, TypeOK, Runs, Kinds, JobRecords
  <2>2. job' = [id |-> job.id + 1, active |-> FALSE, about |-> 0, state |-> "none",
                result |-> 0, error |-> "spawn"]
    BY <1>4 DEF JobSpawnFails, NewJob
  <2>3. job' \in JobRecords
    BY <2>1, <2>2 DEF JobRecords, JobStates, Errors
  <2> QED
    BY <1>4, <2>1, <2>3 DEF TypeOK, JobSpawnFails, Release, Remember, FreshControl, Runs
<1>5. ASSUME NEW c \in Callers, LaunchOperation(c) PROVE TypeOK'
  <2>1. last + 1 \in Runs
    BY <1>5 DEF LaunchOperation, MutexInv, TypeOK, Runs, Kinds
  <2>2. run' \in [Runs -> RunRecords]
    BY <1>5, <2>1, NewRunTyped, RunUpdateTyped DEF LaunchOperation, TypeOK, Kinds
  <2>3. experiment' \in ExperimentRecords
    BY <1>5 DEF LaunchOperation, NewExperiment, ExperimentRecords, Errors, Outcomes
  <2> QED
    BY <1>5, <2>1, <2>2, <2>3 DEF TypeOK, LaunchOperation, Release, FreshControl, Runs
<1>6. ASSUME NEW c \in Callers, OperationSpawnFails(c) PROVE TypeOK'
  <2>1. last + 1 \in Runs
    BY <1>6 DEF OperationSpawnFails, MutexInv, TypeOK, Runs, Kinds
  <2>2. experiment' = [active |-> FALSE, report |-> 0, error |-> "spawn"]
    BY <1>6 DEF OperationSpawnFails, NewExperiment
  <2>3. experiment' \in ExperimentRecords
    BY <2>2 DEF ExperimentRecords, Errors
  <2> QED
    BY <1>6, <2>1, <2>3 DEF TypeOK, OperationSpawnFails, Release, FreshControl, Runs
<1>7. ASSUME NEW c \in Callers, NEW id \in Runs, CancelJob(c, id) PROVE TypeOK'
  <2>1. asked' \in SUBSET Runs /\ cancelled' \in [0..MaxRuns -> BOOLEAN]
    BY <1>7 DEF TypeOK, CancelJob
  <2> QED
    BY <1>7, <2>1 DEF TypeOK, CancelJob, owner
<1>8. ASSUME NEW c \in Callers, CancelTraining(c) PROVE TypeOK'
  <2>1. asked' \in SUBSET Runs /\ cancelled' \in [0..MaxRuns -> BOOLEAN]
    BY <1>8 DEF TypeOK, CancelTraining
  <2> QED
    BY <1>8, <2>1 DEF TypeOK, CancelTraining, owner
<1>9. ASSUME NEW c \in Callers, SaveSettings(c) PROVE TypeOK'
  BY <1>9 DEF TypeOK, SaveSettings, Remember, owner
<1>10. ASSUME NEW c \in Callers, BeginClear(c) \/ EndClear(c) PROVE TypeOK'
  <2>1. CASE BeginClear(c)
    BY <2>1 DEF TypeOK, BeginClear, owner
  <2>2. CASE EndClear(c)
    BY <2>2 DEF TypeOK, EndClear, Release, owner
  <2> QED
    BY <1>10, <2>1, <2>2
<1>11. ASSUME NEW c \in Callers, BeginShutdown(c) PROVE TypeOK'
  <2>1. asked' \in SUBSET Runs /\ cancelled' \in [0..MaxRuns -> BOOLEAN]
    BY <1>11 DEF TypeOK, BeginShutdown, CloseCancels
  <2> QED
    BY <1>11, <2>1 DEF TypeOK, BeginShutdown, JoinWithoutMutex
<1>12. ASSUME NEW c \in Callers, EndShutdown(c) PROVE TypeOK'
  BY <1>12 DEF TypeOK, EndShutdown, owner
<1>13. ASSUME NEW n \in Runs, Report(n) PROVE TypeOK'
  <2> DEFINE r == [run[n] EXCEPT !.state = NextState(run[n].state)]
  <2>1. r \in RunRecords
    <3>1. run[n] \in RunRecords
      BY DEF TypeOK
    <3>2. NextState(run[n].state) \in JobStates
      BY DEF NextState, JobStates
    <3> QED BY <3>1, <3>2 DEF RunRecords
  <2>2. job' \in JobRecords
    BY <1>13 DEF Report, Announced, TypeOK, JobRecords, RunRecords, NextState, JobStates
  <2>3. run' = [run EXCEPT ![n] = r]
    BY <1>13 DEF Report
  <2> QED
    BY <1>13, <2>1, <2>2, <2>3, RunUpdateTyped DEF TypeOK, Report
<1>14. ASSUME NEW n \in Runs, Decide(n) PROVE TypeOK'
  <2>1. PICK o \in OutcomesOf(n) :
               run' = [run EXCEPT ![n].at = "ended", ![n].outcome = o]
    BY <1>14 DEF Decide
  <2> DEFINE r == [run[n] EXCEPT !.at = "ended", !.outcome = o]
  <2>2. o \in Outcomes
    BY DEF OutcomesOf, JobOutcomes, Outcomes
  <2>3. r \in RunRecords
    <3>1. run[n] \in RunRecords
      BY DEF TypeOK
    <3>2. "ended" \in Positions
      BY DEF Positions, Live, Working
    <3> QED
      BY <2>2, <3>1, <3>2 DEF RunRecords
  <2>4. run' = [run EXCEPT ![n] = r]
    BY <2>1 DEF TypeOK
  <2> QED
    BY <1>14, <2>3, <2>4, RunUpdateTyped DEF TypeOK, Decide, owner
<1>15. ASSUME NEW n \in Runs, ReportEnd(n) PROVE TypeOK'
  <2> DEFINE r == [run[n] EXCEPT !.at = "reported", !.state = run[n].outcome]
  <2>1. run[n].outcome \in JobStates
    BY <1>15 DEF ReportEnd, PublishesEnd, TypeOK, RunRecords, Outcomes, JobStates, Terminal
  <2>2. r \in RunRecords
    <3>1. run[n] \in RunRecords
      BY DEF TypeOK
    <3>2. "reported" \in Positions
      BY DEF Positions, Live, Working
    <3> QED
      BY <2>1, <3>1, <3>2 DEF RunRecords
  <2>3. job' \in JobRecords
    BY <1>15, <2>1 DEF ReportEnd, Announced, TypeOK, JobRecords, RunRecords
  <2>4. run' = [run EXCEPT ![n] = r]
    BY <1>15 DEF ReportEnd, TypeOK
  <2> QED
    BY <1>15, <2>2, <2>3, <2>4, RunUpdateTyped DEF TypeOK, ReportEnd
<1>16. ASSUME NEW n \in Runs, Settle(n) PROVE TypeOK'
  <2> DEFINE r == [run[n] EXCEPT !.at = "leaving"]
  <2>1. r \in RunRecords
    BY DEF TypeOK, RunRecords, Positions, Live
  <2>2. run' = [run EXCEPT ![n] = r]
    BY <1>16 DEF Settle, Leave
  <2>3. run[n].outcome # "succeeded" => run[n].outcome \in Errors
    BY DEF TypeOK, RunRecords, Errors
  <2>4. n \in 0..MaxRuns
    BY DEF Runs
  <2>5. SettledJob(n) \in JobRecords
    BY <2>3, <2>4 DEF SettledJob, SettledWithError, StateOf, TypeOK, JobRecords, RunRecords,
                      JobStates, Terminal
  <2>6. SettledExperiment(n) \in ExperimentRecords
    BY <2>3, <2>4 DEF SettledExperiment, TypeOK, ExperimentRecords
  <2> QED
    BY <1>16, <2>1, <2>2, <2>5, <2>6, RunUpdateTyped DEF TypeOK, Settle
<1>17. ASSUME NEW n \in Runs, ThreadExit(n) PROVE TypeOK'
  <2> DEFINE r == [run[n] EXCEPT !.at = "exited"]
  <2>1. r \in RunRecords
    BY DEF TypeOK, RunRecords, Positions
  <2>2. run' = [run EXCEPT ![n] = r]
    BY <1>17 DEF ThreadExit
  <2> QED
    BY <1>17, <2>1, <2>2, RunUpdateTyped DEF TypeOK, ThreadExit, owner
<1>18. CASE UNCHANGED vars
  BY <1>18 DEF TypeOK, vars
<1> QED
  BY <1>1, <1>2, <1>3, <1>4, <1>5, <1>6, <1>7, <1>8, <1>9, <1>10, <1>11, <1>12,
     <1>13, <1>14, <1>15, <1>16, <1>17, <1>18 DEF Next, CallerStep, WorkerStep
-----------------------------------------------------------------------------
(* What steps leave alone *)

\* A worker moves forward along its positions, keeps its identity, and touches
\* nothing that belongs to callers.
LEMMA WorkerFrame ==
  ASSUME TypeOK, NEW n \in Runs, WorkerStep(n)
  PROVE  /\ UNCHANGED <<lock, pc, joinee, control, worker, closing, settings, disk,
                        last, cancelled, asked>>
         /\ \A m \in Runs \ {n} : run'[m] = run[m]
         /\ run'[n].kind = run[n].kind /\ run'[n].job = run[n].job
         /\ run'[n].control = run[n].control
         /\ run[n].at \in Live
         /\ \/ run[n].at \in Working /\ run'[n].at \in Working
               /\ job'.active = job.active /\ experiment' = experiment
            \/ run[n].at \in Working /\ run'[n].at = "leaving" /\ lock = Free
            \/ run[n].at = "leaving" /\ run'[n].at = "exited"
               /\ UNCHANGED <<job, experiment>>
         /\ job'.id = job.id
         /\ job'.active => job.active
         /\ experiment'.active => experiment.active
<1> USE DEF TypeOK
<1>1. CASE Report(n)
  BY <1>1 DEF Report, Announced, Live, Working, RunRecords, JobRecords
<1>2. CASE Decide(n)
  BY <1>2 DEF Decide, owner, Live, Working, RunRecords
<1>3. CASE ReportEnd(n)
  BY <1>3 DEF ReportEnd, Announced, Live, Working, RunRecords, JobRecords
<1>4. CASE Settle(n)
  <2>1. run[n].at \in Working /\ run' = [run EXCEPT ![n].at = "leaving"]
    BY <1>4 DEF Settle, CanSettle, Leave, Working
  <2>2. SettledJob(n).active = FALSE /\ SettledJob(n).id = job.id
    BY DEF SettledJob, SettledWithError, JobRecords
  <2>3. SettledExperiment(n).active = FALSE
    BY DEF SettledExperiment, ExperimentRecords
  <2> QED
    BY <1>4, <2>1, <2>2, <2>3 DEF Settle, Live, RunRecords
<1>5. CASE ThreadExit(n)
  BY <1>5 DEF ThreadExit, owner, Live, Working, RunRecords
<1> QED
  BY <1>1, <1>2, <1>3, <1>4, <1>5 DEF WorkerStep

\* A launch starts one thread for the next run and releases the mutex.
LEMMA LaunchFrame ==
  ASSUME TypeOK, MutexInv, NEW c \in Callers, LaunchJob(c) \/ LaunchOperation(c)
  PROVE  /\ last + 1 \in Runs
         /\ pc[c] \in Kinds
         /\ Joined(c)
         /\ Release(c)
         /\ last' = last + 1 /\ control' = last + 1 /\ worker' = last + 1
         /\ run'[last + 1].at = "working" /\ run'[last + 1].control = last + 1
         /\ run'[last + 1].state = "none" /\ run'[last + 1].outcome = "none"
         /\ run'[last + 1].kind = pc[c]
         /\ \A m \in Runs \ {last + 1} : run'[m] = run[m]
         /\ UNCHANGED <<closing, cancelled, asked>>
<1>1. last + 1 \in Runs /\ pc[c] \in Kinds
  BY JobsAssumption DEF LaunchJob, LaunchOperation, MutexInv, TypeOK, Runs, Kinds
<1>2. CASE LaunchJob(c)
  BY <1>1, <1>2 DEF LaunchJob, TypeOK, NewRun, FreshControl
<1>3. CASE LaunchOperation(c)
  BY <1>1, <1>3 DEF LaunchOperation, TypeOK, NewRun, FreshControl
<1> QED
  BY <1>1, <1>2, <1>3

\* A start that fails releases the mutex and starts no thread.
LEMMA FailedStartFrame ==
  ASSUME TypeOK, MutexInv, NEW c \in Callers,
         SaveFails(c) \/ JobSpawnFails(c) \/ OperationSpawnFails(c)
  PROVE  /\ pc[c] \in Kinds
         /\ Joined(c)
         /\ Release(c)
         /\ last' \in {last, last + 1}
         /\ last + 1 \in Runs
         /\ (control' = control /\ last' = last) \/ control' = last'
         /\ job'.active => job.active
         /\ experiment'.active => experiment.active
         /\ UNCHANGED <<worker, closing, run, cancelled, asked>>
<1>1. last + 1 \in Runs /\ pc[c] \in Kinds
  BY JobsAssumption
     DEF SaveFails, JobSpawnFails, OperationSpawnFails, MutexInv, TypeOK, Runs, Kinds
<1>2. CASE SaveFails(c)
  BY <1>1, <1>2 DEF SaveFails, owner
<1>3. CASE JobSpawnFails(c)
  BY <1>1, <1>3 DEF JobSpawnFails, FreshControl, NewJob
<1>4. CASE OperationSpawnFails(c)
  BY <1>1, <1>4 DEF OperationSpawnFails, FreshControl, NewExperiment
<1> QED
  BY <1>1, <1>2, <1>3, <1>4

\* The commands that start nothing.
OtherCommand(c) ==
  \/ \E id \in Runs : CancelJob(c, id)
  \/ CancelTraining(c) \/ SaveSettings(c)

LEMMA OtherCommandFrame ==
  ASSUME NEW c \in Callers, OtherCommand(c)
  PROVE  UNCHANGED <<lock, pc, joinee, owner, last, run>>
BY DEF OtherCommand, CancelJob, CancelTraining, SaveSettings

\* Every step is of one of these kinds.
LEMMA StepKinds ==
  ASSUME [Next]_vars
  PROVE  \/ \E c \in Callers, k \in Kinds : Enter(c, k)
         \/ \E c \in Callers : SaveFails(c) \/ JobSpawnFails(c) \/ OperationSpawnFails(c)
         \/ \E c \in Callers : LaunchJob(c) \/ LaunchOperation(c)
         \/ \E c \in Callers : OtherCommand(c)
         \/ \E c \in Callers : BeginClear(c)
         \/ \E c \in Callers : EndClear(c)
         \/ \E c \in Callers : BeginShutdown(c)
         \/ \E c \in Callers : EndShutdown(c)
         \/ \E n \in Runs : WorkerStep(n)
         \/ UNCHANGED vars
BY DEF Next, CallerStep, OtherCommand
-----------------------------------------------------------------------------
(* The core invariant *)

LEMMA InitCore == Init => CoreInv
<1> SUFFICES ASSUME Init PROVE CoreInv
  OBVIOUS
<1>1. TypeOK
  BY InitTypeOK
<1>2. MutexInv
  BY JobsAssumption DEF Init, MutexInv, Holding, Kinds, JobKinds
<1>3. \A n \in Runs : run[n] = NoRun /\ run[n].at = "none"
  BY DEF Init, NoRun
<1>4. ThreadInv
  BY <1>3 DEF ThreadInv, OneThread, Live, Working
<1>5. ClosingInv
  BY DEF Init, ClosingInv
<1>6. FreshInv
  <2>1. control <= last
    BY DEF Init
  <2>2. \A n \in Runs : ~cancelled[n]
    BY JobsAssumption DEF Init, Runs
  <2> QED
    BY <1>3, <2>1, <2>2 DEF FreshInv
<1>7. FlagsNameTheRun
  BY <1>3 DEF Init, FlagsNameTheRun, Working
<1> QED
  BY <1>1, <1>2, <1>4, <1>5, <1>6, <1>7 DEF CoreInv

LEMMA NextMutex ==
  ASSUME CoreInv, [Next]_vars PROVE MutexInv'
<1> USE JobsAssumption DEF CoreInv
<1>1. ASSUME NEW c \in Callers, NEW k \in Kinds, Enter(c, k) PROVE MutexInv'
  BY <1>1 DEF Enter, MutexInv, Holding, Busy, TypeOK
<1>2. ASSUME NEW c \in Callers, SaveFails(c) \/ JobSpawnFails(c) \/ OperationSpawnFails(c)
      PROVE MutexInv'
  <2>1. /\ pc[c] \in Holding /\ Release(c) /\ last' \in Nat /\ worker' = worker
        /\ job'.active => job.active
        /\ experiment'.active => experiment.active
    BY <1>2, FailedStartFrame DEF Holding, TypeOK
  <2>2. lock = c /\ \A d \in Callers : pc[d] \in Holding => d = c
    BY <2>1 DEF MutexInv
  <2>3. lock' = Free /\ \A d \in Callers : pc'[d] \notin Holding
    BY <2>1, <2>2 DEF Release, TypeOK, Holding, Kinds, JobKinds
  <2> QED
    BY <2>3 DEF MutexInv, Holding
<1>3. ASSUME NEW c \in Callers, LaunchJob(c) \/ LaunchOperation(c) PROVE MutexInv'
  <2>1. lock = c /\ \A d \in Callers : pc[d] \in Holding => d = c
    BY <1>3, LaunchFrame DEF MutexInv, Holding
  <2>2. lock' = Free /\ \A d \in Callers : pc'[d] \notin Holding
    BY <1>3, <2>1, LaunchFrame DEF Release, TypeOK, Holding, Kinds, JobKinds
  <2> QED
    BY <2>2 DEF MutexInv, Holding
<1>4. ASSUME NEW c \in Callers, OtherCommand(c) PROVE MutexInv'
  BY <1>4, OtherCommandFrame DEF MutexInv, Busy, owner
<1>5. ASSUME NEW c \in Callers, BeginClear(c) PROVE MutexInv'
  BY <1>5 DEF BeginClear, MutexInv, Holding, Busy, TypeOK, owner, Kinds, JobKinds
<1>6. ASSUME NEW c \in Callers, EndClear(c) PROVE MutexInv'
  BY <1>6 DEF EndClear, Release, MutexInv, Holding, Busy, TypeOK, owner, Kinds, JobKinds
<1>7. ASSUME NEW c \in Callers, BeginShutdown(c) PROVE MutexInv'
  BY <1>7 DEF BeginShutdown, JoinWithoutMutex, MutexInv, Holding, Busy, TypeOK, Kinds, JobKinds
<1>8. ASSUME NEW c \in Callers, EndShutdown(c) PROVE MutexInv'
  BY <1>8 DEF EndShutdown, MutexInv, Holding, Busy, TypeOK, owner, Kinds, JobKinds
<1>9. ASSUME NEW n \in Runs, WorkerStep(n) PROVE MutexInv'
  BY <1>9, WorkerFrame DEF MutexInv, Busy
<1>10. CASE UNCHANGED vars
  BY <1>10 DEF vars, MutexInv, Busy
<1> QED
  BY <1>1, <1>2, <1>3, <1>4, <1>5, <1>6, <1>7, <1>8, <1>9, <1>10, StepKinds

LEMMA NextThread ==
  ASSUME CoreInv, [Next]_vars PROVE ThreadInv'
<1> USE JobsAssumption DEF CoreInv
<1>1. ASSUME NEW c \in Callers, NEW k \in Kinds, Enter(c, k) PROVE ThreadInv'
  BY <1>1, SMTT(40) DEF Enter, ThreadInv, OneThread, TypeOK, Kinds, JobKinds
<1>2. ASSUME NEW c \in Callers, SaveFails(c) \/ JobSpawnFails(c) \/ OperationSpawnFails(c)
      PROVE ThreadInv'
  <2>1. \A n \in Runs : run[n].at \in Live => joinee[c] # n
    BY <1>2, FailedStartFrame DEF Joined, Live, Working, Runs
  <2>2. \A d \in Callers \ {c} : pc'[d] = pc[d] /\ joinee'[d] = joinee[d]
    BY <1>2, FailedStartFrame DEF Release, TypeOK
  <2> QED
    BY <1>2, <2>1, <2>2, FailedStartFrame DEF ThreadInv, OneThread
<1>3. ASSUME NEW c \in Callers, LaunchJob(c) \/ LaunchOperation(c) PROVE ThreadInv'
  <2>1. \A n \in Runs : run[n].at \notin Live
    <3>1. worker = 0 /\ ~closing /\ Joined(c)
      BY <1>3, LaunchFrame DEF MutexInv, Holding, Busy
    <3>2. \A d \in Callers : pc[d] \in Kinds \cup {"exiting"} => d = c
      BY <1>3, <3>1, LaunchFrame DEF MutexInv, Holding, ClosingInv
    <3> QED
      BY <3>1, <3>2 DEF ThreadInv, Joined, Runs, Live, Working
  <2> QED
    BY <1>3, <2>1, LaunchFrame DEF ThreadInv, OneThread
<1>4. ASSUME NEW c \in Callers, OtherCommand(c) PROVE ThreadInv'
  BY <1>4, OtherCommandFrame DEF ThreadInv, OneThread, owner
<1>5. ASSUME NEW c \in Callers, BeginClear(c) PROVE ThreadInv'
  BY <1>5 DEF BeginClear, ThreadInv, OneThread, TypeOK, owner, Kinds, JobKinds
<1>6. ASSUME NEW c \in Callers, EndClear(c) PROVE ThreadInv'
  BY <1>6 DEF EndClear, Release, ThreadInv, OneThread, TypeOK, owner, Kinds, JobKinds
<1>7. ASSUME NEW c \in Callers, BeginShutdown(c) PROVE ThreadInv'
  BY <1>7 DEF BeginShutdown, ThreadInv, OneThread, TypeOK, Kinds, JobKinds
<1>8. ASSUME NEW c \in Callers, EndShutdown(c) PROVE ThreadInv'
  BY <1>8 DEF EndShutdown, Joined, ThreadInv, OneThread, TypeOK, owner, Live, Working, Runs
<1>9. ASSUME NEW n \in Runs, WorkerStep(n) PROVE ThreadInv'
  BY <1>9, WorkerFrame DEF ThreadInv, OneThread
<1>10. CASE UNCHANGED vars
  BY <1>10 DEF vars, ThreadInv, OneThread
<1> QED
  BY <1>1, <1>2, <1>3, <1>4, <1>5, <1>6, <1>7, <1>8, <1>9, <1>10, StepKinds

LEMMA NextClosing ==
  ASSUME CoreInv, [Next]_vars PROVE ClosingInv'
<1> USE JobsAssumption DEF CoreInv
<1>1. ASSUME NEW c \in Callers, NEW k \in Kinds, Enter(c, k) PROVE ClosingInv'
  BY <1>1 DEF Enter, ClosingInv, TypeOK, Kinds, JobKinds
<1>2. ASSUME NEW c \in Callers, SaveFails(c) \/ JobSpawnFails(c) \/ OperationSpawnFails(c)
      PROVE ClosingInv'
  BY <1>2, FailedStartFrame DEF Release, ClosingInv, TypeOK
<1>3. ASSUME NEW c \in Callers, LaunchJob(c) \/ LaunchOperation(c) PROVE ClosingInv'
  BY <1>3, LaunchFrame DEF Release, ClosingInv, TypeOK, MutexInv, Holding, Busy
<1>4. ASSUME NEW c \in Callers, OtherCommand(c) PROVE ClosingInv'
  BY <1>4, OtherCommandFrame DEF ClosingInv, owner
<1>5. ASSUME NEW c \in Callers, BeginClear(c) PROVE ClosingInv'
  BY <1>5 DEF BeginClear, ClosingInv, TypeOK, owner
<1>6. ASSUME NEW c \in Callers, EndClear(c) PROVE ClosingInv'
  BY <1>6 DEF EndClear, Release, ClosingInv, TypeOK, owner
<1>7. ASSUME NEW c \in Callers, BeginShutdown(c) PROVE ClosingInv'
  BY <1>7 DEF BeginShutdown, ClosingInv, TypeOK
<1>8. ASSUME NEW c \in Callers, EndShutdown(c) PROVE ClosingInv'
  BY <1>8 DEF EndShutdown, ClosingInv, TypeOK, owner
<1>9. ASSUME NEW n \in Runs, WorkerStep(n) PROVE ClosingInv'
  BY <1>9, WorkerFrame DEF ClosingInv
<1>10. CASE UNCHANGED vars
  BY <1>10 DEF vars, ClosingInv
<1> QED
  BY <1>1, <1>2, <1>3, <1>4, <1>5, <1>6, <1>7, <1>8, <1>9, <1>10, StepKinds

LEMMA NextFresh ==
  ASSUME CoreInv, [Next]_vars PROVE FreshInv'
<1> USE JobsAssumption DEF CoreInv
<1>0. last \in Nat /\ control \in Nat /\ Runs \subseteq Nat
  BY DEF TypeOK, Runs
<1>1. ASSUME NEW c \in Callers, NEW k \in Kinds, Enter(c, k) PROVE FreshInv'
  BY <1>1 DEF Enter, FreshInv
<1>2. ASSUME NEW c \in Callers, SaveFails(c) \/ JobSpawnFails(c) \/ OperationSpawnFails(c)
      PROVE FreshInv'
  BY <1>0, <1>2, FailedStartFrame DEF FreshInv
<1>3. ASSUME NEW c \in Callers, LaunchJob(c) \/ LaunchOperation(c) PROVE FreshInv'
  BY <1>0, <1>3, LaunchFrame DEF FreshInv
<1>4. ASSUME NEW c \in Callers, OtherCommand(c) PROVE FreshInv'
  <2>1. \A n \in Runs : n > last => cancelled'[n] = cancelled[n]
    <3>1. \/ cancelled' = [cancelled EXCEPT ![control] = TRUE]
          \/ cancelled' = cancelled
      BY <1>4 DEF OtherCommand, CancelJob, CancelTraining, SaveSettings
    <3> QED
      BY <1>0, <3>1 DEF FreshInv, TypeOK, Runs
  <2> QED
    BY <1>4, <2>1, OtherCommandFrame DEF FreshInv, owner
<1>5. ASSUME NEW c \in Callers, BeginClear(c) PROVE FreshInv'
  BY <1>5 DEF BeginClear, FreshInv, owner
<1>6. ASSUME NEW c \in Callers, EndClear(c) PROVE FreshInv'
  BY <1>6 DEF EndClear, FreshInv, owner
<1>7. ASSUME NEW c \in Callers, BeginShutdown(c) PROVE FreshInv'
  BY <1>0, <1>7 DEF BeginShutdown, CloseCancels, FreshInv, TypeOK
<1>8. ASSUME NEW c \in Callers, EndShutdown(c) PROVE FreshInv'
  BY <1>8 DEF EndShutdown, FreshInv, owner
<1>9. ASSUME NEW n \in Runs, WorkerStep(n) PROVE FreshInv'
  <2>1. n <= last
    BY <1>0, <1>9, WorkerFrame DEF FreshInv, NoRun, Live, Working
  <2>2. run[n].control = n
    BY <1>9, WorkerFrame DEF FreshInv, Live, Working
  <2> QED
    BY <1>0, <1>9, <2>1, <2>2, WorkerFrame DEF FreshInv
<1>10. CASE UNCHANGED vars
  BY <1>10 DEF vars, FreshInv
<1> QED
  BY <1>1, <1>2, <1>3, <1>4, <1>5, <1>6, <1>7, <1>8, <1>9, <1>10, StepKinds

LEMMA NextFlags ==
  ASSUME CoreInv, [Next]_vars PROVE FlagsNameTheRun'
<1> USE JobsAssumption DEF CoreInv
<1>1. ASSUME NEW c \in Callers, NEW k \in Kinds, Enter(c, k) PROVE FlagsNameTheRun'
  BY <1>1 DEF Enter, FlagsNameTheRun
<1>2. ASSUME NEW c \in Callers, SaveFails(c) \/ JobSpawnFails(c) \/ OperationSpawnFails(c)
      PROVE FlagsNameTheRun'
  <2>1. ~job.active /\ ~experiment.active
    BY <1>2, FailedStartFrame DEF MutexInv, Holding, Busy
  <2> QED
    BY <1>2, <2>1, FailedStartFrame DEF FlagsNameTheRun
<1>3. ASSUME NEW c \in Callers, LaunchJob(c) \/ LaunchOperation(c) PROVE FlagsNameTheRun'
  <2>1. ~job.active /\ ~experiment.active
    BY <1>3, LaunchFrame DEF MutexInv, Holding, Busy
  <2>2. \A n \in Runs : run[n].at \notin Working
    BY <2>1 DEF FlagsNameTheRun
  <2>3. CASE LaunchJob(c)
    <3>1. /\ job'.active /\ job'.id = job.id + 1 /\ experiment' = experiment
          /\ pc[c] \in JobKinds /\ run'[last + 1].job = job.id + 1
      BY <2>3, LaunchFrame DEF LaunchJob, NewJob, NewRun, TypeOK
    <3> QED
      BY <2>1, <2>2, <2>3, <3>1, LaunchFrame DEF FlagsNameTheRun, Working
  <2>4. CASE LaunchOperation(c)
    <3>1. experiment'.active /\ job' = job /\ pc[c] = "operation"
      BY <2>4 DEF LaunchOperation, NewExperiment
    <3> QED
      BY <2>1, <2>2, <2>4, <3>1, LaunchFrame DEF FlagsNameTheRun, Working
  <2> QED
    BY <1>3, <2>3, <2>4
<1>4. ASSUME NEW c \in Callers, OtherCommand(c) PROVE FlagsNameTheRun'
  BY <1>4, OtherCommandFrame DEF FlagsNameTheRun, owner
<1>5. ASSUME NEW c \in Callers, BeginClear(c) PROVE FlagsNameTheRun'
  BY <1>5 DEF BeginClear, FlagsNameTheRun, owner
<1>6. ASSUME NEW c \in Callers, EndClear(c) PROVE FlagsNameTheRun'
  BY <1>6 DEF EndClear, FlagsNameTheRun, owner
<1>7. ASSUME NEW c \in Callers, BeginShutdown(c) PROVE FlagsNameTheRun'
  BY <1>7 DEF BeginShutdown, FlagsNameTheRun
<1>8. ASSUME NEW c \in Callers, EndShutdown(c) PROVE FlagsNameTheRun'
  BY <1>8 DEF EndShutdown, FlagsNameTheRun, owner
<1>9. ASSUME NEW n \in Runs, WorkerStep(n) PROVE FlagsNameTheRun'
  <2>1. CASE run'[n].at \in Working
    BY <1>9, <2>1, WorkerFrame DEF FlagsNameTheRun, Working
  <2>2. CASE run[n].at \in Working /\ run'[n].at = "leaving"
    <3>1. Settle(n)
      BY <1>9, <2>2
         DEF WorkerStep, Report, Decide, ReportEnd, ThreadExit, TypeOK, RunRecords, Working
    <3>2. n = control /\ \A m \in Runs : run'[m].at \notin Working
      BY <1>9, <2>2, WorkerFrame DEF FlagsNameTheRun, Working
    <3>3. ~job'.active /\ ~experiment'.active
      <4>1. ~SettledJob(n).active /\ ~SettledExperiment(n).active
        BY DEF SettledJob, SettledWithError, SettledExperiment, TypeOK, JobRecords,
               ExperimentRecords
      <4>2. CASE run[n].kind = "operation"
        BY <3>1, <3>2, <4>1, <4>2 DEF Settle, FlagsNameTheRun, JobKinds
      <4>3. CASE run[n].kind # "operation"
        BY <3>1, <3>2, <4>1, <4>3 DEF Settle, FlagsNameTheRun
      <4> QED
        BY <4>2, <4>3
    <3> QED
      BY <3>2, <3>3 DEF FlagsNameTheRun
  <2>3. CASE run[n].at = "leaving" /\ run'[n].at = "exited"
    BY <1>9, <2>3, WorkerFrame DEF FlagsNameTheRun, Working
  <2> QED
    BY <1>9, <2>1, <2>2, <2>3, WorkerFrame
<1>10. CASE UNCHANGED vars
  BY <1>10 DEF vars, FlagsNameTheRun
<1> QED
  BY <1>1, <1>2, <1>3, <1>4, <1>5, <1>6, <1>7, <1>8, <1>9, <1>10, StepKinds

\* The core invariant holds in every reachable state, for any callers, any
\* number of runs and any settings.
THEOREM CoreInvariant == Spec => []CoreInv
<1>1. CoreInv /\ [Next]_vars => CoreInv'
  <2> SUFFICES ASSUME CoreInv, [Next]_vars PROVE CoreInv'
    OBVIOUS
  <2>1. TypeOK /\ MutexInv
    BY DEF CoreInv
  <2> QED
    BY <2>1, NextTypeOK, NextMutex, NextThread, NextClosing, NextFresh, NextFlags DEF CoreInv
<1> QED
  BY InitCore, <1>1, PTL DEF Spec

\* Every state variable keeps its type (struct Inner and the worker threads).
THEOREM TypeCorrect == Spec => []TypeOK
<1>1. CoreInv => TypeOK
  BY DEF CoreInv
<1> QED
  BY CoreInvariant, <1>1, PTL

\* There is never more than one worker thread.
THEOREM AtMostOneThread == Spec => []OneThread
<1>1. CoreInv => OneThread
  BY DEF CoreInv, ThreadInv
<1> QED
  BY CoreInvariant, <1>1, PTL

\* The active flags name the run inner.control belongs to.
THEOREM FlagsAreExact == Spec => []FlagsNameTheRun
<1>1. CoreInv => FlagsNameTheRun
  BY DEF CoreInv
<1> QED
  BY CoreInvariant, <1>1, PTL

\* A join made with the mutex held never waits for a worker that needs the
\* mutex: start_with_mode and operation cannot deadlock with their worker.
THEOREM NoJoinDeadlock == Spec => []BlockingSectionsAreQuiet
<1>1. CoreInv => BlockingSectionsAreQuiet
  BY DEF CoreInv, MutexInv, Holding, Busy, FlagsNameTheRun, BlockingSectionsAreQuiet
<1> QED
  BY CoreInvariant, <1>1, PTL

\* Once shutdown has returned, no worker thread is left.
THEOREM ShutdownIsComplete == Spec => []ShutdownLeavesNoThread
<1>1. CoreInv => ShutdownLeavesNoThread
  <2> SUFFICES ASSUME CoreInv, NEW c \in Callers, pc[c] = "exited",
                      NEW n \in Runs, run[n].at \in Live
               PROVE  FALSE
    BY DEF ShutdownLeavesNoThread
  <2> USE DEF CoreInv
  <2>1. closing /\ worker = 0 /\ n # worker
    BY DEF ClosingInv, Runs
  <2>2. PICK d \in Callers : pc[d] \in Kinds \cup {"exiting"} /\ joinee[d] = n
    BY <2>1 DEF ThreadInv
  <2>3. pc[d] \notin Kinds
    BY <2>1 DEF MutexInv, Holding, Busy
  <2> QED
    BY <2>2, <2>3 DEF ClosingInv
<1> QED
  BY CoreInvariant, <1>1, PTL
-----------------------------------------------------------------------------
(* Stops *)

StopPart == StopInv /\ CancelledWasAsked

\* The only step that gives a run an outcome; a job is cancelled only if its
\* own flag is set.
LEMMA OutcomeFrame ==
  ASSUME TypeOK, NEW n \in Runs, WorkerStep(n)
  PROVE  \/ run'[n].outcome = run[n].outcome
         \/ /\ run[n].at = "working" /\ run'[n].outcome \in OutcomesOf(n)
            /\ run'[n].at = "ended" /\ run'[n].state = run[n].state
<1> USE DEF TypeOK, RunRecords
<1>1. CASE Decide(n)
  BY <1>1 DEF Decide
<1>2. CASE Settle(n)
  BY <1>2 DEF Settle, Leave
<1>3. CASE Report(n) \/ ReportEnd(n) \/ ThreadExit(n)
  BY <1>3 DEF Report, ReportEnd, ThreadExit
<1> QED
  BY <1>1, <1>2, <1>3 DEF WorkerStep

LEMMA NextStop ==
  ASSUME CoreInv, StopPart, [Next]_vars PROVE StopPart'
<1> USE DEF CoreInv, StopPart, StopInv, CancelledWasAsked
<1>1. ASSUME UNCHANGED <<run, cancelled, asked>> PROVE StopPart'
  BY <1>1
<1>2. ASSUME NEW c \in Callers, LaunchJob(c) \/ LaunchOperation(c) PROVE StopPart'
  <2>1. ~cancelled[last + 1]
    BY <1>2, LaunchFrame DEF FreshInv, TypeOK
  <2> QED
    BY <1>2, <2>1, LaunchFrame
<1>3. ASSUME NEW c \in Callers, OtherCommand(c) PROVE StopPart'
  <2>1. CASE SaveSettings(c)
    BY <2>1, <1>1 DEF SaveSettings
  <2>2. ASSUME NEW id \in Runs, CancelJob(c, id) PROVE StopPart'
    <3>1. control \in asked' /\ asked \subseteq asked'
      BY <2>2 DEF CancelJob, CancelsJob, FlagsNameTheRun
    <3> QED
      BY <2>2, <3>1 DEF CancelJob, TypeOK
  <2>3. CASE CancelTraining(c)
    <3>1. control \in asked' /\ asked \subseteq asked'
      BY <2>3 DEF CancelTraining, FlagsNameTheRun
    <3> QED
      BY <2>3, <3>1 DEF CancelTraining, TypeOK
  <2> QED
    BY <1>3, <2>1, <2>2, <2>3 DEF OtherCommand
<1>4. ASSUME NEW c \in Callers, BeginShutdown(c) PROVE StopPart'
  <2>1. asked \subseteq asked' /\ \A n \in Runs : run[n].at \in Live => n \in asked'
    BY <1>4 DEF BeginShutdown
  <2> QED
    BY <1>4, <2>1 DEF BeginShutdown
<1>5. ASSUME NEW n \in Runs, WorkerStep(n) PROVE StopPart'
  <2>1. run'[n].outcome = "cancelled" => n \in asked
    <3>1. CASE run'[n].outcome = run[n].outcome
      BY <3>1
    <3>2. CASE run[n].at = "working" /\ run'[n].outcome \in OutcomesOf(n)
      <4>1. run[n].control = n
        BY <3>2 DEF FreshInv
      <4>2. run'[n].outcome = "cancelled" => cancelled[n]
        BY <3>2, <4>1 DEF OutcomesOf, JobOutcomes
      <4> QED
        BY <3>2, <4>2 DEF Live, Working
    <3> QED
      BY <1>5, <3>1, <3>2, OutcomeFrame
  <2> QED
    BY <1>5, <2>1, WorkerFrame
<1> QED
  <2>1. ASSUME NEW c \in Callers, NEW k \in Kinds, Enter(c, k) PROVE StopPart'
    BY <2>1, <1>1 DEF Enter
  <2>2. ASSUME NEW c \in Callers, SaveFails(c) \/ JobSpawnFails(c) \/ OperationSpawnFails(c)
        PROVE StopPart'
    BY <2>2, <1>1, FailedStartFrame
  <2>3. ASSUME NEW c \in Callers, BeginClear(c) \/ EndClear(c) \/ EndShutdown(c)
        PROVE StopPart'
    BY <2>3, <1>1 DEF BeginClear, EndClear, EndShutdown
  <2>4. CASE UNCHANGED vars
    BY <2>4, <1>1 DEF vars
  <2> QED
    BY <1>2, <1>3, <1>4, <1>5, <2>1, <2>2, <2>3, <2>4, StepKinds

\* A run ends cancelled only if somebody asked to stop that very run: cancel_job
\* with its id, cancel_training while it ran, or shutdown.
THEOREM StopsHitTheirTarget == Spec => []CancelledWasAsked
<1>1. Init => StopPart
  BY JobsAssumption DEF Init, StopPart, StopInv, CancelledWasAsked, NoRun, Live, Working
<1>2. CoreInv /\ StopPart /\ [Next]_vars => StopPart'
  BY NextStop
<1>3. StopPart => CancelledWasAsked
  BY DEF StopPart
<1> QED
  BY CoreInvariant, <1>1, <1>2, <1>3, PTL DEF Spec

-----------------------------------------------------------------------------
(* Settings *)

\* inner.settings is what settings.json holds once anything was read from it or
\* saved to it, also when a save fails.
THEOREM SettingsAgree == Spec => []SettingsAreOnDisk
<1> USE DEF SettingsAreOnDisk
<1>1. Init => SettingsAreOnDisk
  BY DEF Init
<1>2. ASSUME [Next]_vars PROVE \/ UNCHANGED <<settings, disk>>
                               \/ \E s \in SettingsValues : Remember(s)
  <2>1. ASSUME NEW c \in Callers, CallerStep(c)
        PROVE \/ UNCHANGED <<settings, disk>> \/ \E s \in SettingsValues : Remember(s)
    BY <2>1
       DEF CallerStep, Enter, SaveFails, NothingRemembered, LaunchJob, JobSpawnFails,
           LaunchOperation, OperationSpawnFails, CancelJob, CancelTraining, SaveSettings,
           BeginClear, EndClear, BeginShutdown, EndShutdown
  <2>2. ASSUME NEW n \in Runs, WorkerStep(n) PROVE UNCHANGED <<settings, disk>>
    BY <2>2 DEF WorkerStep, Report, Decide, ReportEnd, Settle, ThreadExit
  <2> QED
    BY <1>2, <2>1, <2>2 DEF Next, vars
<1>3. SettingsAreOnDisk /\ [Next]_vars => SettingsAreOnDisk'
  BY <1>2 DEF Remember
<1> QED
  BY <1>1, <1>3, PTL DEF Spec
-----------------------------------------------------------------------------
(* Verdicts *)

LEMMA NextRun ==
  ASSUME CoreInv, RunInv, [Next]_vars PROVE RunInv'
<1> USE DEF CoreInv, RunInv
<1>1. ASSUME UNCHANGED run PROVE RunInv'
  BY <1>1
<1>2. ASSUME NEW c \in Callers, LaunchJob(c) \/ LaunchOperation(c) PROVE RunInv'
  BY <1>2, LaunchFrame DEF Live, Working
<1>3. ASSUME NEW n \in Runs, WorkerStep(n) PROVE RunInv'
  <2> DEFINE Part(r) ==
        /\ r.at \in {"none", "working"} => r.outcome = "none"
        /\ r.at \in {"working", "ended"} => r.state \in {"none", "queued", "running"}
        /\ r.at \in Live \ {"working"} => r.outcome # "none"
        /\ r.kind \in JobKinds /\ r.at = "ended" /\ r.outcome = "succeeded"
             => r.state = "running"
        /\ r.at = "reported"
             => r.kind \in JobKinds /\ r.outcome \in Terminal /\ r.state = r.outcome
  <2>0. Part(run[n]) /\ run[n] \in RunRecords
    BY DEF TypeOK
  <2>1. ASSUME Report(n) PROVE Part(run'[n])
    <3>1. /\ run'[n].at = "working" /\ run'[n].outcome = "none"
          /\ run'[n].state \in {"queued", "running"}
      BY <2>0, <2>1 DEF Report, NextState, TypeOK, RunRecords
    <3> QED
      BY <3>1 DEF Live, Working
  <2>2. ASSUME Decide(n) PROVE Part(run'[n])
    <3>1. /\ run'[n].at = "ended" /\ run'[n].outcome \in OutcomesOf(n)
          /\ run'[n].state = run[n].state /\ run'[n].kind = run[n].kind
          /\ run[n].at = "working"
      BY <2>2 DEF Decide, TypeOK, RunRecords
    <3>2. run'[n].outcome # "none"
      BY <3>1 DEF OutcomesOf, JobOutcomes
    <3>3. run[n].kind \in JobKinds /\ run'[n].outcome = "succeeded" => run[n].state = "running"
      BY <3>1 DEF OutcomesOf, JobOutcomes, JobKinds
    <3> QED
      BY <2>0, <3>1, <3>2, <3>3
  <2>3. ASSUME ReportEnd(n) PROVE Part(run'[n])
    <3>1. /\ run'[n].at = "reported" /\ run'[n].kind = run[n].kind
          /\ run'[n].outcome = run[n].outcome /\ run'[n].state = run[n].outcome
          /\ run[n].kind \in JobKinds /\ run[n].at = "ended" /\ run[n].outcome # "panicked"
      BY <2>0, <2>3 DEF ReportEnd, PublishesEnd, TypeOK, RunRecords
    <3>2. run[n].outcome \in Terminal
      BY <2>0, <3>1 DEF RunRecords, Outcomes, Terminal, Live, Working
    <3> QED
      BY <3>1, <3>2 DEF Live, Working, Terminal
  <2>4. ASSUME Settle(n) PROVE Part(run'[n])
    <3>1. /\ run'[n].at = "leaving" /\ run'[n].outcome = run[n].outcome
          /\ run[n].at \in {"ended", "reported"}
      BY <2>4 DEF Settle, CanSettle, Leave, TypeOK, RunRecords
    <3> QED
      BY <2>0, <3>1 DEF Live, Working
  <2>5. ASSUME ThreadExit(n) PROVE Part(run'[n])
    <3>1. run'[n].at = "exited"
      BY <2>5 DEF ThreadExit, TypeOK, RunRecords
    <3> QED
      BY <3>1 DEF Live, Working
  <2>6. Part(run'[n])
    BY <1>3, <2>1, <2>2, <2>3, <2>4, <2>5 DEF WorkerStep
  <2> QED
    BY <1>3, <2>6, WorkerFrame
<1> QED
  <2>1. ASSUME NEW c \in Callers, NEW k \in Kinds, Enter(c, k) PROVE RunInv'
    BY <2>1, <1>1 DEF Enter
  <2>2. ASSUME NEW c \in Callers, SaveFails(c) \/ JobSpawnFails(c) \/ OperationSpawnFails(c)
        PROVE RunInv'
    BY <2>2, <1>1, FailedStartFrame
  <2>3. ASSUME NEW c \in Callers,
               BeginClear(c) \/ EndClear(c) \/ BeginShutdown(c) \/ EndShutdown(c)
        PROVE RunInv'
    BY <2>3, <1>1 DEF BeginClear, EndClear, BeginShutdown, EndShutdown
  <2>4. ASSUME NEW c \in Callers, OtherCommand(c) PROVE RunInv'
    BY <2>4, <1>1, OtherCommandFrame
  <2>5. CASE UNCHANGED vars
    BY <2>5, <1>1 DEF vars
  <2> QED
    BY <1>2, <1>3, <2>1, <2>2, <2>3, <2>4, <2>5, StepKinds

\* A worker that still writes into inner.job writes into its own job's snapshot.
LEMMA WriterOwnsSnapshot ==
  ASSUME CoreInv, NEW n \in Runs, run[n].at \in Working, run[n].kind \in JobKinds
  PROVE  n = control /\ job.active /\ run[n].job = job.id /\ ~experiment.active
BY DEF CoreInv, FlagsNameTheRun, JobKinds

Verdict == SnapshotInv /\ SnapshotIsOfItsJob /\ VerdictIsComplete

\* Steps that change neither snapshot nor the records of runs keep the verdict.
LEMMA VerdictFrame ==
  ASSUME CoreInv, Verdict, UNCHANGED <<job, experiment>>, control' = control \/ ~job.active,
         \A n \in Runs : run[n].at # "none" => run'[n] = run[n]
  PROVE  Verdict'
<1> USE DEF CoreInv, TypeOK, JobRecords, ExperimentRecords, Working, Runs
<1>1. /\ job.result # 0 => run'[job.result] = run[job.result]
      /\ experiment.report # 0 => run'[experiment.report] = run[experiment.report]
      /\ job.active => run'[control] = run[control]
  BY DEF Verdict, SnapshotInv, FlagsNameTheRun
<1> QED
  BY <1>1 DEF Verdict, SnapshotInv, SnapshotIsOfItsJob, VerdictIsComplete

LEMMA NextVerdict ==
  ASSUME CoreInv, RunInv, Verdict, [Next]_vars PROVE Verdict'
<1> USE DEF CoreInv
<1>1. ASSUME NEW c \in Callers, LaunchJob(c) PROVE Verdict'
  <2>0. job.id + 1 # 0
    BY DEF TypeOK, JobRecords
  <2>1. job' = NewJob(job.id + 1) /\ experiment' = experiment
    BY <1>1 DEF LaunchJob
  <2>2. run'[control'].state = "none"
    BY <1>1, LaunchFrame
  <2>3. experiment.report # 0 => run'[experiment.report] = run[experiment.report]
    BY <1>1, LaunchFrame
       DEF Verdict, SnapshotInv, FreshInv, TypeOK, ExperimentRecords, Runs, NoRun
  <2> QED
    BY <2>0, <2>1, <2>2, <2>3
       DEF NewJob, Verdict, SnapshotInv, SnapshotIsOfItsJob, VerdictIsComplete
<1>2. ASSUME NEW c \in Callers, JobSpawnFails(c) PROVE Verdict'
  <2>1. job' = [NewJob(job.id + 1) EXCEPT !.active = FALSE, !.error = "spawn"]
        /\ experiment' = experiment /\ run' = run
    BY <1>2 DEF JobSpawnFails
  <2> QED
    BY <2>1 DEF NewJob, Verdict, SnapshotInv, SnapshotIsOfItsJob, VerdictIsComplete
<1>3. ASSUME NEW c \in Callers, LaunchOperation(c) PROVE Verdict'
  <2>1. job' = job /\ experiment' = NewExperiment /\ ~job.active
    BY <1>3, LaunchFrame DEF LaunchOperation, MutexInv, Holding, Busy
  <2>2. job.result # 0 => run'[job.result] = run[job.result]
    BY <1>3, LaunchFrame DEF Verdict, SnapshotInv, FreshInv, TypeOK, JobRecords, Runs, NoRun
  <2> QED
    BY <2>1, <2>2
       DEF NewExperiment, Verdict, SnapshotInv, SnapshotIsOfItsJob, VerdictIsComplete
<1>4. ASSUME NEW c \in Callers, OperationSpawnFails(c) PROVE Verdict'
  <2>1. job' = job /\ experiment'.report = 0 /\ ~job.active /\ run' = run
    BY <1>4, FailedStartFrame DEF OperationSpawnFails, NewExperiment, MutexInv, Holding, Busy
  <2> QED
    BY <2>1 DEF Verdict, SnapshotInv, SnapshotIsOfItsJob, VerdictIsComplete
<1>5. ASSUME NEW n \in Runs, Report(n) \/ ReportEnd(n) PROVE Verdict'
  <2>1. run[n].at \in Working /\ run[n].kind \in JobKinds
    BY <1>5 DEF Report, ReportEnd, PublishesEnd, Working
  <2>2. n = control /\ job.active /\ run[n].job = job.id /\ ~experiment.active
    BY <2>1, WriterOwnsSnapshot
  <2>3. /\ job' = [job EXCEPT !.state = run'[n].state, !.about = run[n].job]
        /\ control' = control /\ experiment' = experiment
    <3>1. CASE Report(n)
      BY <3>1 DEF Report, Announced, TypeOK, RunRecords
    <3>2. CASE ReportEnd(n)
      BY <3>2 DEF ReportEnd, Announced, TypeOK, RunRecords
    <3> QED
      BY <1>5, <3>1, <3>2
  <2>4. job.result = 0
    BY <2>2 DEF Verdict, SnapshotInv
  <2>5. experiment.report # 0 => run'[experiment.report] = run[experiment.report]
    BY <1>5, <2>1, WorkerFrame, SMTT(40)
       DEF WorkerStep, Verdict, SnapshotInv, TypeOK, ExperimentRecords, Runs, Working
  <2> QED
    BY <2>2, <2>3, <2>4, <2>5
       DEF Verdict, SnapshotInv, SnapshotIsOfItsJob, VerdictIsComplete, TypeOK, JobRecords
<1>6. ASSUME NEW n \in Runs, Decide(n) PROVE Verdict'
  <2>1. \A m \in Runs : run'[m].state = run[m].state
    BY <1>6 DEF Decide, TypeOK, RunRecords
  <2>2. \A m \in Runs \ {n} : run'[m] = run[m]
    BY <1>6 DEF Decide, TypeOK
  <2>3. run[n].at = "working" /\ UNCHANGED <<job, experiment, control>>
    BY <1>6 DEF Decide, owner
  <2>4. /\ job.result # 0 => run'[job.result] = run[job.result]
        /\ experiment.report # 0 => run'[experiment.report] = run[experiment.report]
    BY <2>2, <2>3 DEF Verdict, SnapshotInv, TypeOK, JobRecords, ExperimentRecords, Runs
  <2>5. job.active => run'[control].state = run[control].state
    BY <2>1 DEF FlagsNameTheRun
  <2> QED
    BY <2>3, <2>4, <2>5 DEF Verdict, SnapshotInv, SnapshotIsOfItsJob, VerdictIsComplete
<1>7. ASSUME NEW n \in Runs, ThreadExit(n) PROVE Verdict'
  <2>1. run' = [run EXCEPT ![n].at = "exited"] /\ UNCHANGED <<job, experiment, control>>
    BY <1>7 DEF ThreadExit, owner
  <2> QED
    BY <2>1 DEF Verdict, SnapshotInv, SnapshotIsOfItsJob, VerdictIsComplete, FlagsNameTheRun,
           TypeOK, RunRecords, JobRecords, ExperimentRecords, Runs
<1>8. ASSUME NEW n \in Runs, Settle(n) PROVE Verdict'
  <2>0. run[n].at \in Working /\ run'[n].at = "leaving" /\ control' = control
        /\ run'[n].outcome = run[n].outcome /\ run'[n].kind = run[n].kind
        /\ run'[n].job = run[n].job
    BY <1>8 DEF Settle, CanSettle, Leave, Working, TypeOK, RunRecords
  <2>1. \A m \in Runs : run[m].at \in {"leaving", "exited"} => run'[m] = run[m]
    BY <1>8, <2>0, WorkerFrame DEF WorkerStep, Working
  <2>2. CASE run[n].kind = "operation"
    <3>1. ~job.active
      BY <2>0, <2>2 DEF FlagsNameTheRun, JobKinds
    <3>2. job' = job /\ experiment' = SettledExperiment(n)
      BY <1>8, <2>2 DEF Settle
    <3>3. experiment'.report = IF run[n].outcome = "succeeded" THEN n ELSE experiment.report
      BY <3>2 DEF SettledExperiment, TypeOK, ExperimentRecords
    <3> QED
      BY <2>0, <2>1, <2>2, <3>1, <3>2, <3>3
         DEF Verdict, SnapshotInv, SnapshotIsOfItsJob, VerdictIsComplete,
             TypeOK, JobRecords, ExperimentRecords, Runs
  <2>3. CASE run[n].kind # "operation"
    <3>1. run[n].kind \in JobKinds
      BY <2>0, <2>3 DEF FlagsNameTheRun, JobKinds
    <3>2. n = control /\ job.active /\ run[n].job = job.id /\ job.state = run[n].state
          /\ job.result = 0 /\ job.error = "none"
      BY <2>0, <3>1, WriterOwnsSnapshot DEF Verdict, SnapshotInv
    <3>3. job' = SettledJob(n) /\ experiment' = experiment
      BY <1>8, <2>3 DEF Settle
    <3>4. CASE run[n].outcome = "succeeded"
      <4>1. run[n].at = "reported" /\ run[n].state = "succeeded"
        BY <1>8, <3>1, <3>4 DEF Settle, CanSettle, PublishesEnd, RunInv
      <4> QED
        BY <2>0, <2>1, <3>2, <3>3, <3>4, <4>1
           DEF SettledJob, Verdict, SnapshotInv, SnapshotIsOfItsJob, VerdictIsComplete,
               TypeOK, JobRecords, ExperimentRecords, Runs
    <3>5. CASE run[n].outcome # "succeeded"
      <4>1. run[n].outcome \in Outcomes \ {"none"}
        BY <1>8, <2>0, <3>5 DEF Settle, CanSettle, RunInv, TypeOK, RunRecords, Live, Working
      <4>2. job.state \in Terminal => job.state = StateOf(run[n].outcome)
        BY <1>8, <3>2 DEF Settle, CanSettle, RunInv, StateOf, Terminal
      <4>3. /\ job'.id = job.id /\ ~job'.active /\ job'.result = 0
            /\ job'.error = run[n].outcome /\ job'.state = StateOf(run[n].outcome)
            /\ job'.about = IF job.state \in Terminal THEN job.about ELSE run[n].job
        BY <3>2, <3>3, <3>5, <4>2 DEF SettledJob, SettledWithError, TypeOK, JobRecords
      <4>4. job'.about = job.id
        BY <3>2, <4>3 DEF Verdict, SnapshotIsOfItsJob, Terminal
      <4> QED
        BY <2>1, <3>3, <4>1, <4>3, <4>4
           DEF Verdict, SnapshotInv, SnapshotIsOfItsJob, VerdictIsComplete,
               TypeOK, ExperimentRecords, Runs
    <3> QED
      BY <3>4, <3>5
  <2> QED
    BY <2>2, <2>3
<1> QED
  <2>1. ASSUME NEW c \in Callers, NEW k \in Kinds, Enter(c, k) PROVE Verdict'
    BY <2>1, VerdictFrame DEF Enter
  <2>2. ASSUME NEW c \in Callers, SaveFails(c) PROVE Verdict'
    BY <2>2, VerdictFrame DEF SaveFails, owner
  <2>3. ASSUME NEW c \in Callers,
               BeginClear(c) \/ EndClear(c) \/ BeginShutdown(c) \/ EndShutdown(c)
        PROVE Verdict'
    BY <2>3, VerdictFrame DEF BeginClear, EndClear, BeginShutdown, EndShutdown, owner
  <2>4. ASSUME NEW c \in Callers, OtherCommand(c) PROVE Verdict'
    BY <2>4, VerdictFrame, OtherCommandFrame DEF owner
  <2>5. CASE UNCHANGED vars
    BY <2>5, VerdictFrame DEF vars
  <2>6. ASSUME NEW n \in Runs, WorkerStep(n) PROVE Verdict'
    BY <2>6, <1>5, <1>6, <1>7, <1>8 DEF WorkerStep
  <2> QED
    BY <1>1, <1>2, <1>3, <1>4, <2>1, <2>2, <2>3, <2>4, <2>5, <2>6, StepKinds

LEMMA VerdictInvariant == Spec => [](RunInv /\ Verdict)
<1>1. Init => RunInv /\ Verdict
  BY JobsAssumption
     DEF Init, RunInv, Verdict, SnapshotInv, SnapshotIsOfItsJob, VerdictIsComplete, NoRun,
         Live, Working
<1>2. CoreInv /\ RunInv /\ Verdict /\ [Next]_vars => (RunInv /\ Verdict)'
  BY NextRun, NextVerdict
<1> QED
  BY CoreInvariant, <1>1, <1>2, PTL DEF Spec

\* A result, a status and an error in inner.job always come from the job it
\* names, although workers write into it without looking at the id.
THEOREM SnapshotsAreTheirOwn == Spec => []SnapshotIsOfItsJob
<1>1. Verdict => SnapshotIsOfItsJob
  BY DEF Verdict
<1> QED
  BY VerdictInvariant, <1>1, PTL

\* An inactive job shows a complete verdict: result and succeeded, or an error
\* and the status it stands for.
THEOREM VerdictsAreComplete == Spec => []VerdictIsComplete
<1>1. Verdict => VerdictIsComplete
  BY DEF Verdict
<1> QED
  BY VerdictInvariant, <1>1, PTL

\* The mutex, the worker, the flags, the verdict, the settings file and shutdown
\* agree with one another in every reachable state: what jobs_safety checks for
\* two callers and three runs holds for any number of either.
THEOREM OwnerConsistent == Spec => []OwnerIsConsistent
<1>1. OneThread /\ BlockingSectionsAreQuiet /\ FlagsNameTheRun
        /\ VerdictIsComplete /\ SettingsAreOnDisk /\ ShutdownLeavesNoThread
          => OwnerIsConsistent
  BY DEF OwnerIsConsistent
<1> QED
  BY <1>1, AtMostOneThread, NoJoinDeadlock, FlagsAreExact, VerdictsAreComplete,
     SettingsAgree, ShutdownIsComplete, PTL
-----------------------------------------------------------------------------
(* Stops that were asked for *)

\* Whoever asked to stop a job that is still computing reached its control.
AskedInv ==
  /\ \A n \in Runs : run[n].at = "none" => run[n].kind = "none"
  /\ \A n \in asked :
       /\ run[n].at # "none"
       /\ run[n].kind \in JobKinds /\ run[n].at = "working" => cancelled[n]

\* A request names runs that exist, and of those still computing the one whose
\* control it sets; a later run is not among those asked to stop.
LEMMA NextAsked ==
  ASSUME CoreInv, AskedInv, [Next]_vars PROVE AskedInv'
<1> USE DEF CoreInv, TypeOK, RunRecords
<1>1. ASSUME UNCHANGED <<run, cancelled, asked>> PROVE AskedInv'
  BY <1>1 DEF AskedInv
<1>2. ASSUME NEW c \in Callers, LaunchJob(c) \/ LaunchOperation(c) PROVE AskedInv'
  <2>1. last + 1 \notin asked
    BY <1>2, LaunchFrame DEF AskedInv, FreshInv, NoRun
  <2> QED
    <3>1. \A n \in Runs : IF n = last + 1 THEN run'[n].at = "working" ELSE run'[n] = run[n]
      BY <1>2, LaunchFrame
    <3>2. UNCHANGED <<cancelled, asked>>
      BY <1>2, LaunchFrame
    <3> QED
      BY <2>1, <3>1, <3>2 DEF AskedInv
<1>3. ASSUME NEW c \in Callers, OtherCommand(c) PROVE AskedInv'
  <2>1. CASE SaveSettings(c)
    BY <2>1, <1>1 DEF SaveSettings
  <2>2. ASSUME NEW id \in Runs, CancelJob(c, id) PROVE AskedInv'
    <3>1. /\ cancelled' = [cancelled EXCEPT ![control] = TRUE] /\ run' = run
          /\ asked' = asked \cup {n \in Runs : run[n].kind \in JobKinds /\ run[n].job = id}
      BY <2>2 DEF CancelJob
    <3>2. \A n \in Runs : run[n].kind \in JobKinds => run[n].at # "none"
      BY DEF AskedInv, JobKinds
    <3>3. \A n \in Runs : run[n].at = "working" => n = control
      BY DEF FlagsNameTheRun, Working
    <3> QED
      BY <3>1, <3>2, <3>3 DEF AskedInv
  <2>3. CASE CancelTraining(c)
    <3>1. /\ cancelled' = [cancelled EXCEPT ![control] = TRUE] /\ run' = run
          /\ asked' = asked \cup {n \in Runs : run[n].kind = "operation"}
      BY <2>3 DEF CancelTraining
    <3>2. \A n \in Runs : run[n].kind = "operation" => run[n].at # "none" /\ run[n].kind \notin JobKinds
      BY DEF AskedInv, JobKinds
    <3> QED
      BY <3>1, <3>2 DEF AskedInv
  <2> QED
    BY <1>3, <2>1, <2>2, <2>3 DEF OtherCommand
<1>4. ASSUME NEW c \in Callers, BeginShutdown(c) PROVE AskedInv'
  <2>1. /\ cancelled' = [cancelled EXCEPT ![control] = TRUE] /\ run' = run
        /\ asked' = asked \cup {n \in Runs : run[n].at \in Live}
    BY <1>4 DEF BeginShutdown, CloseCancels
  <2>2. \A n \in Runs : run[n].at = "working" => n = control
    BY DEF FlagsNameTheRun, Working
  <2> QED
    BY <2>1, <2>2 DEF AskedInv, Live, Working
<1>5. ASSUME NEW n \in Runs, WorkerStep(n) PROVE AskedInv'
  <2>1. /\ \A m \in Runs \ {n} : run'[m] = run[m]
        /\ UNCHANGED <<cancelled, asked>>
        /\ run'[n].kind = run[n].kind /\ run[n].at # "none" /\ run'[n].at # "none"
        /\ run'[n].at = "working" => run[n].at = "working"
    <3>1. CASE Report(n)
      BY <1>5, <3>1, WorkerFrame DEF Report
    <3>2. CASE ~Report(n)
      BY <1>5, <3>2, WorkerFrame, SMTT(40)
         DEF WorkerStep, Decide, ReportEnd, Settle, Leave, ThreadExit, Live, Working
    <3> QED
      BY <3>1, <3>2
  <2> QED
    BY <2>1 DEF AskedInv
<1> QED
  <2>1. ASSUME NEW c \in Callers, NEW k \in Kinds, Enter(c, k) PROVE AskedInv'
    BY <2>1, <1>1 DEF Enter
  <2>2. ASSUME NEW c \in Callers, SaveFails(c) \/ JobSpawnFails(c) \/ OperationSpawnFails(c)
        PROVE AskedInv'
    BY <2>2, <1>1, FailedStartFrame
  <2>3. ASSUME NEW c \in Callers, BeginClear(c) \/ EndClear(c) \/ EndShutdown(c)
        PROVE AskedInv'
    BY <2>3, <1>1 DEF BeginClear, EndClear, EndShutdown
  <2>4. CASE UNCHANGED vars
    BY <2>4, <1>1 DEF vars
  <2> QED
    BY <1>2, <1>3, <1>4, <1>5, <2>1, <2>2, <2>3, <2>4, StepKinds

\* A stop asked for while a job was running, by cancel_job or by shutdown, is
\* honoured: whatever else happens, that job ends cancelled or panicked, and
\* what it may have computed is not published (jobs.rs:245-314).
THEOREM StopsAreHonoured == Spec => StopIsHonoured
<1>1. Init => AskedInv
  BY DEF Init, AskedInv, NoRun
<1>2. CoreInv /\ AskedInv /\ [Next]_vars => AskedInv'
  BY NextAsked
<1>3. CoreInv /\ RunInv /\ AskedInv /\ [Next]_vars
        => [\A n \in asked :
              run[n].kind \in JobKinds /\ run[n].at = "working" /\ run[n].state = "running" =>
                run'[n].outcome \in {"none", "cancelled", "panicked"}]_run
  <2> SUFFICES ASSUME CoreInv, RunInv, AskedInv, [Next]_vars, NEW n \in asked,
                      run[n].kind \in JobKinds, run[n].at = "working", run[n].state = "running"
               PROVE  run'[n].outcome \in {"none", "cancelled", "panicked"}
    OBVIOUS
  <2>1. n \in Runs /\ run[n].outcome = "none" /\ cancelled[n] /\ run[n].control = n
    BY DEF CoreInv, TypeOK, RunInv, AskedInv, FreshInv
  <2>2. OutcomesOf(n) = {"panicked", "cancelled"}
    BY <2>1 DEF OutcomesOf, JobOutcomes, JobKinds
  <2>3. CASE WorkerStep(n)
    BY <2>1, <2>2, <2>3, OutcomeFrame DEF CoreInv
  <2>4. CASE \E m \in Runs \ {n} : WorkerStep(m)
    BY <2>1, <2>4, WorkerFrame DEF CoreInv
  <2>5. CASE \E c \in Callers : LaunchJob(c) \/ LaunchOperation(c)
    <3>1. last + 1 # n
      BY <2>1, <2>5, LaunchFrame DEF CoreInv, TypeOK, FreshInv, NoRun
    <3> QED
      BY <2>1, <2>5, <3>1, LaunchFrame DEF CoreInv
  <2>6. CASE ~(\E m \in Runs : WorkerStep(m)) /\ ~(\E c \in Callers : LaunchJob(c) \/ LaunchOperation(c))
    <3>1. run' = run
      BY <2>6, FailedStartFrame, OtherCommandFrame, StepKinds
         DEF CoreInv, Enter, BeginClear, EndClear, BeginShutdown, EndShutdown, vars
    <3> QED
      BY <2>1, <3>1
  <2> QED
    BY <2>1, <2>3, <2>4, <2>5, <2>6
<1> QED
  BY CoreInvariant, VerdictInvariant, <1>1, <1>2, <1>3, PTL DEF Spec, StopIsHonoured

-----------------------------------------------------------------------------
(* Refinement of SolverSlot *)

AbstractView == <<SlotOf, {n \in Runs : run[n].at # "none"}, ~closing,
                  [id |-> job.id, verdict |-> VerdictOf]>>

\* A step that leaves the flags, the snapshot's verdict and the set of started
\* runs alone is a stutter of the slot.
LEMMA StutterView ==
  ASSUME control' = control \/ (~job.active /\ ~experiment.active),
         job'.id = job.id, job'.active = job.active, job'.result = job.result,
         experiment'.active = experiment.active, closing' = closing,
         \A n \in Runs : (run'[n].at # "none") = (run[n].at # "none")
  PROVE  UNCHANGED AbstractView
<1>1. SlotOf' = SlotOf
  BY DEF SlotOf
<1>2. VerdictOf' = VerdictOf
  BY DEF VerdictOf
<1>3. {n \in Runs : run[n].at # "none"}' = {n \in Runs : run[n].at # "none"}
  OBVIOUS
<1> QED
  BY <1>1, <1>2, <1>3 DEF AbstractView

LEMMA WorkerView ==
  ASSUME CoreInv, NEW n \in Runs, WorkerStep(n), ~Settle(n)
  PROVE  UNCHANGED AbstractView
<1> USE DEF CoreInv, TypeOK
<1>1. /\ job'.id = job.id /\ job'.active = job.active /\ job'.result = job.result
      /\ experiment' = experiment
  BY DEF WorkerStep, Report, Decide, ReportEnd, ThreadExit, Announced, owner, JobRecords
<1>2. \A m \in Runs : (run'[m].at # "none") = (run[m].at # "none")
  BY WorkerFrame DEF Live, Working
<1> QED
  BY <1>1, <1>2, WorkerFrame, StutterView

LEMMA SettleView ==
  ASSUME CoreInv, Verdict, NEW n \in Runs, Settle(n)
  PROVE  Slot!Settle
<1> USE DEF CoreInv, TypeOK
<1>1. run[n].at \in Working /\ n = control /\ (job.active \/ experiment.active)
  BY DEF Settle, CanSettle, Working, FlagsNameTheRun
<1>2. SlotOf = n /\ n # 0
  BY <1>1 DEF SlotOf, Runs
<1>3. {m \in Runs : run[m].at # "none"}' = {m \in Runs : run[m].at # "none"}
  <2>1. /\ run[n].at # "none" /\ run'[n].at # "none"
        /\ \A m \in Runs \ {n} : run'[m] = run[m]
    BY <1>1, WorkerFrame DEF WorkerStep, Working
  <2> QED
    BY <2>1
<1>4. CASE run[n].kind = "operation"
  <2>1. ~job.active /\ job' = job /\ ~experiment'.active
    BY <1>1, <1>4
       DEF Settle, SettledExperiment, FlagsNameTheRun, JobKinds, ExperimentRecords
  <2>2. SlotOf' = 0 /\ VerdictOf' = VerdictOf /\ VerdictOf # "pending"
    BY <2>1 DEF SlotOf, VerdictOf
  <2> QED
    BY <1>2, <1>3, <2>1, <2>2 DEF Settle, Slot!Settle
<1>5. CASE run[n].kind # "operation"
  <2>1. job.active /\ ~experiment.active
    BY <1>1, <1>5 DEF FlagsNameTheRun
  <2>2. job' = SettledJob(n) /\ experiment' = experiment
    BY <1>5 DEF Settle
  <2>3. job'.id = job.id /\ ~job'.active
    BY <2>2 DEF SettledJob, SettledWithError, JobRecords
  <2>4. job.id # 0
    BY <2>1 DEF Verdict, SnapshotInv
  <2>5. SlotOf' = 0 /\ VerdictOf = "pending" /\ VerdictOf' \in {"result", "error"}
    BY <2>1, <2>2, <2>3, <2>4 DEF SlotOf, VerdictOf
  <2> QED
    BY <1>2, <1>3, <2>3, <2>5 DEF Settle, Slot!Settle
<1> QED
  BY <1>4, <1>5

\* Every step of the job owner is a step of the slot or leaves it alone.
LEMMA StepView ==
  ASSUME CoreInv, Verdict, [Next]_vars
  PROVE  Slot!Next \/ UNCHANGED AbstractView
<1> USE DEF CoreInv
<1>1. ASSUME NEW c \in Callers, NEW k \in Kinds, Enter(c, k)
      PROVE UNCHANGED AbstractView
  BY <1>1, StutterView DEF Enter
<1>2. ASSUME NEW c \in Callers, SaveFails(c) PROVE UNCHANGED AbstractView
  BY <1>2, StutterView DEF SaveFails, owner
<1>3. ASSUME NEW c \in Callers, OperationSpawnFails(c) PROVE UNCHANGED AbstractView
  <2>1. ~experiment.active /\ ~job.active
    BY <1>3 DEF OperationSpawnFails, MutexInv, Holding, Busy, Kinds
  <2>2. experiment'.active = FALSE
    BY <1>3 DEF OperationSpawnFails, NewExperiment
  <2>3. UNCHANGED <<job, closing, run>>
    BY <1>3 DEF OperationSpawnFails
  <2>4. experiment'.active = experiment.active
    BY <2>1, <2>2 DEF TypeOK, ExperimentRecords
  <2> QED
    BY <2>1, <2>3, <2>4, StutterView
<1>4. ASSUME NEW c \in Callers, JobSpawnFails(c) PROVE Slot!RefuseJob
  <2>1. ~experiment.active /\ ~job.active /\ ~closing
    BY <1>4 DEF JobSpawnFails, MutexInv, Holding, Busy, Kinds
  <2>2. job'.id = job.id + 1 /\ ~job'.active /\ job'.result = 0 /\ job'.id # 0
    BY <1>4 DEF JobSpawnFails, NewJob, TypeOK, JobRecords
  <2>3. SlotOf = 0 /\ SlotOf' = 0 /\ VerdictOf' = "error"
    BY <1>4, <2>1, <2>2 DEF SlotOf, VerdictOf, JobSpawnFails
  <2>4. {n \in Runs : run[n].at # "none"}' = {n \in Runs : run[n].at # "none"}
    BY <1>4 DEF JobSpawnFails
  <2> QED
    BY <1>4, <2>1, <2>2, <2>3, <2>4 DEF JobSpawnFails, Slot!RefuseJob
<1>5. ASSUME NEW c \in Callers, LaunchJob(c) \/ LaunchOperation(c)
      PROVE  Slot!Take(last + 1)
  <2>1. ~experiment.active /\ ~job.active /\ ~closing
    BY <1>5, LaunchFrame DEF MutexInv, Holding, Busy
  <2>2. run[last + 1].at = "none"
    BY <1>5, LaunchFrame DEF FreshInv, NoRun, TypeOK
  <2>3. {n \in Runs : run[n].at # "none"}'
          = {n \in Runs : run[n].at # "none"} \cup {last + 1}
    BY <1>5, LaunchFrame
  <2>4. job'.active \/ experiment'.active
    BY <1>5 DEF LaunchJob, LaunchOperation, NewJob, NewExperiment
  <2>5. SlotOf = 0 /\ SlotOf' = last + 1
    BY <1>5, <2>1, <2>4, LaunchFrame DEF SlotOf
  <2> QED
    BY <1>5, <2>1, <2>2, <2>3, <2>5, LaunchFrame DEF Slot!Take
<1>6. ASSUME NEW c \in Callers, LaunchJob(c) PROVE Slot!AdmitJob(last + 1)
  <2>1. job'.id = job.id + 1 /\ job'.active /\ job'.id # 0
    BY <1>6 DEF LaunchJob, NewJob, TypeOK, JobRecords
  <2> QED
    BY <1>5, <1>6, <2>1 DEF Slot!AdmitJob, VerdictOf
<1>7. ASSUME NEW c \in Callers, LaunchOperation(c) PROVE Slot!AdmitOperation(last + 1)
  <2>1. job' = job
    BY <1>7 DEF LaunchOperation
  <2> QED
    BY <1>5, <1>7, <2>1 DEF Slot!AdmitOperation, VerdictOf
<1>8. ASSUME NEW c \in Callers, BeginShutdown(c) PROVE Slot!Close
  BY <1>8 DEF BeginShutdown, Slot!Close, SlotOf, VerdictOf
<1>9. ASSUME NEW c \in Callers, OtherCommand(c) PROVE UNCHANGED AbstractView
  BY <1>9, OtherCommandFrame, StutterView DEF owner
<1>10. ASSUME NEW c \in Callers, BeginClear(c) \/ EndClear(c) \/ EndShutdown(c)
       PROVE UNCHANGED AbstractView
  BY <1>10, StutterView DEF BeginClear, EndClear, EndShutdown, owner
<1>11. CASE UNCHANGED vars
  BY <1>11, StutterView DEF vars
<1>12. ASSUME NEW n \in Runs, WorkerStep(n) PROVE Slot!Settle \/ UNCHANGED AbstractView
  BY <1>12, SettleView, WorkerView
<1>13. ASSUME NEW c \in Callers, LaunchJob(c) \/ LaunchOperation(c) PROVE Slot!Next
  <2>1. last + 1 \in Runs
    BY <1>13, LaunchFrame
  <2>2. Slot!AdmitJob(last + 1) \/ Slot!AdmitOperation(last + 1)
    BY <1>6, <1>7, <1>13
  <2> QED
    BY <2>1, <2>2 DEF Slot!Next, Slot!AdmitJob, Slot!AdmitOperation, Slot!Take
<1>14. Slot!RefuseJob \/ Slot!Settle \/ Slot!Close => Slot!Next
  BY DEF Slot!Next
<1> QED
  BY <1>1, <1>2, <1>3, <1>4, <1>8, <1>9, <1>10, <1>11, <1>12, <1>13, <1>14, StepKinds

\* The job owner implements the abstract slot: one run at a time, never the same
\* run twice, one verdict per job, nothing after closing.
THEOREM ImplementsSlotSafely == Spec => ImplementsSlot
<1>1. Init => Slot!Init
  BY DEF Init, Slot!Init, SlotOf, VerdictOf, NoRun
<1>2. CoreInv /\ Verdict /\ [Next]_vars => Slot!Next \/ UNCHANGED AbstractView
  BY StepView
<1>3. UNCHANGED AbstractView => UNCHANGED Slot!slotVars
  BY DEF AbstractView, Slot!slotVars
<1> QED
  BY <1>1, <1>2, <1>3, CoreInvariant, VerdictInvariant, PTL DEF Spec, Slot!Spec, ImplementsSlot

-----------------------------------------------------------------------------
(* Paths *)

\* A name; the provers know only that strings are different.
Name ==
  STRING \cup
    { "TajemnikTV", "TajsAnagrams", "AnagramSolver", "tv.tajemnik.anagramsolver", "Programs",
      "TajsAnagrams.lnk", "AnagramSolver.lnk", "desktop-install", "corpora", "user-data",
      "settings.json", "EBWebView", "TajsAnagrams.exe", "AnagramSolver.exe", "backup",
      "legacy-shortcut.lnk", "legacy-backup.exe" }

Names == Seq(Name)

\* A prefix, name by name.
LEMMA PrefixByName ==
  ASSUME NEW s \in Names, NEW t \in Names
  PROVE IsPrefix(s, t) <=> Len(s) <= Len(t) /\ \A i \in 1..Len(s) : s[i] = t[i]
<1>1. ASSUME Len(s) <= Len(t)
      PROVE SubSeq(s, 1, Len(s)) = SubSeq(t, 1, Len(s)) <=> \A i \in 1..Len(s) : s[i] = t[i]
  <2>1. /\ SubSeq(s, 1, Len(s)) \in Names /\ Len(SubSeq(s, 1, Len(s))) = Len(s)
        /\ SubSeq(t, 1, Len(s)) \in Names /\ Len(SubSeq(t, 1, Len(s))) = Len(s)
        /\ \A i \in 1..Len(s) : SubSeq(s, 1, Len(s))[i] = s[i] /\ SubSeq(t, 1, Len(s))[i] = t[i]
    BY <1>1 DEF Names
  <2>2. ASSUME \A i \in 1..Len(s) : s[i] = t[i]
        PROVE SubSeq(s, 1, Len(s)) = SubSeq(t, 1, Len(s))
    BY <2>1, <2>2, SeqEqual, Zenon DEF Names
  <2> QED BY <2>1, <2>2
<1> QED BY <1>1 DEF IsPrefix

\* The path that takes the place of another one when a directory moves.
Rebase(p, from, to) == to \o SubSeq(p, Len(from) + 1, Len(p))

LEMMA RebaseShape ==
  ASSUME NEW p \in Names, NEW from \in Names, NEW to \in Names, IsPrefix(from, p)
  PROVE /\ Rebase(p, from, to) \in Names
        /\ Len(Rebase(p, from, to)) = Len(to) + Len(p) - Len(from)
        /\ \A i \in 1..Len(to) : Rebase(p, from, to)[i] = to[i]
        /\ \A i \in (Len(to) + 1)..(Len(to) + Len(p) - Len(from)) :
             Rebase(p, from, to)[i] = p[i - Len(to) + Len(from)]
        /\ IsPrefix(to, Rebase(p, from, to))
<1> DEFINE rest == SubSeq(p, Len(from) + 1, Len(p))
<1>1. Len(from) <= Len(p) /\ Len(from) \in Nat /\ Len(p) \in Nat /\ Len(to) \in Nat
  BY PrefixByName DEF Names
<1>2. /\ rest \in Names /\ Len(rest) = Len(p) - Len(from)
      /\ \A i \in 1..(Len(p) - Len(from)) : rest[i] = p[Len(from) + i]
  BY <1>1 DEF Names
<1> HIDE DEF rest
<1>3. /\ Rebase(p, from, to) \in Names
      /\ Len(Rebase(p, from, to)) = Len(to) + Len(rest)
      /\ \A i \in 1..Len(to) : Rebase(p, from, to)[i] = to[i]
      /\ \A i \in (Len(to) + 1)..(Len(to) + Len(rest)) : Rebase(p, from, to)[i] = rest[i - Len(to)]
  <2>1. Rebase(p, from, to) = to \o rest
    BY DEF Rebase, rest
  <2>2. to \in Seq(Name) /\ rest \in Seq(Name)
    BY <1>2 DEF Names
  <2> QED BY <2>1, <2>2, <1>1, ConcatProperties DEF Names
<1>4. ASSUME NEW i \in (Len(to) + 1)..(Len(to) + Len(p) - Len(from))
      PROVE Rebase(p, from, to)[i] = p[i - Len(to) + Len(from)]
  <2>1. i - Len(to) \in 1..(Len(p) - Len(from)) /\ i \in (Len(to) + 1)..(Len(to) + Len(rest))
    BY <1>1, <1>2
  <2>2. rest[i - Len(to)] = p[Len(from) + (i - Len(to))]
    BY <2>1, <1>2
  <2>3. Len(from) + (i - Len(to)) = i - Len(to) + Len(from)
    BY <1>1
  <2> QED BY <2>1, <2>2, <2>3, <1>3
<1>5. IsPrefix(to, Rebase(p, from, to))
  BY <1>1, <1>2, <1>3, PrefixByName
<1> QED BY <1>1, <1>2, <1>3, <1>4, <1>5

\* Two rebasings undo each other.
LEMMA RebaseBack ==
  ASSUME NEW p \in Names, NEW from \in Names, NEW to \in Names, IsPrefix(from, p)
  PROVE Rebase(Rebase(p, from, to), to, from) = p
<1> DEFINE q == Rebase(p, from, to)
           r == Rebase(q, to, from)
<1>1. /\ q \in Names /\ Len(q) = Len(to) + Len(p) - Len(from) /\ IsPrefix(to, q)
      /\ \A i \in (Len(to) + 1)..(Len(to) + Len(p) - Len(from)) : q[i] = p[i - Len(to) + Len(from)]
  BY RebaseShape
<1> HIDE DEF q
<1>2. /\ r \in Names /\ Len(r) = Len(from) + Len(q) - Len(to)
      /\ \A i \in 1..Len(from) : r[i] = from[i]
      /\ \A i \in (Len(from) + 1)..(Len(from) + Len(q) - Len(to)) : r[i] = q[i - Len(from) + Len(to)]
  <2>1. q \in Names /\ to \in Names /\ from \in Names /\ IsPrefix(to, q)
    BY <1>1
  <2> QED BY <2>1, RebaseShape, ZenonT(40)
<1> HIDE DEF r
<1>3. /\ Len(from) <= Len(p) /\ \A i \in 1..Len(from) : from[i] = p[i]
      /\ Len(from) \in Nat /\ Len(p) \in Nat /\ Len(to) \in Nat
  BY PrefixByName DEF Names
<1>4. Len(r) = Len(p)
  BY <1>1, <1>2, <1>3
<1>5. ASSUME NEW i \in 1..Len(p) PROVE r[i] = p[i]
  <2>1. CASE i <= Len(from)
    BY <2>1, <1>2, <1>3
  <2>2. CASE i > Len(from)
    <3>1. i \in (Len(from) + 1)..(Len(from) + Len(q) - Len(to))
      BY <2>2, <1>1, <1>3
    <3>2. i - Len(from) + Len(to) \in (Len(to) + 1)..(Len(to) + Len(p) - Len(from))
      BY <2>2, <1>3
    <3>3. (i - Len(from) + Len(to)) - Len(to) + Len(from) = i
      BY <1>3
    <3>4. q[i - Len(from) + Len(to)] = p[(i - Len(from) + Len(to)) - Len(to) + Len(from)]
      BY <3>2, <1>1
    <3> QED BY <3>1, <3>3, <3>4, <1>2
  <2> QED BY <2>1, <2>2, <1>3
<1>6. r = p
  BY <1>2, <1>4, <1>5, SeqEqual DEF Names
<1> QED BY <1>6 DEF r, q

\* The last name of a path below a directory goes with it.
LEMMA RebaseLast ==
  ASSUME NEW p \in Names, NEW from \in Names, NEW to \in Names, IsPrefix(from, p), p # from
  PROVE /\ Rebase(p, from, to) # to
        /\ Last(Rebase(p, from, to)) = Last(p)
        /\ Len(Rebase(p, from, to)) > 0
<1>1. /\ Len(from) <= Len(p) /\ \A i \in 1..Len(from) : from[i] = p[i]
      /\ Len(from) \in Nat /\ Len(p) \in Nat /\ Len(to) \in Nat
  BY PrefixByName DEF Names
<1>2. Len(p) # Len(from)
  BY <1>1, SeqEqual DEF Names
<1>3. /\ Len(Rebase(p, from, to)) = Len(to) + Len(p) - Len(from)
      /\ \A i \in (Len(to) + 1)..(Len(to) + Len(p) - Len(from)) :
           Rebase(p, from, to)[i] = p[i - Len(to) + Len(from)]
  BY RebaseShape
<1>4. Rebase(p, from, to)[Len(to) + Len(p) - Len(from)] = p[Len(p)]
  <2>1. Len(to) + Len(p) - Len(from) \in (Len(to) + 1)..(Len(to) + Len(p) - Len(from))
    BY <1>1, <1>2
  <2>2. (Len(to) + Len(p) - Len(from)) - Len(to) + Len(from) = Len(p)
    BY <1>1
  <2> QED BY <2>1, <2>2, <1>3
<1> QED BY <1>1, <1>2, <1>3, <1>4 DEF Last

-----------------------------------------------------------------------------
(* File systems *)

\* Two trees with the same paths and contents.
Same(one, other) ==
  /\ DOMAIN one = DOMAIN other
  /\ \A p \in DOMAIN one : one[p] = other[p]

\* The paths of a tree are names, one after the other.
Named(tree) == \A p \in DOMAIN tree : p \in Names

\* Whatever is in a tree has its directories there.
Closed(tree) ==
  \A p \in DOMAIN tree, q \in Names : q # <<>> /\ IsPrefix(q, p) => q \in DOMAIN tree

LEMMA WithFacts ==
  ASSUME NEW tree, NEW path, NEW content
  PROVE /\ DOMAIN With(tree, path, content) = DOMAIN tree \cup {path}
        /\ With(tree, path, content)[path] = content
        /\ \A p \in DOMAIN tree : p # path => With(tree, path, content)[p] = tree[p]
  BY DEF With

LEMMA WithoutFacts ==
  ASSUME NEW tree, NEW path
  PROVE /\ DOMAIN Without(tree, path) = {p \in DOMAIN tree : ~IsPrefix(path, p)}
        /\ \A p \in DOMAIN Without(tree, path) : Without(tree, path)[p] = tree[p]
  BY DEF Without, Below, Restrict

\* Where a path of a tree is once a directory of it has moved.
LEMMA MovedFacts ==
  ASSUME NEW tree, Named(tree), NEW from \in Names, NEW to \in Names
  PROVE \A p \in Names :
    /\ p \in DOMAIN Moved(tree, from, to) <=>
         \/ IsPrefix(to, p) /\ Rebase(p, to, from) \in DOMAIN tree
         \/ p \in DOMAIN tree /\ ~IsPrefix(from, p)
    /\ IsPrefix(to, p) /\ Rebase(p, to, from) \in DOMAIN tree =>
         Moved(tree, from, to)[p] = tree[Rebase(p, to, from)]
    /\ ~(IsPrefix(to, p) /\ Rebase(p, to, from) \in DOMAIN tree)
         /\ p \in DOMAIN tree /\ ~IsPrefix(from, p) =>
         Moved(tree, from, to)[p] = tree[p]
<1> DEFINE gone == {to \o SubSeq(q, Len(from) + 1, Len(q)) : q \in Below(tree, from)}
           rest == DOMAIN tree \ Below(tree, from)
<1>1. ASSUME NEW p \in Names
      PROVE p \in gone <=> IsPrefix(to, p) /\ Rebase(p, to, from) \in DOMAIN tree
  <2>1. ASSUME p \in gone
        PROVE IsPrefix(to, p) /\ Rebase(p, to, from) \in DOMAIN tree
    <3>1. PICK q \in DOMAIN tree : IsPrefix(from, q) /\ p = Rebase(q, from, to)
      BY <2>1 DEF Below, Rebase
    <3>2. q \in Names
      BY DEF Named
    <3>3. IsPrefix(to, p) /\ Rebase(p, to, from) = q
      BY <3>1, <3>2, RebaseShape, RebaseBack, Zenon
    <3> QED BY <3>3
  <2>2. ASSUME IsPrefix(to, p), Rebase(p, to, from) \in DOMAIN tree
        PROVE p \in gone
    <3>1. IsPrefix(from, Rebase(p, to, from)) /\ p = Rebase(Rebase(p, to, from), from, to)
      BY <2>2, RebaseShape, RebaseBack, Zenon
    <3>2. \E q \in Below(tree, from) : p = Rebase(q, from, to)
      BY <2>2, <3>1, Zenon DEF Below
    <3> QED BY <3>2 DEF Rebase
  <2> QED BY <2>1, <2>2
<1>2. /\ DOMAIN Moved(tree, from, to) = gone \cup rest
      /\ \A p \in gone : Moved(tree, from, to)[p] = tree[Rebase(p, to, from)]
      /\ \A p \in rest : p \notin gone => Moved(tree, from, to)[p] = tree[p]
  <2>1. Moved(tree, from, to) =
          [p \in gone \cup rest |-> IF p \in gone THEN tree[Rebase(p, to, from)] ELSE tree[p]]
    BY Zenon DEF Moved, Rebase
  <2> HIDE DEF gone, rest
  <2> QED BY <2>1
<1>3. \A p : p \in rest <=> p \in DOMAIN tree /\ ~IsPrefix(from, p)
  BY DEF Below
<1> HIDE DEF gone, rest
<1> QED BY <1>1, <1>2, <1>3

LEMMA NamedAfterWith ==
  ASSUME NEW tree, Named(tree), NEW path \in Names, NEW content
  PROVE Named(With(tree, path, content))
<1>1. DOMAIN With(tree, path, content) = DOMAIN tree \cup {path}
  BY WithFacts, Zenon
<1> QED BY <1>1 DEF Named

LEMMA NamedAfterWithout ==
  ASSUME NEW tree, Named(tree), NEW path
  PROVE Named(Without(tree, path))
  BY WithoutFacts DEF Named

LEMMA NamedAfterMove ==
  ASSUME NEW tree, Named(tree), NEW from \in Names, NEW to \in Names
  PROVE Named(Moved(tree, from, to))
<1> DEFINE gone == {to \o SubSeq(q, Len(from) + 1, Len(q)) : q \in Below(tree, from)}
<1>1. DOMAIN Moved(tree, from, to) = gone \cup (DOMAIN tree \ Below(tree, from))
  <2>1. \E f : Moved(tree, from, to) = [p \in gone \cup (DOMAIN tree \ Below(tree, from)) |-> f[p]]
    <3>1. Moved(tree, from, to) =
            [p \in gone \cup (DOMAIN tree \ Below(tree, from)) |->
               Moved(tree, from, to)[p]]
      BY Zenon DEF Moved
    <3> QED BY <3>1
  <2> QED BY <2>1
<1>2. ASSUME NEW p \in gone PROVE p \in Names
  <2>1. PICK q \in Below(tree, from) : p = Rebase(q, from, to)
    BY DEF Rebase
  <2> QED BY <2>1, RebaseShape DEF Below, Named
<1> QED BY <1>1, <1>2 DEF Named

\* Prefixes of prefixes, and the prefixes of one path.
LEMMA PrefixOrder ==
  ASSUME NEW p \in Names, NEW q \in Names, NEW r \in Names
  PROVE /\ IsPrefix(p, p)
        /\ IsPrefix(p, q) /\ IsPrefix(q, r) => IsPrefix(p, r)
        /\ IsPrefix(p, r) /\ IsPrefix(q, r) => IsPrefix(p, q) \/ IsPrefix(q, p)
        /\ IsPrefix(p, q) /\ IsPrefix(q, p) => p = q
<1>0. Len(p) \in Nat /\ Len(q) \in Nat /\ Len(r) \in Nat
  BY DEF Names
<1>1. IsPrefix(p, p)
  BY <1>0, PrefixByName
<1>2. ASSUME IsPrefix(p, q), IsPrefix(q, r) PROVE IsPrefix(p, r)
  BY <1>0, <1>2, PrefixByName
<1>3. ASSUME IsPrefix(p, r), IsPrefix(q, r) PROVE IsPrefix(p, q) \/ IsPrefix(q, p)
  <2>1. CASE Len(p) <= Len(q)
    BY <2>1, <1>0, <1>3, PrefixByName
  <2>2. CASE Len(q) <= Len(p)
    BY <2>2, <1>0, <1>3, PrefixByName
  <2> QED BY <2>1, <2>2, <1>0
<1>4. ASSUME IsPrefix(p, q), IsPrefix(q, p) PROVE p = q
  BY <1>0, <1>4, PrefixByName, SeqEqual DEF Names
<1> QED BY <1>1, <1>2, <1>3, <1>4

\* The prefixes of a path are what it starts with.
LEMMA PrefixIsInitial ==
  ASSUME NEW p \in Names, NEW q \in Names
  PROVE /\ q # <<>> /\ IsPrefix(q, p) => Len(q) \in 1..Len(p) /\ q = SubSeq(p, 1, Len(q))
        /\ \A i \in 1..Len(p) : /\ SubSeq(p, 1, i) \in Names /\ SubSeq(p, 1, i) # <<>>
                                /\ Len(SubSeq(p, 1, i)) = i
                                /\ IsPrefix(SubSeq(p, 1, i), p)
<1>0. Len(p) \in Nat /\ Len(q) \in Nat
  BY DEF Names
<1>1. ASSUME NEW i \in 1..Len(p)
      PROVE /\ SubSeq(p, 1, i) \in Names /\ SubSeq(p, 1, i) # <<>>
            /\ Len(SubSeq(p, 1, i)) = i
            /\ \A j \in 1..i : SubSeq(p, 1, i)[j] = p[j]
  <2>1. i \in Nat /\ i >= 1 /\ i <= Len(p)
    BY <1>0
  <2>2. SubSeq(p, 1, i) \in Names /\ Len(SubSeq(p, 1, i)) = i
        /\ \A j \in 1..i : SubSeq(p, 1, i)[j] = p[j]
    BY <2>1, <1>0 DEF Names
  <2> QED BY <2>1, <2>2
<1>2. ASSUME NEW i \in 1..Len(p) PROVE IsPrefix(SubSeq(p, 1, i), p)
  <2> DEFINE s == SubSeq(p, 1, i)
  <2>1. s \in Names /\ Len(s) = i /\ (\A j \in 1..i : s[j] = p[j])
    BY <1>1
  <2> HIDE DEF s
  <2>2. IsPrefix(s, p)
    BY <2>1, <1>0, PrefixByName
  <2> QED BY <2>2 DEF s
<1>3. ASSUME q # <<>>, IsPrefix(q, p)
      PROVE Len(q) \in 1..Len(p) /\ q = SubSeq(p, 1, Len(q))
  <2>1. Len(q) <= Len(p) /\ \A i \in 1..Len(q) : q[i] = p[i]
    BY <1>3, PrefixByName
  <2>2. Len(q) \in 1..Len(p)
    BY <1>0, <1>3, <2>1 DEF Names
  <2>3. /\ SubSeq(p, 1, Len(q)) \in Names
        /\ Len(SubSeq(p, 1, Len(q))) = Len(q)
        /\ \A j \in 1..Len(q) : SubSeq(p, 1, Len(q))[j] = q[j]
    BY <2>1, <2>2, <1>1
  <2> QED BY <2>2, <2>3, SeqEqual DEF Names
<1> QED BY <1>1, <1>2, <1>3

\* Where a path is missing, so is whatever would be in it.
LEMMA NothingBelow ==
  ASSUME NEW tree, Named(tree), Closed(tree), NEW path \in Names, path # <<>>, ~Exists(tree, path)
  PROVE \A p \in DOMAIN tree : ~IsPrefix(path, p)
  BY DEF Closed, Exists

-----------------------------------------------------------------------------
(* What an entry of the journal promises about the trees around it *)

\* The names the started application gives to what it makes.
ByTheApplication(path) == Len(path) > 0 /\ Last(path) \in {"user-data", "EBWebView"}

\* big is small and what the application left.
Covers(big, small) ==
  /\ Named(big)
  /\ \A p \in DOMAIN small : p \in DOMAIN big /\ big[p] = small[p]
  /\ \A p \in DOMAIN big : p \notin DOMAIN small =>
       big[p] \in {AppDir, AppFile} /\ ByTheApplication(p)

FileReverses(to, original, later, earlier) ==
  Same(earlier, IF original # Nothing THEN With(later, to, original) ELSE Without(later, to))

MoveReverses(from, to, later, earlier) ==
  /\ Same(earlier, Moved(later, to, from))
  /\ to \in DOMAIN later
  /\ \A p \in DOMAIN later : ~IsPrefix(from, p)
  /\ ~ByTheApplication(from)

DirectoryReverses(to, later, earlier) ==
  /\ Same(earlier, Without(later, to))
  /\ to \in DOMAIN later
  /\ \A p \in DOMAIN later : IsPrefix(to, p) => p = to

Reverses(entry, later, earlier) ==
  /\ entry.kind \in {"file", "move", "directory"}
  /\ entry.kind = "file" => FileReverses(entry.to, entry.original, later, earlier)
  /\ entry.kind = "move" => MoveReverses(entry.from, entry.to, later, earlier)
  /\ entry.kind = "directory" => DirectoryReverses(entry.to, later, earlier)
  /\ entry.kind # "file" => entry.original = Nothing

\* Undoing an entry on what covers the later tree leaves what covers the earlier.
LEMMA FileGoesBack ==
  ASSUME NEW tree, NEW later, NEW earlier, NEW to \in Names, NEW original,
         Covers(tree, later), FileReverses(to, original, later, earlier)
  PROVE Covers(IF original # Nothing THEN With(tree, to, original) ELSE Without(tree, to), earlier)
<1>1. CASE original # Nothing
  <2> DEFINE back == With(tree, to, original)
             undone == With(later, to, original)
  <2>1. Named(back)
    BY NamedAfterWith DEF Covers
  <2>2. /\ DOMAIN back = DOMAIN tree \cup {to} /\ back[to] = original
        /\ \A p \in DOMAIN tree : p # to => back[p] = tree[p]
    <3>1. DOMAIN back = DOMAIN tree \cup {to} /\ back[to] = original
      BY DEF With
    <3>2. ASSUME NEW p \in DOMAIN tree, p # to PROVE back[p] = tree[p]
      BY <3>2 DEF With
    <3> QED BY <3>1, <3>2
  <2>3. /\ DOMAIN undone = DOMAIN later \cup {to} /\ undone[to] = original
        /\ \A p \in DOMAIN later : p # to => undone[p] = later[p]
    <3>1. DOMAIN undone = DOMAIN later \cup {to} /\ undone[to] = original
      BY DEF With
    <3>2. ASSUME NEW p \in DOMAIN later, p # to PROVE undone[p] = later[p]
      BY <3>2 DEF With
    <3> QED BY <3>1, <3>2
  <2>4. Same(earlier, undone)
    BY <1>1 DEF FileReverses
  <2> HIDE DEF back, undone
  <2>5. Covers(back, earlier)
    BY <2>1, <2>2, <2>3, <2>4 DEF Covers, Same
  <2> QED BY <1>1, <2>5 DEF back
<1>2. CASE original = Nothing
  <2> DEFINE back == Without(tree, to)
             undone == Without(later, to)
  <2>1. Named(back)
    BY NamedAfterWithout DEF Covers
  <2>2. /\ DOMAIN back = {p \in DOMAIN tree : ~IsPrefix(to, p)}
        /\ \A p \in DOMAIN back : back[p] = tree[p]
    BY WithoutFacts, Zenon
  <2>3. /\ DOMAIN undone = {p \in DOMAIN later : ~IsPrefix(to, p)}
        /\ \A p \in DOMAIN undone : undone[p] = later[p]
    BY WithoutFacts, Zenon
  <2>4. Same(earlier, undone)
    BY <1>2 DEF FileReverses
  <2> HIDE DEF back, undone
  <2>5. Covers(back, earlier)
    BY <2>1, <2>2, <2>3, <2>4 DEF Covers, Same
  <2> QED BY <1>2, <2>5 DEF back
<1> QED BY <1>1, <1>2

LEMMA DirectoryGoesBack ==
  ASSUME NEW tree, NEW later, NEW earlier, NEW to \in Names,
         Covers(tree, later), DirectoryReverses(to, later, earlier)
  PROVE Covers(Without(tree, to), earlier)
<1> DEFINE back == Without(tree, to)
           undone == Without(later, to)
<1>1. Named(back)
  BY NamedAfterWithout DEF Covers
<1>2. /\ DOMAIN back = {p \in DOMAIN tree : ~IsPrefix(to, p)}
      /\ \A p \in DOMAIN back : back[p] = tree[p]
  BY WithoutFacts, Zenon
<1>3. /\ DOMAIN undone = {p \in DOMAIN later : ~IsPrefix(to, p)}
      /\ \A p \in DOMAIN undone : undone[p] = later[p]
  BY WithoutFacts, Zenon
<1>4. Same(earlier, undone)
  BY DEF DirectoryReverses
<1> HIDE DEF back, undone
<1>5. Covers(back, earlier)
  BY <1>1, <1>2, <1>3, <1>4 DEF Covers, Same
<1> QED BY <1>5 DEF back

LEMMA MoveGoesBack ==
  ASSUME NEW tree, NEW later, NEW earlier, NEW from \in Names, NEW to \in Names,
         Covers(tree, later), Named(later), Named(earlier), MoveReverses(from, to, later, earlier)
  PROVE Covers(Moved(tree, to, from), earlier)
<1> DEFINE back == Moved(tree, to, from)
           undone == Moved(later, to, from)
           taken(t, p) == IsPrefix(from, p) /\ Rebase(p, from, to) \in DOMAIN t
<1>1. Named(back)
  BY NamedAfterMove DEF Covers
<1>2. \A p \in Names :
        /\ p \in DOMAIN back <=> taken(tree, p) \/ (p \in DOMAIN tree /\ ~IsPrefix(to, p))
        /\ taken(tree, p) => back[p] = tree[Rebase(p, from, to)]
        /\ ~taken(tree, p) /\ p \in DOMAIN tree /\ ~IsPrefix(to, p) => back[p] = tree[p]
  BY MovedFacts, Zenon DEF Covers
<1>3. \A p \in Names :
        /\ p \in DOMAIN undone <=> taken(later, p) \/ (p \in DOMAIN later /\ ~IsPrefix(to, p))
        /\ taken(later, p) => undone[p] = later[Rebase(p, from, to)]
        /\ ~taken(later, p) /\ p \in DOMAIN later /\ ~IsPrefix(to, p) => undone[p] = later[p]
  BY MovedFacts, Zenon
<1>4. Same(earlier, undone) /\ to \in DOMAIN later /\ \A p \in DOMAIN later : ~IsPrefix(from, p)
  BY DEF MoveReverses
<1>5. ASSUME NEW p \in DOMAIN earlier PROVE p \in DOMAIN back /\ back[p] = earlier[p]
  <2>1. p \in Names /\ p \in DOMAIN undone /\ earlier[p] = undone[p]
    BY <1>4 DEF Named, Same
  <2>2. CASE taken(later, p)
    <3>1. taken(tree, p) /\ tree[Rebase(p, from, to)] = later[Rebase(p, from, to)]
      BY <2>2 DEF Covers
    <3> QED BY <2>1, <2>2, <3>1, <1>2, <1>3, Zenon
  <2>3. CASE ~taken(later, p)
    <3>1. p \in DOMAIN later /\ ~IsPrefix(to, p) /\ undone[p] = later[p]
      BY <2>1, <2>3, <1>3, Zenon
    <3>2. ~IsPrefix(from, p)
      BY <3>1, <1>4
    <3>3. p \in DOMAIN tree /\ tree[p] = later[p]
      BY <3>1 DEF Covers
    <3> QED BY <2>1, <3>1, <3>2, <3>3, <1>2, Zenon
  <2> QED BY <2>2, <2>3
<1>6. ASSUME NEW p \in DOMAIN back, p \notin DOMAIN earlier
      PROVE back[p] \in {AppDir, AppFile} /\ ByTheApplication(p)
  <2>1. p \in Names /\ p \notin DOMAIN undone
    BY <1>1, <1>4, <1>6 DEF Named, Same
  <2>2. CASE taken(tree, p)
    <3> DEFINE q == Rebase(p, from, to)
    <3>1. q \in DOMAIN tree /\ q \notin DOMAIN later /\ back[p] = tree[q]
      BY <2>1, <2>2, <1>2, <1>3
    <3>2. tree[q] \in {AppDir, AppFile} /\ ByTheApplication(q)
      BY <3>1 DEF Covers
    <3>3. p # from
      <4>1. ASSUME p = from PROVE q = to
        <5>1. q \in Names /\ Len(q) = Len(to) + Len(from) - Len(from)
              /\ \A i \in 1..Len(to) : q[i] = to[i]
          <6>1. q \in Names /\ Len(q) = Len(to) + Len(p) - Len(from)
                /\ \A i \in 1..Len(to) : q[i] = to[i]
            BY <2>1, <2>2, RebaseShape, ZenonT(40)
          <6> QED BY <6>1, <4>1
        <5>2. Len(to) \in Nat /\ Len(from) \in Nat
          BY DEF Names
        <5> HIDE DEF q
        <5> QED BY <5>1, <5>2, SeqEqual DEF Names
      <4> QED BY <4>1, <3>1, <1>4
    <3>4. Last(q) = Last(p)
      BY <2>1, <2>2, <3>3, RebaseLast
    <3>5. Len(p) > 0
      <4>1. Len(from) <= Len(p) /\ \A i \in 1..Len(from) : from[i] = p[i]
        BY <2>1, <2>2, PrefixByName
      <4> QED BY <4>1, <3>3, <2>1, SeqEqual DEF Names
    <3> HIDE DEF q
    <3> QED BY <3>1, <3>2, <3>4, <3>5 DEF ByTheApplication
  <2>3. CASE ~taken(tree, p)
    <3>1. p \in DOMAIN tree /\ ~IsPrefix(to, p) /\ back[p] = tree[p]
      BY <2>1, <2>3, <1>2, Zenon
    <3>2. p \notin DOMAIN later
      BY <2>1, <3>1, <1>3, Zenon
    <3> QED BY <3>1, <3>2 DEF Covers
  <2> QED BY <2>2, <2>3
<1> QED BY <1>1, <1>5, <1>6, Zenon DEF Covers

-----------------------------------------------------------------------------
(* What the operations enter in the journal *)

\* The directories a path needs are there.
Reachable(tree, path) ==
  \A q \in Names : q # <<>> /\ IsPrefix(q, path) /\ q # path => q \in DOMAIN tree

\* A file that was saved may be rewritten.
LEMMA SavedMayChange ==
  ASSUME NEW later, NEW earlier, NEW after, NEW to \in Names, NEW original, NEW content,
         FileReverses(to, original, later, earlier), Same(after, With(later, to, content))
  PROVE FileReverses(to, original, after, earlier)
<1>1. /\ DOMAIN after = DOMAIN later \cup {to}
      /\ \A p \in DOMAIN later : p # to => after[p] = later[p]
  BY DEF Same, With
<1>2. CASE original # Nothing
  <2>1. Same(With(after, to, original), With(later, to, original))
    BY <1>1 DEF Same, With
  <2>2. Same(earlier, With(later, to, original))
    BY <1>2 DEF FileReverses
  <2>3. Same(earlier, With(after, to, original))
    BY <2>1, <2>2 DEF Same
  <2> QED BY <1>2, <2>3 DEF FileReverses
<1>3. CASE original = Nothing
  <2>1. IsPrefix(to, to)
    BY PrefixOrder
  <2> DEFINE one == Without(after, to)
             other == Without(later, to)
  <2>2. /\ DOMAIN one = {p \in DOMAIN after : ~IsPrefix(to, p)}
        /\ \A p \in DOMAIN one : one[p] = after[p]
    BY WithoutFacts, Zenon
  <2>3. /\ DOMAIN other = {p \in DOMAIN later : ~IsPrefix(to, p)}
        /\ \A p \in DOMAIN other : other[p] = later[p]
    BY WithoutFacts, Zenon
  <2>4. Same(earlier, other)
    BY <1>3 DEF FileReverses
  <2> HIDE DEF one, other
  <2>5. Same(earlier, one)
    BY <1>1, <2>1, <2>2, <2>3, <2>4 DEF Same
  <2> QED BY <1>3, <2>5 DEF FileReverses, one
<1> QED BY <1>2, <1>3

LEMMA SaveReverses ==
  ASSUME NEW tree, Named(tree), Closed(tree), \A p \in DOMAIN tree : tree[p] # Nothing,
         NEW to \in Names, to # <<>>,
         NEW original, original = IF Exists(tree, to) THEN tree[to] ELSE Nothing
  PROVE FileReverses(to, original, tree, tree)
<1>1. CASE original # Nothing
  <2>1. Same(tree, With(tree, to, original))
    BY <1>1 DEF Same, With, Exists
  <2> QED BY <1>1, <2>1 DEF FileReverses
<1>2. CASE original = Nothing /\ ~Exists(tree, to)
  <2> DEFINE one == Without(tree, to)
  <2>1. /\ DOMAIN one = {p \in DOMAIN tree : ~IsPrefix(to, p)}
        /\ \A p \in DOMAIN one : one[p] = tree[p]
    BY WithoutFacts, Zenon
  <2>2. \A p \in DOMAIN tree : ~IsPrefix(to, p)
    BY <1>2, NothingBelow
  <2> HIDE DEF one
  <2>3. Same(tree, one)
    BY <2>1, <2>2 DEF Same
  <2> QED BY <1>2, <2>3 DEF FileReverses, one
<1>3. original = Nothing => ~Exists(tree, to)
  BY DEF Exists
<1> QED BY <1>1, <1>2, <1>3

LEMMA MakeReverses ==
  ASSUME NEW tree, Named(tree), Closed(tree), NEW to \in Names, to # <<>>, ~Exists(tree, to)
  PROVE DirectoryReverses(to, With(tree, to, Dir), tree)
<1> DEFINE later == With(tree, to, Dir)
           one == Without(later, to)
<1>1. /\ DOMAIN later = DOMAIN tree \cup {to}
      /\ \A p \in DOMAIN tree : p # to => later[p] = tree[p]
  BY DEF With
<1>2. /\ DOMAIN one = {p \in DOMAIN later : ~IsPrefix(to, p)}
      /\ \A p \in DOMAIN one : one[p] = later[p]
  BY WithoutFacts, Zenon
<1>3. (\A p \in DOMAIN tree : ~IsPrefix(to, p)) /\ IsPrefix(to, to)
  BY NothingBelow, PrefixOrder
<1> HIDE DEF one, later
<1>4. Same(tree, one) /\ to \in DOMAIN later /\ \A p \in DOMAIN later : IsPrefix(to, p) => p = to
  BY <1>1, <1>2, <1>3 DEF Same, Exists
<1> QED BY <1>4, Zenon DEF DirectoryReverses, one, later

LEMMA RebasePrefix ==
  ASSUME NEW p \in Names, NEW q \in Names, NEW from \in Names, NEW to \in Names,
         IsPrefix(from, p), IsPrefix(p, q)
  PROVE IsPrefix(Rebase(p, from, to), Rebase(q, from, to))
<1> DEFINE r == Rebase(p, from, to)
           s == Rebase(q, from, to)
<1>1. IsPrefix(from, q)
  BY PrefixOrder
<1>2. /\ Len(from) <= Len(p) /\ Len(p) <= Len(q) /\ \A i \in 1..Len(p) : p[i] = q[i]
      /\ Len(from) \in Nat /\ Len(p) \in Nat /\ Len(q) \in Nat /\ Len(to) \in Nat
  BY PrefixByName DEF Names
<1>3. /\ r \in Names /\ Len(r) = Len(to) + Len(p) - Len(from)
      /\ \A i \in 1..Len(to) : r[i] = to[i]
      /\ \A i \in (Len(to) + 1)..(Len(to) + Len(p) - Len(from)) : r[i] = p[i - Len(to) + Len(from)]
  BY RebaseShape, ZenonT(40)
<1>4. /\ s \in Names /\ Len(s) = Len(to) + Len(q) - Len(from)
      /\ \A i \in 1..Len(to) : s[i] = to[i]
      /\ \A i \in (Len(to) + 1)..(Len(to) + Len(q) - Len(from)) : s[i] = q[i - Len(to) + Len(from)]
  BY <1>1, RebaseShape, ZenonT(40)
<1> HIDE DEF r, s
<1>5. ASSUME NEW i \in 1..Len(r) PROVE r[i] = s[i]
  <2>1. CASE i <= Len(to)
    BY <2>1, <1>2, <1>3, <1>4
  <2>2. CASE i > Len(to)
    <3>1. /\ i \in (Len(to) + 1)..(Len(to) + Len(p) - Len(from))
          /\ i \in (Len(to) + 1)..(Len(to) + Len(q) - Len(from))
          /\ i - Len(to) + Len(from) \in 1..Len(p)
      BY <2>2, <1>2, <1>3
    <3> QED BY <3>1, <1>2, <1>3, <1>4
  <2> QED BY <2>1, <2>2, <1>2, <1>3
<1>6. IsPrefix(r, s)
  BY <1>2, <1>3, <1>4, <1>5, PrefixByName
<1> QED BY <1>6 DEF r, s

\* Moving something to itself is where it goes.
LEMMA RebaseItself ==
  ASSUME NEW from \in Names, NEW to \in Names
  PROVE Rebase(from, from, to) = to
<1> DEFINE q == Rebase(from, from, to)
<1>1. IsPrefix(from, from) /\ Len(from) \in Nat /\ Len(to) \in Nat
  BY PrefixOrder DEF Names
<1>2. q \in Names /\ Len(q) = Len(to) + Len(from) - Len(from) /\ \A i \in 1..Len(to) : q[i] = to[i]
  BY <1>1, RebaseShape, ZenonT(40)
<1> HIDE DEF q
<1>3. q = to
  BY <1>1, <1>2, SeqEqual DEF Names
<1> QED BY <1>3 DEF q

\* A move that may be made: of something, to where nothing is, and not into itself.
Movable(tree, from, to) ==
  /\ from \in Names /\ to \in Names
  /\ to # <<>> /\ from \in DOMAIN tree /\ ~Exists(tree, to)
  /\ ~IsPrefix(from, to)
  /\ ~ByTheApplication(from)

LEMMA MoveDisjoint ==
  ASSUME NEW tree, Named(tree), Closed(tree), NEW from, NEW to, Movable(tree, from, to)
  PROVE /\ \A p \in DOMAIN tree : ~IsPrefix(to, p)
        /\ ~IsPrefix(to, from)
<1>1. \A p \in DOMAIN tree : ~IsPrefix(to, p)
  BY NothingBelow DEF Movable
<1> QED BY <1>1 DEF Movable

LEMMA MakesAMove ==
  ASSUME NEW tree, Named(tree), Closed(tree), NEW from, NEW to, Movable(tree, from, to)
  PROVE MoveReverses(from, to, Moved(tree, from, to), tree)
<1> DEFINE later == Moved(tree, from, to)
           back == Moved(later, to, from)
<1>0. from \in Names /\ to \in Names /\ from \in DOMAIN tree /\ ~IsPrefix(from, to)
  BY DEF Movable
<1>1. Named(later) /\ Named(back)
  <2>1. Named(later)
    BY <1>0, NamedAfterMove
  <2> QED BY <2>1, <1>0, NamedAfterMove
<1>2. \A p \in Names :
        /\ p \in DOMAIN later <=>
             \/ IsPrefix(to, p) /\ Rebase(p, to, from) \in DOMAIN tree
             \/ p \in DOMAIN tree /\ ~IsPrefix(from, p)
        /\ IsPrefix(to, p) /\ Rebase(p, to, from) \in DOMAIN tree =>
             later[p] = tree[Rebase(p, to, from)]
        /\ ~(IsPrefix(to, p) /\ Rebase(p, to, from) \in DOMAIN tree)
             /\ p \in DOMAIN tree /\ ~IsPrefix(from, p) => later[p] = tree[p]
  BY <1>0, MovedFacts, Zenon
<1> HIDE DEF later
<1>3. \A p \in Names :
        /\ p \in DOMAIN back <=>
             \/ IsPrefix(from, p) /\ Rebase(p, from, to) \in DOMAIN later
             \/ p \in DOMAIN later /\ ~IsPrefix(to, p)
        /\ IsPrefix(from, p) /\ Rebase(p, from, to) \in DOMAIN later =>
             back[p] = later[Rebase(p, from, to)]
        /\ ~(IsPrefix(from, p) /\ Rebase(p, from, to) \in DOMAIN later)
             /\ p \in DOMAIN later /\ ~IsPrefix(to, p) => back[p] = later[p]
  BY <1>0, <1>1, MovedFacts, Zenon
<1> HIDE DEF back
<1>4. (\A p \in DOMAIN tree : ~IsPrefix(to, p)) /\ ~IsPrefix(to, from)
  BY MoveDisjoint
<1>5. ASSUME NEW p \in DOMAIN tree PROVE p \in DOMAIN back /\ back[p] = tree[p]
  <2>0. p \in Names
    BY DEF Named
  <2>1. CASE IsPrefix(from, p)
    <3> DEFINE q == Rebase(p, from, to)
    <3>1. q \in Names /\ IsPrefix(to, q) /\ Rebase(q, to, from) = p
      BY <2>0, <2>1, <1>0, RebaseShape, RebaseBack, Zenon
    <3>2. q \in DOMAIN later /\ later[q] = tree[p]
      BY <3>1, <1>2
    <3> QED BY <2>0, <2>1, <3>2, <1>3
  <2>2. CASE ~IsPrefix(from, p)
    BY <2>0, <2>2, <1>2, <1>3, <1>4
  <2> QED BY <2>1, <2>2
<1>6. ASSUME NEW p \in DOMAIN back PROVE p \in DOMAIN tree
  <2>0. p \in Names
    BY <1>1 DEF Named
  <2>1. CASE IsPrefix(from, p) /\ Rebase(p, from, to) \in DOMAIN later
    <3> DEFINE q == Rebase(p, from, to)
    <3>1. q \in Names /\ IsPrefix(to, q) /\ Rebase(q, to, from) = p
      BY <2>0, <2>1, <1>0, RebaseShape, RebaseBack, Zenon
    <3> QED BY <2>1, <3>1, <1>2, <1>4
  <2>2. CASE p \in DOMAIN later /\ ~IsPrefix(to, p)
    BY <2>0, <2>2, <1>2
  <2> QED BY <2>0, <2>1, <2>2, <1>3
<1>7. to \in DOMAIN later
  <2>1. IsPrefix(to, to) /\ Rebase(to, to, from) = from
    BY <1>0, PrefixOrder, RebaseItself, Zenon
  <2> QED BY <2>1, <1>0, <1>2
<1>8. ASSUME NEW p \in DOMAIN later PROVE ~IsPrefix(from, p)
  <2>0. p \in Names
    BY <1>1 DEF Named
  <2>1. CASE IsPrefix(to, p)
    BY <2>0, <2>1, <1>0, <1>4, PrefixOrder
  <2>2. CASE p \in DOMAIN tree /\ ~IsPrefix(from, p)
    BY <2>2
  <2> QED BY <2>0, <2>1, <2>2, <1>2
<1>9. Same(tree, back)
  <2>1. DOMAIN tree = DOMAIN back
    BY <1>5, <1>6
  <2> QED BY <2>1, <1>5 DEF Same
<1> QED BY <1>7, <1>8, <1>9, Zenon DEF MoveReverses, Movable, later, back

\* Directories stay around what is in them.
LEMMA ClosedAfterWith ==
  ASSUME NEW tree, Closed(tree), NEW path \in Names, NEW content, Reachable(tree, path)
  PROVE Closed(With(tree, path, content))
<1>1. DOMAIN With(tree, path, content) = DOMAIN tree \cup {path}
  BY DEF With
<1> QED BY <1>1 DEF Closed, Reachable

LEMMA ClosedAfterMove ==
  ASSUME NEW tree, Named(tree), Closed(tree), NEW from, NEW to, Movable(tree, from, to),
         Reachable(tree, to)
  PROVE Closed(Moved(tree, from, to))
<1> DEFINE later == Moved(tree, from, to)
<1>0. from \in Names /\ to \in Names /\ from \in DOMAIN tree /\ ~IsPrefix(from, to)
      /\ from # <<>>
  <2>1. from \in Names /\ to \in Names /\ from \in DOMAIN tree /\ ~IsPrefix(from, to)
    BY DEF Movable
  <2>2. ASSUME from = <<>> PROVE IsPrefix(from, to)
    <3>1. Len(from) = 0 /\ Len(to) \in Nat /\ Len(from) <= Len(to)
          /\ \A i \in 1..Len(from) : from[i] = to[i]
      BY <2>1, <2>2 DEF Names
    <3> QED BY <2>1, <3>1, PrefixByName
  <2> QED BY <2>1, <2>2
<1>1. Named(later)
  BY <1>0, NamedAfterMove
<1>2. \A p \in Names : p \in DOMAIN later <=>
             \/ IsPrefix(to, p) /\ Rebase(p, to, from) \in DOMAIN tree
             \/ p \in DOMAIN tree /\ ~IsPrefix(from, p)
  BY <1>0, MovedFacts, Zenon
<1> HIDE DEF later
<1>3. ASSUME NEW p \in DOMAIN later, NEW q \in Names, q # <<>>, IsPrefix(q, p)
      PROVE q \in DOMAIN later
  <2>0. p \in Names
    BY <1>1 DEF Named
  <2>1. CASE p \in DOMAIN tree /\ ~IsPrefix(from, p)
    <3>1. q \in DOMAIN tree
      BY <2>1, <1>3 DEF Closed
    <3>2. ~IsPrefix(from, q)
      BY <2>0, <2>1, <1>0, <1>3, PrefixOrder
    <3> QED BY <3>1, <3>2, <1>2
  <2>2. CASE IsPrefix(to, p) /\ Rebase(p, to, from) \in DOMAIN tree
    <3>1. CASE IsPrefix(to, q)
      <4> DEFINE r == Rebase(q, to, from)
      <4>1. r \in Names /\ Len(r) = Len(from) + Len(q) - Len(to) /\ IsPrefix(r, Rebase(p, to, from))
        BY <2>0, <2>2, <3>1, <1>0, <1>3, RebaseShape, RebasePrefix, Zenon
      <4>2. r # <<>>
        <5>1. IsPrefix(from, r)
          BY <3>1, <1>0, RebaseShape, ZenonT(40)
        <5> HIDE DEF r
        <5> QED BY <4>1, <5>1, <1>0, PrefixByName DEF Names
      <4>3. r \in DOMAIN tree
        BY <4>1, <4>2, <2>2 DEF Closed
      <4> QED BY <4>3, <3>1, <1>2
    <3>2. CASE ~IsPrefix(to, q)
      <4>1. IsPrefix(q, to) /\ q # to
        BY <2>0, <2>2, <3>2, <1>0, <1>3, PrefixOrder
      <4>2. q \in DOMAIN tree
        BY <4>1, <1>3 DEF Reachable
      <4>3. ~IsPrefix(from, q)
        BY <4>1, <1>0, PrefixOrder
      <4> QED BY <4>2, <4>3, <1>2
    <3> QED BY <3>1, <3>2
  <2> QED BY <2>0, <2>1, <2>2, <1>2
<1> QED BY <1>3, Zenon DEF Closed, later

-----------------------------------------------------------------------------
(* The journal and the trees it leads back through *)

\* Whatever a file or a snapshot may hold.
Contents ==
  (UNION {Range(tree) : tree \in Trees}) \cup Candidates
    \cup {Dir, Nothing, Damaged, "corpus of the project", "new shortcut"}

Entries ==
  [kind : {"file", "move", "directory"}, from : Names, to : Names \ {<<>>}, original : Contents]

\* What was found is in a tree or in a snapshot taken before it.
Kept(found, entries, k, tree) ==
  \A p \in DOMAIN found :
    \/ \E q \in DOMAIN tree : tree[q] = found[p]
    \/ \E j \in 1..(k - 1) : entries[j].original = found[p]

\* trees[k] is what was there before entry k.
History(found, entries, trees) ==
  /\ Same(trees[1], With(found, Recovery, Dir))
  /\ \A k \in 1..(Len(entries) + 1) : Named(trees[k]) /\ Kept(found, entries, k, trees[k])
  /\ \A k \in 1..Len(entries) : Reverses(entries[k], trees[k + 1], trees[k])

\* A tree the journal leads back from; before the application starts, exactly.
Recorded(found, entries, tree, exact) ==
  /\ entries \in Seq(Entries)
  /\ \E trees :
       /\ History(found, entries, trees)
       /\ Covers(tree, trees[Len(entries) + 1])
       /\ exact => Same(tree, trees[Len(entries) + 1])

LEMMA SameReverses ==
  ASSUME NEW entry, NEW later, NEW earlier, NEW other,
         Reverses(entry, later, earlier), Same(other, earlier)
  PROVE Reverses(entry, later, other)
<1>1. \A tree : Same(earlier, tree) => Same(other, tree)
  BY DEF Same
<1> QED BY <1>1, Zenon DEF Reverses, FileReverses, MoveReverses, DirectoryReverses

\* What was found survives a file that is saved before it changes.
LEMMA KeptInSnapshot ==
  ASSUME NEW found, NEW entries, NEW k \in Nat \ {0}, NEW earlier, NEW later,
         Kept(found, entries, k, earlier), entries[k].kind = "file",
         Reverses(entries[k], later, earlier)
  PROVE Kept(found, entries, k + 1, later)
<1> DEFINE to == entries[k].to
           original == entries[k].original
<1>1. FileReverses(to, original, later, earlier)
  BY DEF Reverses
<1>2. ASSUME NEW q \in DOMAIN earlier
      PROVE earlier[q] = original \/ (q \in DOMAIN later /\ later[q] = earlier[q])
  <2>1. CASE original # Nothing
    BY <1>1, <2>1 DEF FileReverses, Same, With
  <2>2. CASE original = Nothing
    <3> DEFINE one == Without(later, to)
    <3>1. \A p \in DOMAIN one : p \in DOMAIN later /\ one[p] = later[p]
      <4>1. /\ DOMAIN one = {p \in DOMAIN later : ~IsPrefix(to, p)}
            /\ \A p \in DOMAIN one : one[p] = later[p]
        BY WithoutFacts, Zenon
      <4> HIDE DEF one
      <4> QED BY <4>1
    <3>2. Same(earlier, one)
      BY <1>1, <2>2 DEF FileReverses
    <3> HIDE DEF one
    <3> QED BY <3>1, <3>2 DEF Same
  <2> QED BY <2>1, <2>2
<1> HIDE DEF to
<1>3. ASSUME NEW p \in DOMAIN found
      PROVE \/ \E q \in DOMAIN later : later[q] = found[p]
            \/ \E j \in 1..((k + 1) - 1) : entries[j].original = found[p]
  <2>1. CASE \E q \in DOMAIN earlier : earlier[q] = found[p]
    <3>1. k \in 1..((k + 1) - 1)
      OBVIOUS
    <3> QED BY <2>1, <3>1, <1>2
  <2>2. CASE \E j \in 1..(k - 1) : entries[j].original = found[p]
    BY <2>2
  <2> QED BY <2>1, <2>2 DEF Kept
<1> QED BY <1>3 DEF Kept

\* A new entry, for a step from the tree that is recorded exactly.
LEMMA RecordsAStep ==
  ASSUME NEW found, NEW entries, NEW tree, NEW entry \in Entries, NEW next,
         Recorded(found, entries, tree, TRUE), Named(next), Reverses(entry, next, tree),
         \A q \in DOMAIN tree : \E r \in DOMAIN next : next[r] = tree[q]
  PROVE Recorded(found, Append(entries, entry), next, TRUE)
<1>1. PICK trees : /\ History(found, entries, trees)
                   /\ Same(tree, trees[Len(entries) + 1])
  BY DEF Recorded
<1> DEFINE n == Len(entries)
           more == Append(entries, entry)
           now == [k \in 1..(n + 2) |-> IF k = n + 2 THEN next ELSE trees[k]]
<1>2. /\ n \in Nat /\ more \in Seq(Entries) /\ Len(more) = n + 1
      /\ \A k \in 1..n : more[k] = entries[k]
      /\ more[n + 1] = entry
  BY AppendProperties DEF Recorded
<1>3. now[n + 2] = next /\ \A k \in 1..(n + 1) : now[k] = trees[k]
  BY <1>2
<1> HIDE DEF n, more, now
<1>4. /\ Same(trees[1], With(found, Recovery, Dir))
      /\ \A k \in 1..(n + 1) : Named(trees[k]) /\ Kept(found, entries, k, trees[k])
      /\ \A k \in 1..n : Reverses(entries[k], trees[k + 1], trees[k])
      /\ Same(tree, trees[n + 1])
  BY <1>1 DEF History, n
<1>5. Same(now[1], With(found, Recovery, Dir))
  BY <1>2, <1>3, <1>4
<1>6. ASSUME NEW k \in 1..(n + 2) PROVE Named(now[k])
  <2>1. CASE k = n + 2
    BY <2>1, <1>3
  <2>2. CASE k \in 1..(n + 1)
    BY <2>2, <1>3, <1>4
  <2> QED BY <2>1, <2>2, <1>2
<1>7. ASSUME NEW k \in 1..(n + 1) PROVE Kept(found, more, k, trees[k])
  <2>1. \A j \in 1..(k - 1) : more[j] = entries[j]
    BY <1>2
  <2>2. Kept(found, entries, k, trees[k])
    BY <1>4
  <2> QED BY <2>1, <2>2 DEF Kept
<1>8. Kept(found, more, n + 2, next)
  <2>1. Kept(found, more, n + 1, trees[n + 1])
    BY <1>2, <1>7
  <2>2. \A q \in DOMAIN trees[n + 1] : \E r \in DOMAIN next : next[r] = trees[n + 1][q]
    BY <1>4 DEF Same
  <2>3. ASSUME NEW j \in 1..((n + 1) - 1) PROVE j \in 1..((n + 2) - 1)
    BY <1>2
  <2> QED BY <2>1, <2>2, <2>3 DEF Kept
<1>9. ASSUME NEW k \in 1..(n + 2) PROVE Kept(found, more, k, now[k])
  <2>1. CASE k = n + 2
    BY <2>1, <1>3, <1>8
  <2>2. CASE k \in 1..(n + 1)
    BY <2>2, <1>3, <1>7
  <2> QED BY <2>1, <2>2, <1>2
<1>10. ASSUME NEW k \in 1..(n + 1) PROVE Reverses(more[k], now[k + 1], now[k])
  <2>1. CASE k = n + 1
    <3>1. Same(trees[n + 1], tree)
      BY <1>4 DEF Same
    <3>2. Reverses(entry, next, trees[n + 1])
      BY <3>1, SameReverses, Zenon
    <3>3. more[k] = entry /\ now[k + 1] = next /\ now[k] = trees[n + 1]
      BY <2>1, <1>2, <1>3
    <3> QED BY <3>2, <3>3
  <2>2. CASE k \in 1..n
    <3>1. more[k] = entries[k] /\ now[k + 1] = trees[k + 1] /\ now[k] = trees[k]
      BY <2>2, <1>2, <1>3
    <3> QED BY <2>2, <3>1, <1>4
  <2> QED BY <2>1, <2>2, <1>2
<1>11. n + 2 = Len(more) + 1
  BY <1>2
<1>12. History(found, more, now)
  BY <1>2, <1>5, <1>6, <1>9, <1>10, <1>11 DEF History
<1>13. Covers(next, next) /\ Same(next, next)
  BY DEF Covers, Same
<1>14. Covers(next, now[Len(more) + 1]) /\ Same(next, now[Len(more) + 1])
  BY <1>3, <1>11, <1>13
<1> QED BY <1>2, <1>12, <1>14 DEF Recorded, more

\* The file that was saved last may be rewritten.
LEMMA RecordsACopy ==
  ASSUME NEW found, NEW entries, NEW tree, NEW to \in Names, NEW content,
         Recorded(found, entries, tree, TRUE), entries # <<>>,
         entries[Len(entries)].kind = "file", entries[Len(entries)].to = to
  PROVE Recorded(found, entries, With(tree, to, content), TRUE)
<1>1. PICK trees : /\ History(found, entries, trees)
                   /\ Same(tree, trees[Len(entries) + 1])
  BY DEF Recorded
<1> DEFINE n == Len(entries)
           next == With(tree, to, content)
           now == [k \in 1..(n + 1) |-> IF k = n + 1 THEN next ELSE trees[k]]
<1>2. n \in Nat \ {0} /\ entries \in Seq(Entries)
  BY DEF Recorded
<1>3. now[n + 1] = next /\ \A k \in 1..n : now[k] = trees[k]
  BY <1>2
<1> HIDE DEF n, now
<1>4. /\ Same(trees[1], With(found, Recovery, Dir))
      /\ \A k \in 1..(n + 1) : Named(trees[k]) /\ Kept(found, entries, k, trees[k])
      /\ \A k \in 1..n : Reverses(entries[k], trees[k + 1], trees[k])
      /\ Same(tree, trees[n + 1])
  BY <1>1 DEF History, n
<1>5. Named(next)
  <2>1. Named(trees[n + 1])
    BY <1>2, <1>4
  <2>2. Named(tree)
    BY <2>1, <1>4 DEF Named, Same
  <2> QED BY <2>2, NamedAfterWith
<1>6. Reverses(entries[n], next, trees[n])
  <2> DEFINE original == entries[n].original
  <2>1. FileReverses(to, original, trees[n + 1], trees[n])
    BY <1>2, <1>4 DEF Reverses, n
  <2>2. Same(next, With(trees[n + 1], to, content))
    BY <1>4 DEF Same, With
  <2> HIDE DEF next
  <2>3. FileReverses(to, original, next, trees[n])
    BY <2>1, <2>2, SavedMayChange
  <2> QED BY <2>3 DEF Reverses, n
<1> HIDE DEF next
<1>7. Kept(found, entries, n + 1, next)
  BY <1>2, <1>4, <1>6, KeptInSnapshot DEF n
<1>8. ASSUME NEW k \in 1..(n + 1) PROVE Named(now[k]) /\ Kept(found, entries, k, now[k])
  <2>1. CASE k = n + 1
    BY <2>1, <1>3, <1>5, <1>7
  <2>2. CASE k \in 1..n
    BY <2>2, <1>2, <1>3, <1>4
  <2> QED BY <2>1, <2>2, <1>2
<1>9. ASSUME NEW k \in 1..n PROVE Reverses(entries[k], now[k + 1], now[k])
  <2>1. CASE k = n
    BY <2>1, <1>3, <1>6
  <2>2. CASE k \in 1..(n - 1)
    <3>1. now[k + 1] = trees[k + 1] /\ now[k] = trees[k]
      BY <2>2, <1>2, <1>3
    <3> QED BY <3>1, <1>4
  <2> QED BY <2>1, <2>2, <1>2
<1>10. Same(now[1], With(found, Recovery, Dir))
  BY <1>2, <1>3, <1>4
<1>11. History(found, entries, now)
  BY <1>8, <1>9, <1>10 DEF History, n
<1>12. Covers(next, now[n + 1]) /\ Same(next, now[n + 1])
  BY <1>3, <1>5 DEF Covers, Same
<1> QED BY <1>2, <1>11, <1>12 DEF Recorded, n, next

\* What the application leaves is on top of what is recorded.
LEMMA RecordsWhatIsLeft ==
  ASSUME NEW found, NEW entries, NEW tree, NEW next,
         Recorded(found, entries, tree, TRUE), Covers(next, tree)
  PROVE Recorded(found, entries, next, FALSE)
<1>1. PICK trees : /\ History(found, entries, trees)
                   /\ Same(tree, trees[Len(entries) + 1])
  BY DEF Recorded
<1>2. Covers(next, trees[Len(entries) + 1])
  BY <1>1 DEF Covers, Same
<1> QED BY <1>1, <1>2 DEF Recorded

\* An undone entry.
LEMMA RecordsAnUndo ==
  ASSUME NEW found, NEW entries, NEW tree, NEW next,
         Recorded(found, entries, tree, FALSE), entries # <<>>,
         \A later, earlier :
           /\ Named(later) /\ Named(earlier)
           /\ Reverses(entries[Len(entries)], later, earlier) /\ Covers(tree, later)
           => Covers(next, earlier)
  PROVE Recorded(found, Front(entries), next, FALSE)
<1>1. PICK trees : /\ History(found, entries, trees)
                   /\ Covers(tree, trees[Len(entries) + 1])
  BY DEF Recorded
<1> DEFINE n == Len(entries)
           less == Front(entries)
<1>2. n \in Nat \ {0} /\ entries \in Seq(Entries)
  BY DEF Recorded
<1>3. /\ less \in Seq(Entries) /\ Len(less) = n - 1
      /\ \A k \in 1..(n - 1) : less[k] = entries[k]
  <2>1. /\ less = SubSeq(entries, 1, n - 1) /\ n - 1 <= n /\ n - 1 \in Nat /\ 1 \in Nat
    BY <1>2 DEF Front
  <2>2. \A i \in 1..(n - 1) : entries[i] \in Entries
    BY <1>2 DEF n
  <2> DEFINE part == SubSeq(entries, 1, n - 1)
  <2>3. /\ part \in Seq(Entries)
        /\ Len(part) = IF 1 <= n - 1 THEN (n - 1) - 1 + 1 ELSE 0
        /\ \A i \in 1..((n - 1) - 1 + 1) : part[i] = entries[1 + i - 1]
    BY <2>2, <1>2, SubSeqProperties
  <2>4. less = part
    BY <2>1
  <2> HIDE DEF part, less
  <2> QED BY <2>3, <2>4, <1>2
<1> HIDE DEF n, less
<1>4. /\ Same(trees[1], With(found, Recovery, Dir))
      /\ \A k \in 1..(n + 1) : Named(trees[k]) /\ Kept(found, entries, k, trees[k])
      /\ \A k \in 1..n : Reverses(entries[k], trees[k + 1], trees[k])
      /\ Covers(tree, trees[n + 1])
  BY <1>1 DEF History, n
<1>5. Covers(next, trees[n])
  <2>1. Named(trees[n]) /\ Named(trees[n + 1]) /\ Reverses(entries[n], trees[n + 1], trees[n])
    BY <1>2, <1>4
  <2> QED BY <2>1, <1>4 DEF n
<1>6. ASSUME NEW k \in 1..n PROVE Kept(found, less, k, trees[k])
  <2>1. \A j \in 1..(k - 1) : less[j] = entries[j]
    BY <1>2, <1>3
  <2>2. Kept(found, entries, k, trees[k])
    BY <1>2, <1>4
  <2> QED BY <2>1, <2>2 DEF Kept
<1>7. n = Len(less) + 1
  BY <1>2, <1>3
<1>8. ASSUME NEW k \in 1..Len(less) PROVE Reverses(less[k], trees[k + 1], trees[k])
  BY <1>2, <1>3, <1>4
<1>9. History(found, less, trees)
  BY <1>2, <1>4, <1>6, <1>7, <1>8 DEF History
<1> QED BY <1>3, <1>5, <1>7, <1>9 DEF Recorded, less

-----------------------------------------------------------------------------
(* What was found *)

LEMMA FoundIsClosed ==
  ASSUME NEW found, FileSystem(found)
  PROVE /\ Named(found) /\ Closed(found)
        /\ \A p \in DOMAIN found : found[p] \notin {AppDir, AppFile, Nothing} /\ p # <<>>
        /\ Recovery \notin DOMAIN found
<1>1. Named(found) /\ \A p \in DOMAIN found : found[p] \notin {AppDir, AppFile, Nothing} /\ p # <<>>
  <2>1. \A p \in DOMAIN found : found[p] \notin {AppDir, AppFile, Nothing} /\ p # <<>> /\ p \in Seq(STRING)
    BY DEF FileSystem, Paths
  <2>2. \A p \in Seq(STRING) : p \in Names
    BY SeqMonotonic DEF Names, Name
  <2> QED BY <2>1, <2>2 DEF Named
<1>2. ASSUME NEW p \in DOMAIN found, NEW q \in Names, q # <<>>, IsPrefix(q, p)
      PROVE q \in DOMAIN found
  <2>1. p \in Names /\ DOMAIN p = 1..Len(p)
    BY <1>1 DEF Named, Names
  <2>2. Len(q) \in 1..Len(p) /\ q = SubSeq(p, 1, Len(q))
    BY <2>1, <1>2, PrefixIsInitial
  <2>3. \A i \in DOMAIN p : SubSeq(p, 1, i) \in DOMAIN found
    BY DEF FileSystem, Exists
  <2> QED BY <2>1, <2>2, <2>3
<1>3. Recovery \notin DOMAIN found
  BY DEF FileSystem, Exists
<1> QED BY <1>1, <1>2, <1>3 DEF Closed

LEMMA RecoveryIsAPath == Recovery \in Names /\ Recovery # <<>>
<1>1. Recovery \in Names /\ Len(Recovery) = 1
  BY DEF Recovery, Names, Name
<1> QED BY <1>1 DEF Names

\* With nothing left to undo, what was found is back.
LEMMA NothingLeftToUndo ==
  ASSUME NEW found, FileSystem(found), NEW tree, Recorded(found, <<>>, tree, FALSE)
  PROVE Own(tree) = found
<1>1. PICK trees : /\ History(found, <<>>, trees)
                   /\ Covers(tree, trees[Len(<<>>) + 1])
  BY DEF Recorded
<1> DEFINE first == With(found, Recovery, Dir)
<1>2. Covers(tree, trees[1]) /\ Same(trees[1], first)
  BY <1>1 DEF History
<1>3. /\ DOMAIN first = DOMAIN found \cup {Recovery}
      /\ \A p \in DOMAIN found : p # Recovery => first[p] = found[p]
  BY DEF With
<1> HIDE DEF first
<1>4. /\ Named(found) /\ Closed(found)
      /\ \A p \in DOMAIN found : found[p] \notin {AppDir, AppFile, Nothing} /\ p # <<>>
      /\ Recovery \notin DOMAIN found
  BY FoundIsClosed
<1>5. \A p \in DOMAIN found : ~IsPrefix(Recovery, p)
  BY <1>4, RecoveryIsAPath, NothingBelow DEF Exists
<1>6. IsPrefix(Recovery, Recovery)
  BY RecoveryIsAPath, PrefixOrder
<1> DEFINE rest == Without(tree, Recovery)
           own == {p \in DOMAIN rest : rest[p] \notin {AppDir, AppFile}}
<1>7. /\ DOMAIN rest = {p \in DOMAIN tree : ~IsPrefix(Recovery, p)}
      /\ \A p \in DOMAIN rest : rest[p] = tree[p]
  BY WithoutFacts, Zenon
<1>8. Own(tree) = [p \in own |-> rest[p]]
  BY DEF Own, Restrict
<1> HIDE DEF rest
<1>9. own = DOMAIN found
  <2>1. ASSUME NEW p \in own PROVE p \in DOMAIN found
    <3>1. p \in DOMAIN tree /\ ~IsPrefix(Recovery, p) /\ tree[p] \notin {AppDir, AppFile}
      BY <1>7
    <3>2. p \in DOMAIN trees[1]
      BY <3>1, <1>2 DEF Covers
    <3> QED BY <3>1, <3>2, <1>2, <1>3, <1>6 DEF Same
  <2>2. ASSUME NEW p \in DOMAIN found PROVE p \in own
    <3>1. p \in DOMAIN trees[1] /\ trees[1][p] = found[p]
      BY <1>2, <1>3, <1>4 DEF Same
    <3>2. p \in DOMAIN tree /\ tree[p] = found[p]
      BY <3>1, <1>2 DEF Covers
    <3> QED BY <3>2, <1>4, <1>5, <1>7
  <2> QED BY <2>1, <2>2
<1>10. ASSUME NEW p \in DOMAIN found PROVE rest[p] = found[p]
  BY <1>2, <1>3, <1>4, <1>5, <1>7 DEF Covers, Same
<1> HIDE DEF own
<1>11. Own(tree) = [p \in DOMAIN found |-> found[p]]
  BY <1>8, <1>9, <1>10
<1>12. found = [p \in DOMAIN found |-> found[p]]
  BY DEF FileSystem
<1> QED BY <1>11, <1>12

Snapshots(entries) == {entries[i].original : i \in DOMAIN entries}

\* What was found is in the tree or in a snapshot.
LEMMA RecordedIsKept ==
  ASSUME NEW found, NEW entries, NEW tree, Recorded(found, entries, tree, FALSE), NEW p \in DOMAIN found
  PROVE found[p] \in Range(tree) \cup Snapshots(entries)
<1>1. PICK trees : /\ History(found, entries, trees)
                   /\ Covers(tree, trees[Len(entries) + 1])
  BY DEF Recorded
<1>2. Len(entries) \in Nat /\ DOMAIN entries = 1..Len(entries)
  BY DEF Recorded
<1>3. Kept(found, entries, Len(entries) + 1, trees[Len(entries) + 1])
  BY <1>1, <1>2 DEF History
<1> USE DEF Snapshots
<1>4. CASE \E q \in DOMAIN trees[Len(entries) + 1] : trees[Len(entries) + 1][q] = found[p]
  BY <1>1, <1>4 DEF Covers, Range
<1>5. CASE \E j \in 1..((Len(entries) + 1) - 1) : entries[j].original = found[p]
  BY <1>2, <1>5
<1> QED BY <1>3, <1>4, <1>5 DEF Kept

\* Also when restoring the last file stopped halfway.
LEMMA HalfRestoredIsKept ==
  ASSUME NEW found, NEW entries, NEW tree, Recorded(found, entries, tree, FALSE), NEW p \in DOMAIN found,
         entries # <<>>, entries[Len(entries)].kind = "file", NEW content
  PROVE found[p] \in Range(With(tree, entries[Len(entries)].to, content)) \cup Snapshots(entries)
<1> USE DEF Snapshots
<1> DEFINE n == Len(entries)
           to == entries[n].to
           original == entries[n].original
           half == With(tree, to, content)
<1>1. PICK trees : /\ History(found, entries, trees)
                   /\ Covers(tree, trees[n + 1])
  BY DEF Recorded
<1>2. n \in Nat \ {0} /\ DOMAIN entries = 1..n
  BY DEF Recorded
<1> HIDE DEF n
<1>3. Kept(found, entries, n, trees[n]) /\ Reverses(entries[n], trees[n + 1], trees[n])
  BY <1>1, <1>2 DEF History, n
<1>4. FileReverses(to, original, trees[n + 1], trees[n])
  BY <1>3 DEF Reverses, n
<1>5. /\ DOMAIN half = DOMAIN tree \cup {to}
      /\ \A q \in DOMAIN tree : q # to => half[q] = tree[q]
  BY DEF With
<1> HIDE DEF half
<1>6. ASSUME NEW q \in DOMAIN trees[n], trees[n][q] # original
      PROVE q \in DOMAIN half /\ half[q] = trees[n][q]
  <2>1. CASE original # Nothing
    <3>1. q # to /\ q \in DOMAIN trees[n + 1] /\ trees[n + 1][q] = trees[n][q]
      BY <1>4, <1>6, <2>1 DEF FileReverses, Same, With
    <3> QED BY <3>1, <1>1, <1>5 DEF Covers
  <2>2. CASE original = Nothing
    <3> DEFINE one == Without(trees[n + 1], to)
    <3>1. /\ DOMAIN one = {r \in DOMAIN trees[n + 1] : ~IsPrefix(to, r)}
          /\ \A r \in DOMAIN one : one[r] = trees[n + 1][r]
      BY WithoutFacts, Zenon
    <3>2. Same(trees[n], one)
      BY <1>4, <2>2 DEF FileReverses
    <3> HIDE DEF one
    <3>3. q \in DOMAIN trees[n + 1] /\ ~IsPrefix(to, q) /\ trees[n + 1][q] = trees[n][q]
      BY <3>1, <3>2 DEF Same
    <3>4. q # to
      <4>1. to \in Names
        <5>1. entries \in Seq(Entries) /\ n \in 1..Len(entries)
          BY <1>2 DEF Recorded, n
        <5>2. entries[n] \in Entries
          BY <5>1
        <5> QED BY <5>2 DEF Entries
      <4> QED BY <4>1, <3>3, PrefixOrder
    <3> QED BY <3>3, <3>4, <1>1, <1>5 DEF Covers
  <2> QED BY <2>1, <2>2
<1>7. CASE \E q \in DOMAIN trees[n] : trees[n][q] = found[p]
  <2>1. PICK q \in DOMAIN trees[n] : trees[n][q] = found[p]
    BY <1>7
  <2> DEFINE kept == Range(half) \cup {entries[i].original : i \in DOMAIN entries}
  <2>2. ASSUME trees[n][q] = original PROVE found[p] \in kept
    <3>1. n \in DOMAIN entries /\ entries[n].original = found[p]
      BY <2>1, <2>2, <1>2
    <3> QED BY <3>1
  <2>3. ASSUME trees[n][q] # original PROVE found[p] \in kept
    <3>1. q \in DOMAIN half /\ half[q] = found[p]
      BY <2>1, <2>3, <1>6
    <3> QED BY <3>1 DEF Range
  <2>4. found[p] \in kept
    BY <2>2, <2>3
  <2> QED BY <2>4 DEF half, n
<1>8. CASE \E j \in 1..(n - 1) : entries[j].original = found[p]
  BY <1>2, <1>8
<1> QED BY <1>3, <1>7, <1>8 DEF Kept

-----------------------------------------------------------------------------
(* The places of the installer *)

\* A path of some names.
Path1(p, a) == p \in Names /\ Len(p) = 1 /\ p[1] = a
Path2(p, a, b) == p \in Names /\ Len(p) = 2 /\ p[1] = a /\ p[2] = b
Path3(p, a, b, c) == p \in Names /\ Len(p) = 3 /\ p[1] = a /\ p[2] = b /\ p[3] = c
Path4(p, a, b, c, d) ==
  p \in Names /\ Len(p) = 4 /\ p[1] = a /\ p[2] = b /\ p[3] = c /\ p[4] = d

\* One path after another.
LEMMA JoinedPaths ==
  ASSUME NEW p \in Names, NEW q \in Names
  PROVE /\ p \o q \in Names
        /\ Len(p \o q) = Len(p) + Len(q)
        /\ \A i \in 1..Len(p) : (p \o q)[i] = p[i]
        /\ \A i \in 1..Len(q) : (p \o q)[Len(p) + i] = q[i]
  BY DEF Names

LEMMA Into ==
  ASSUME NEW p \in Names, NEW a \in Name
  PROVE /\ p \o <<a>> \in Names
        /\ Len(p \o <<a>>) = Len(p) + 1
        /\ \A i \in 1..Len(p) : (p \o <<a>>)[i] = p[i]
        /\ (p \o <<a>>)[Len(p) + 1] = a
  BY DEF Names

LEMMA Singles ==
  ASSUME NEW a \in Name, NEW b \in Name
  PROVE Path1(<<a>>, a) /\ Path2(<<a, b>>, a, b)
  BY DEF Path1, Path2, Names

LEMMA IntoOne ==
  ASSUME NEW p, NEW a, NEW b \in Name, Path1(p, a)
  PROVE Path2(p \o <<b>>, a, b)
<1>1. p \in Names /\ Len(p) = 1 /\ p[1] = a
  BY DEF Path1
<1> DEFINE q == p \o <<b>>
<1>2. /\ q \in Names /\ Len(q) = Len(p) + 1 /\ q[Len(p) + 1] = b
      /\ \A i \in 1..Len(p) : q[i] = p[i]
  BY <1>1, Into, Zenon
<1> HIDE DEF q
<1>3. Path2(q, a, b)
  BY <1>1, <1>2 DEF Path2
<1> QED BY <1>3 DEF q

LEMMA IntoTwo ==
  ASSUME NEW p, NEW a, NEW b, NEW c \in Name, Path2(p, a, b)
  PROVE Path3(p \o <<c>>, a, b, c)
<1>1. p \in Names /\ Len(p) = 2 /\ p[1] = a /\ p[2] = b
  BY DEF Path2
<1> DEFINE q == p \o <<c>>
<1>2. /\ q \in Names /\ Len(q) = Len(p) + 1 /\ q[Len(p) + 1] = c
      /\ \A i \in 1..Len(p) : q[i] = p[i]
  BY <1>1, Into, Zenon
<1> HIDE DEF q
<1>3. Path3(q, a, b, c)
  BY <1>1, <1>2 DEF Path3
<1> QED BY <1>3 DEF q

LEMMA IntoThree ==
  ASSUME NEW p, NEW a, NEW b, NEW c, NEW d \in Name, Path3(p, a, b, c)
  PROVE Path4(p \o <<d>>, a, b, c, d)
<1>1. p \in Names /\ Len(p) = 3 /\ p[1] = a /\ p[2] = b /\ p[3] = c
  BY DEF Path3
<1> DEFINE q == p \o <<d>>
<1>2. /\ q \in Names /\ Len(q) = Len(p) + 1 /\ q[Len(p) + 1] = d
      /\ \A i \in 1..Len(p) : q[i] = p[i]
  BY <1>1, Into, Zenon
<1> HIDE DEF q
<1>3. Path4(q, a, b, c, d)
  BY <1>1, <1>2 DEF Path4
<1> QED BY <1>3 DEF q

LEMMA IntoTwoByTwo ==
  ASSUME NEW p, NEW a, NEW b, NEW c \in Name, NEW d \in Name, Path2(p, a, b)
  PROVE Path4(p \o <<c, d>>, a, b, c, d)
<1>1. p \in Names /\ Len(p) = 2 /\ p[1] = a /\ p[2] = b
  BY DEF Path2
<1> DEFINE r == <<c, d>>
           q == p \o r
<1>2. r \in Names /\ Len(r) = 2 /\ r[1] = c /\ r[2] = d
  BY Singles DEF Path2
<1> HIDE DEF r
<1>3. /\ q \in Names /\ Len(q) = Len(p) + Len(r)
      /\ \A i \in 1..Len(p) : q[i] = p[i]
      /\ \A i \in 1..Len(r) : q[Len(p) + i] = r[i]
  BY <1>1, <1>2, JoinedPaths, Zenon
<1> HIDE DEF q
<1>4. Path4(q, a, b, c, d)
  BY <1>1, <1>2, <1>3 DEF Path4
<1> QED BY <1>4 DEF q, r

LegacyBackup == Recovery \o <<"legacy-backup.exe">>
OldLink == Install \o <<"legacy-shortcut.lnk">>
Corpora == Install \o <<"corpora">>

LEMMA Places ==
  /\ Path2(Install, "TajemnikTV", "TajsAnagrams")
  /\ Path2(Legacy, "TajemnikTV", "AnagramSolver")
  /\ Path1(OldProfile, "tv.tajemnik.anagramsolver")
  /\ Path2(Link, "Programs", "TajsAnagrams.lnk")
  /\ Path2(LegacyLink, "Programs", "AnagramSolver.lnk")
  /\ Path1(Recovery, "desktop-install")
  BY Singles DEF Install, Legacy, OldProfile, Link, LegacyLink, Recovery, Name

LEMMA InnerPlaces ==
  /\ Path2(OldCorpora, "tv.tajemnik.anagramsolver", "corpora")
  /\ Path3(UserData, "TajemnikTV", "TajsAnagrams", "user-data")
  /\ Path4(Settings, "TajemnikTV", "TajsAnagrams", "user-data", "settings.json")
  /\ Path4(WebView, "TajemnikTV", "TajsAnagrams", "user-data", "EBWebView")
  /\ Path3(Exe, "TajemnikTV", "TajsAnagrams", "TajsAnagrams.exe")
  /\ Path3(OldExe, "TajemnikTV", "TajsAnagrams", "AnagramSolver.exe")
  /\ Path4(Backup, "TajemnikTV", "TajsAnagrams", "backup", "TajsAnagrams.exe")
  /\ Path4(OldBackup, "TajemnikTV", "TajsAnagrams", "backup", "AnagramSolver.exe")
  /\ Path2(LegacyBackup, "desktop-install", "legacy-backup.exe")
  /\ Path3(OldLink, "TajemnikTV", "TajsAnagrams", "legacy-shortcut.lnk")
  /\ Path3(Corpora, "TajemnikTV", "TajsAnagrams", "corpora")
<1>1. {"corpora", "user-data", "settings.json", "EBWebView", "TajsAnagrams.exe", "AnagramSolver.exe",
       "backup", "legacy-shortcut.lnk", "legacy-backup.exe"} \subseteq Name
  BY DEF Name
<1>2. Path2(OldCorpora, "tv.tajemnik.anagramsolver", "corpora")
  BY <1>1, Places, IntoOne DEF OldCorpora
<1>3. Path3(UserData, "TajemnikTV", "TajsAnagrams", "user-data")
  BY <1>1, Places, IntoTwo DEF UserData
<1>4. Path4(Settings, "TajemnikTV", "TajsAnagrams", "user-data", "settings.json")
  BY <1>1, <1>3, IntoThree DEF Settings
<1>5. Path4(WebView, "TajemnikTV", "TajsAnagrams", "user-data", "EBWebView")
  BY <1>1, <1>3, IntoThree DEF WebView
<1>6. Path3(Exe, "TajemnikTV", "TajsAnagrams", "TajsAnagrams.exe")
  BY <1>1, Places, IntoTwo DEF Exe
<1>7. Path3(OldExe, "TajemnikTV", "TajsAnagrams", "AnagramSolver.exe")
  BY <1>1, Places, IntoTwo DEF OldExe
<1>8. Path4(Backup, "TajemnikTV", "TajsAnagrams", "backup", "TajsAnagrams.exe")
  BY <1>1, Places, IntoTwoByTwo DEF Backup
<1>9. Path4(OldBackup, "TajemnikTV", "TajsAnagrams", "backup", "AnagramSolver.exe")
  BY <1>1, Places, IntoTwoByTwo DEF OldBackup
<1>10. Path2(LegacyBackup, "desktop-install", "legacy-backup.exe")
  BY <1>1, Places, IntoOne DEF LegacyBackup
<1>11. Path3(OldLink, "TajemnikTV", "TajsAnagrams", "legacy-shortcut.lnk")
  BY <1>1, Places, IntoTwo DEF OldLink
<1>12. Path3(Corpora, "TajemnikTV", "TajsAnagrams", "corpora")
  BY <1>1, Places, IntoTwo DEF Corpora
<1> QED BY <1>2, <1>3, <1>4, <1>5, <1>6, <1>7, <1>8, <1>9, <1>10, <1>11, <1>12

\* Where a corpus file of the project goes.
LEMMA CorpusPlaces ==
  ASSUME NEW i \in DOMAIN CorpusFiles
  PROVE /\ Corpora \o CorpusFiles[i] \in Names
        /\ Len(Corpora \o CorpusFiles[i]) > 3
        /\ (Corpora \o CorpusFiles[i])[3] = "corpora"
<1>1. CorpusFiles[i] \in Seq(STRING) /\ CorpusFiles[i] # <<>>
  BY InstallationAssumption DEF Paths
<1>2. CorpusFiles[i] \in Names /\ Len(CorpusFiles[i]) > 0
  BY <1>1, SeqMonotonic DEF Names, Name
<1>3. Corpora \in Names /\ Len(Corpora) = 3 /\ Corpora[3] = "corpora"
  BY InnerPlaces DEF Path3
<1> DEFINE q == Corpora \o CorpusFiles[i]
<1>4. /\ q \in Names /\ Len(q) = Len(Corpora) + Len(CorpusFiles[i])
      /\ \A j \in 1..Len(Corpora) : q[j] = Corpora[j]
  BY <1>2, <1>3, JoinedPaths
<1> HIDE DEF q
<1>5. q \in Names /\ Len(q) > 3 /\ q[3] = "corpora"
  BY <1>2, <1>3, <1>4 DEF Names
<1> QED BY <1>5 DEF q

\* The installer's moves go from one place to another, and never take along what a
\* later one is after.
MoveMade(from, to, at) ==
  /\ from \in Names /\ to \in Names /\ to # <<>>
  /\ ~IsPrefix(from, to)
  /\ ~ByTheApplication(from)
  /\ at <= 5 => ~IsPrefix(from, OldProfile)
  /\ at <= 4 => ~IsPrefix(from, OldCorpora)

LEMMA Apart ==
  ASSUME NEW p \in Names, NEW q \in Names, NEW i \in 1..Len(p), Len(q) < Len(p) \/ p[i] # q[i]
  PROVE ~IsPrefix(p, q)
<1>1. Len(p) \in Nat /\ Len(q) \in Nat
  BY DEF Names
<1> QED BY <1>1, PrefixByName

LEMMA MovesMade ==
  /\ MoveMade(Legacy, Install, 2)
  /\ MoveMade(OldExe, Exe, 3)
  /\ MoveMade(LegacyLink, OldLink, 4)
  /\ MoveMade(OldCorpora, Corpora, 5)
  /\ MoveMade(OldProfile, UserData, 6)
  /\ \A at \in Nat : at > 5 => MoveMade(OldBackup, LegacyBackup, at)
<1>1. /\ Path2(Install, "TajemnikTV", "TajsAnagrams")
      /\ Path2(Legacy, "TajemnikTV", "AnagramSolver")
      /\ Path1(OldProfile, "tv.tajemnik.anagramsolver")
      /\ Path2(LegacyLink, "Programs", "AnagramSolver.lnk")
      /\ Path2(OldCorpora, "tv.tajemnik.anagramsolver", "corpora")
      /\ Path3(UserData, "TajemnikTV", "TajsAnagrams", "user-data")
      /\ Path3(Exe, "TajemnikTV", "TajsAnagrams", "TajsAnagrams.exe")
      /\ Path3(OldExe, "TajemnikTV", "TajsAnagrams", "AnagramSolver.exe")
      /\ Path4(OldBackup, "TajemnikTV", "TajsAnagrams", "backup", "AnagramSolver.exe")
      /\ Path2(LegacyBackup, "desktop-install", "legacy-backup.exe")
      /\ Path3(OldLink, "TajemnikTV", "TajsAnagrams", "legacy-shortcut.lnk")
      /\ Path3(Corpora, "TajemnikTV", "TajsAnagrams", "corpora")
  BY Places, InnerPlaces
<1>2. \A p \in Names : Len(p) > 0 => p # <<>>
  BY DEF Names
<1>3. \A p \in Names, q \in Names : Len(p) > 0 /\ p[1] # q[1] => ~IsPrefix(p, q)
  <2>1. ASSUME NEW p \in Names, NEW q \in Names, Len(p) > 0, p[1] # q[1] PROVE ~IsPrefix(p, q)
    <3>1. 1 \in 1..Len(p)
      BY <2>1 DEF Names
    <3> QED BY <2>1, <3>1, Apart
  <2> QED BY <2>1
<1>4. MoveMade(Legacy, Install, 2)
  <2>1. ~IsPrefix(Legacy, Install)
    <3>1. Legacy \in Names /\ Install \in Names /\ 2 \in 1..Len(Legacy) /\ Legacy[2] # Install[2]
      BY <1>1 DEF Path2
    <3> QED BY <3>1, Apart
  <2> QED BY <1>1, <1>2, <1>3, <2>1 DEF MoveMade, ByTheApplication, Last, Path1, Path2
<1>5. MoveMade(OldExe, Exe, 3)
  <2>1. ~IsPrefix(OldExe, Exe)
    <3>1. OldExe \in Names /\ Exe \in Names /\ 3 \in 1..Len(OldExe) /\ OldExe[3] # Exe[3]
      BY <1>1 DEF Path3
    <3> QED BY <3>1, Apart
  <2> QED BY <1>1, <1>2, <1>3, <2>1 DEF MoveMade, ByTheApplication, Last, Path1, Path2, Path3
<1>6. MoveMade(LegacyLink, OldLink, 4)
  BY <1>1, <1>2, <1>3 DEF MoveMade, ByTheApplication, Last, Path1, Path2, Path3
<1>7. MoveMade(OldCorpora, Corpora, 5)
  <2>1. ~IsPrefix(OldCorpora, OldProfile)
    <3>1. OldCorpora \in Names /\ OldProfile \in Names /\ 1 \in 1..Len(OldCorpora)
          /\ Len(OldProfile) < Len(OldCorpora)
      BY <1>1 DEF Path1, Path2
    <3> QED BY <3>1, Apart
  <2> QED BY <1>1, <1>2, <1>3, <2>1 DEF MoveMade, ByTheApplication, Last, Path2, Path3
<1>8. MoveMade(OldProfile, UserData, 6)
  BY <1>1, <1>2, <1>3 DEF MoveMade, ByTheApplication, Last, Path1, Path3
<1>9. ASSUME NEW at \in Nat, at > 5 PROVE MoveMade(OldBackup, LegacyBackup, at)
  BY <1>1, <1>2, <1>3, <1>9 DEF MoveMade, ByTheApplication, Last, Path2, Path4
<1> QED BY <1>4, <1>5, <1>6, <1>7, <1>8, <1>9

-----------------------------------------------------------------------------
(* The operations of a statement *)

\* A file system as the installer's own steps leave it.
Intact(tree) ==
  /\ Named(tree) /\ Closed(tree)
  /\ \A p \in DOMAIN tree : tree[p] \in Contents /\ tree[p] # Nothing

\* The first n directories on the way to a path are there and no others.
KnownTo(tree, path, n) ==
  /\ \A m \in 1..n : SubSeq(path, 1, m) \in DOMAIN tree
  /\ \A m \in (n + 1)..Len(path) : SubSeq(path, 1, m) \notin DOMAIN tree

\* The directories that remain to be made.
Dirs(path, n) ==
  [i \in 1..(Len(path) - n) |-> Op("mkdir", <<>>, SubSeq(path, 1, n + i), Dir)]

Saved(entries, to) ==
  entries # <<>> /\ entries[Len(entries)].kind = "file" /\ entries[Len(entries)].to = to

Ops == [do : {"mkdir", "move", "save", "copy"}, from : Names, to : Names, content : Contents]

MoveRest(rest, path, tree, at) ==
  \E from, to : /\ MoveMade(from, to, at) /\ from \in DOMAIN tree
                /\ path = Front(to)
                /\ rest = <<Op("move", from, to, Nothing)>>

FileRest(rest, path) ==
  \E to \in Names, content \in Contents \ {Nothing} :
    /\ to # <<>> /\ path = Front(to)
    /\ rest = Replace(to, content)

\* What the operations still to run are.
MakesDirs(list, tree, at) ==
  \E path \in Names, n \in Nat, rest \in Seq(Ops) :
    /\ n <= Len(path) /\ KnownTo(tree, path, n)
    /\ MoveRest(rest, path, tree, at) \/ FileRest(rest, path)
    /\ list = Dirs(path, n) \o rest

Copies(list, tree, entries) ==
  \E to \in Names, content \in Contents \ {Nothing} :
    /\ list = <<Op("copy", <<>>, to, content)>>
    /\ Reachable(tree, to) /\ Saved(entries, to)

Pending(list, tree, entries, at) ==
  \/ list = <<>>
  \/ MakesDirs(list, tree, at)
  \/ Copies(list, tree, entries)
  \/ list = SaveTheSettings

LEMMA InitialPaths ==
  ASSUME NEW path \in Names, NEW n \in 1..Len(path)
  PROVE /\ SubSeq(path, 1, n) \in Names /\ SubSeq(path, 1, n) # <<>> /\ Len(SubSeq(path, 1, n)) = n
        /\ \A q \in Names : q # <<>> /\ IsPrefix(q, SubSeq(path, 1, n)) =>
             Len(q) \in 1..n /\ q = SubSeq(path, 1, Len(q))
        /\ \A m \in 1..n : IsPrefix(SubSeq(path, 1, m), SubSeq(path, 1, n))
<1>0. Len(path) \in Nat
  BY DEF Names
<1> DEFINE start == SubSeq(path, 1, n)
<1>1. start \in Names /\ start # <<>> /\ Len(start) = n /\ IsPrefix(start, path)
  BY PrefixIsInitial
<1> HIDE DEF start
<1>2. ASSUME NEW q \in Names, q # <<>>, IsPrefix(q, start)
      PROVE Len(q) \in 1..n /\ q = SubSeq(path, 1, Len(q))
  <2>1. IsPrefix(q, path)
    BY <1>1, <1>2, PrefixOrder
  <2>2. Len(q) \in 1..Len(path) /\ q = SubSeq(path, 1, Len(q))
    BY <1>2, <2>1, PrefixIsInitial
  <2>3. Len(q) <= n
    BY <1>1, <1>2, PrefixByName
  <2> QED BY <1>0, <2>2, <2>3
<1>3. ASSUME NEW m \in 1..n PROVE IsPrefix(SubSeq(path, 1, m), start)
  <2> DEFINE first == SubSeq(path, 1, m)
  <2>1. m \in 1..Len(path)
    BY <1>0
  <2>2. first \in Names /\ Len(first) = m /\ IsPrefix(first, path)
    BY <2>1, PrefixIsInitial
  <2> HIDE DEF first
  <2>3. IsPrefix(first, start) \/ IsPrefix(start, first)
    BY <1>1, <2>2, PrefixOrder
  <2>4. ASSUME IsPrefix(start, first) PROVE first = start
    <3>1. Len(first) = Len(start) /\ \A i \in 1..Len(start) : start[i] = first[i]
      BY <1>0, <1>1, <2>2, <2>4, PrefixByName
    <3> QED BY <1>1, <2>2, <3>1, SeqEqual DEF Names
  <2>5. IsPrefix(first, start)
    BY <1>1, <2>3, <2>4, PrefixOrder
  <2> QED BY <2>5 DEF first
<1> QED BY <1>1, <1>2, <1>3 DEF start

\* The recursion of New-DesktopDirectory finds the nearest ancestor.
LEMMA KnownAncestors ==
  ASSUME Named(fs), Closed(fs), NEW path \in Names
  PROVE Known(path) \in Nat /\ Known(path) <= Len(path) /\ KnownTo(fs, path, Known(path))
<1>0. Len(path) \in Nat
  BY DEF Names
<1> DEFINE Is(n) == /\ n = 0 \/ Exists(fs, SubSeq(path, 1, n))
                    /\ \A m \in (n + 1)..Len(path) : ~Exists(fs, SubSeq(path, 1, m))
           short == {d \in 0..Len(path) :
                       Len(path) - d = 0 \/ Exists(fs, SubSeq(path, 1, Len(path) - d))}
<1>1. \E n \in 0..Len(path) : Is(n)
  <2>1. Len(path) \in short /\ short \in SUBSET Nat
    BY <1>0
  <2>2. PICK d \in short : \A e \in short : d <= e
    BY <2>1, LeastNatural
  <2>3. Len(path) - d \in 0..Len(path) /\ d \in Nat
    BY <1>0
  <2>4. ASSUME NEW m \in ((Len(path) - d) + 1)..Len(path), Exists(fs, SubSeq(path, 1, m)) PROVE FALSE
    <3>1. Len(path) - m \in 0..Len(path) /\ Len(path) - (Len(path) - m) = m
      BY <1>0, <2>3
    <3>2. Len(path) - m \in short
      BY <2>4, <3>1
    <3> QED BY <1>0, <2>2, <2>3, <2>4, <3>2
  <2> QED BY <2>3, <2>4
<1>2. Known(path) \in 0..Len(path) /\ Is(Known(path))
  <2>1. Known(path) = CHOOSE n \in 0..Len(path) : Is(n)
    BY DEF Known
  <2> HIDE DEF Is
  <2> QED BY <1>1, <2>1
<1> DEFINE n == Known(path)
<1>3. n \in Nat /\ n <= Len(path)
  BY <1>0, <1>2
<1>4. ASSUME NEW m \in 1..n PROVE SubSeq(path, 1, m) \in DOMAIN fs
  <2>1. n \in 1..Len(path) /\ SubSeq(path, 1, n) \in DOMAIN fs
    BY <1>0, <1>2 DEF Exists
  <2> HIDE DEF n
  <2>2. m \in 1..Len(path) /\ IsPrefix(SubSeq(path, 1, m), SubSeq(path, 1, n))
    BY <1>0, <2>1, InitialPaths
  <2>3. SubSeq(path, 1, m) \in Names /\ SubSeq(path, 1, m) # <<>>
    BY <2>2, InitialPaths
  <2> QED BY <2>1, <2>2, <2>3 DEF Closed
<1>5. \A m \in (n + 1)..Len(path) : SubSeq(path, 1, m) \notin DOMAIN fs
  BY <1>2 DEF Exists
<1> QED BY <1>3, <1>4, <1>5 DEF KnownTo

LEMMA DirsStart ==
  ASSUME NEW path \in Names, NEW n \in Nat, n < Len(path), NEW rest \in Seq(Ops)
  PROVE /\ Dirs(path, n) \o rest # <<>>
        /\ Head(Dirs(path, n) \o rest) = Op("mkdir", <<>>, SubSeq(path, 1, n + 1), Dir)
        /\ Tail(Dirs(path, n) \o rest) = Dirs(path, n + 1) \o rest
        /\ Dirs(path, n) \in Seq(Ops)
<1> DEFINE dir(i) == Op("mkdir", <<>>, SubSeq(path, 1, i), Dir)
<1>0. Len(path) \in Nat
  BY DEF Names
<1>1. ASSUME NEW i \in 1..Len(path) PROVE dir(i) \in Ops
  <2>1. SubSeq(path, 1, i) \in Names
    BY InitialPaths
  <2>2. <<>> \in Names
    BY DEF Names
  <2>3. Dir \in Contents
    BY DEF Contents
  <2> QED BY <2>1, <2>2, <2>3 DEF Op, Ops
<1> HIDE DEF dir
<1>2. ASSUME NEW m \in Nat, m <= Len(path)
      PROVE /\ Dirs(path, m) \in Seq(Ops) /\ Len(Dirs(path, m)) = Len(path) - m
            /\ \A i \in 1..(Len(path) - m) : Dirs(path, m)[i] = dir(m + i)
  <2>1. Dirs(path, m) = [i \in 1..(Len(path) - m) |-> dir(m + i)]
    BY DEF Dirs, dir
  <2>2. \A i \in 1..(Len(path) - m) : dir(m + i) \in Ops
    BY <1>0, <1>1, <1>2
  <2>3. Len(path) - m \in Nat
    BY <1>0, <1>2
  <2> QED BY <2>1, <2>2, <2>3
<1> DEFINE here == Dirs(path, n)
           next == Dirs(path, n + 1)
           all == here \o rest
           later == next \o rest
<1>3. /\ here \in Seq(Ops) /\ Len(here) = Len(path) - n
      /\ \A i \in 1..(Len(path) - n) : here[i] = dir(n + i)
  BY <1>0, <1>2
<1>4. /\ next \in Seq(Ops) /\ Len(next) = Len(path) - (n + 1)
      /\ \A i \in 1..(Len(path) - (n + 1)) : next[i] = dir((n + 1) + i)
  BY <1>0, <1>2
<1> HIDE DEF here, next
<1>5. /\ all \in Seq(Ops) /\ Len(all) = Len(here) + Len(rest)
      /\ \A i \in 1..(Len(here) + Len(rest)) :
           all[i] = IF i <= Len(here) THEN here[i] ELSE rest[i - Len(here)]
  BY <1>3, ConcatProperties
<1>6. /\ later \in Seq(Ops) /\ Len(later) = Len(next) + Len(rest)
      /\ \A i \in 1..(Len(next) + Len(rest)) :
           later[i] = IF i <= Len(next) THEN next[i] ELSE rest[i - Len(next)]
  BY <1>4, ConcatProperties
<1> HIDE DEF all, later
<1>7. Len(rest) \in Nat
  OBVIOUS
<1>8. all # <<>> /\ Head(all) = dir(n + 1)
  <2>1. Len(all) > 0 /\ all[1] = dir(n + 1)
    BY <1>0, <1>3, <1>5, <1>7
  <2> QED BY <2>1, <1>5
<1>9. Tail(all) = later
  <2> DEFINE tail == Tail(all)
  <2>1. /\ tail \in Seq(Ops) /\ Len(tail) = Len(all) - 1
        /\ \A i \in 1..(Len(all) - 1) : tail[i] = all[i + 1]
    BY <1>5, <1>8, HeadTailProperties
  <2> HIDE DEF tail
  <2>2. Len(tail) = Len(later)
    BY <1>0, <1>3, <1>4, <1>5, <1>6, <1>7, <2>1
  <2>3. ASSUME NEW i \in 1..Len(tail) PROVE tail[i] = later[i]
    <3>1. CASE i <= Len(next)
      <4>1. /\ i + 1 <= Len(here) /\ i + 1 \in 1..(Len(here) + Len(rest)) /\ i \in 1..(Len(all) - 1)
            /\ i \in 1..(Len(next) + Len(rest)) /\ i \in 1..(Len(path) - (n + 1))
            /\ i + 1 \in 1..(Len(path) - n)
        BY <1>0, <1>3, <1>4, <1>5, <1>7, <2>1, <3>1
      <4>2. tail[i] = dir(n + (i + 1)) /\ later[i] = dir((n + 1) + i)
        BY <3>1, <4>1, <1>3, <1>4, <1>5, <1>6, <2>1
      <4>3. n + (i + 1) = (n + 1) + i
        BY <4>1
      <4> QED BY <4>2, <4>3
    <3>2. CASE i > Len(next)
      <4>1. /\ ~(i + 1 <= Len(here)) /\ i + 1 \in 1..(Len(here) + Len(rest)) /\ i \in 1..(Len(all) - 1)
            /\ i \in 1..(Len(next) + Len(rest)) /\ (i + 1) - Len(here) = i - Len(next)
            /\ ~(i <= Len(next))
        BY <1>0, <1>3, <1>4, <1>5, <1>7, <2>1, <3>2
      <4> QED BY <4>1, <1>5, <1>6, <2>1
    <3> QED BY <3>1, <3>2, <1>0, <1>4, <2>1, <1>5, <1>7
  <2>4. tail = later
    BY <1>6, <2>1, <2>2, <2>3, SeqEqual
  <2> QED BY <2>4 DEF tail
<1> QED BY <1>3, <1>8, <1>9 DEF here, next, all, later, dir

LEMMA DirsEnd ==
  ASSUME NEW path \in Names, NEW rest \in Seq(Ops)
  PROVE Dirs(path, Len(path)) \o rest = rest
<1> DEFINE none == Dirs(path, Len(path))
           all == none \o rest
<1>1. none \in Seq(Ops) /\ Len(none) = 0
  <2>1. Len(path) - Len(path) = 0
    BY DEF Names
  <2>2. none = [i \in 1..0 |-> Op("mkdir", <<>>, SubSeq(path, 1, Len(path) + i), Dir)]
    BY <2>1 DEF Dirs
  <2> HIDE DEF none
  <2> QED BY <2>2
<1> HIDE DEF none
<1>2. /\ all \in Seq(Ops) /\ Len(all) = 0 + Len(rest)
      /\ \A i \in 1..(0 + Len(rest)) : all[i] = rest[i - 0]
  BY <1>1, ConcatProperties
<1> HIDE DEF all
<1>3. all = rest
  <2>1. Len(rest) \in Nat
    OBVIOUS
  <2> QED BY <1>2, <2>1, SeqEqual
<1> QED BY <1>3 DEF all, none

LEMMA FrontOfAPath ==
  ASSUME NEW to \in Names, to # <<>>
  PROVE /\ Front(to) \in Names /\ Len(Front(to)) = Len(to) - 1
        /\ \A n \in 1..(Len(to) - 1) : SubSeq(Front(to), 1, n) = SubSeq(to, 1, n)
<1> DEFINE front == Front(to)
<1>0. Len(to) \in Nat /\ Len(to) > 0
  BY DEF Names
<1>1. /\ front \in Names /\ Len(front) = Len(to) - 1
      /\ \A i \in 1..(Len(to) - 1) : front[i] = to[i]
  <2> HIDE DEF front
  <2>1. CASE Len(to) = 1
    <3>1. front = SubSeq(to, 1, 0)
      BY <2>1 DEF Front, front
    <3> QED BY <3>1, <2>1 DEF Names
  <2>2. CASE Len(to) > 1
    <3>1. front = SubSeq(to, 1, Len(to) - 1) /\ Len(to) - 1 \in 1..Len(to)
      BY <2>2, <1>0 DEF Front, front
    <3>2. front \in Names /\ Len(front) = Len(to) - 1 /\ IsPrefix(front, to)
      BY <3>1, PrefixIsInitial
    <3> QED BY <3>2, PrefixByName
  <2>3. Len(to) = 1 \/ Len(to) > 1
    BY <1>0
  <2> QED BY <2>1, <2>2, <2>3, Zenon
<1> HIDE DEF front
<1>2. ASSUME NEW n \in 1..(Len(to) - 1) PROVE SubSeq(front, 1, n) = SubSeq(to, 1, n)
  <2> DEFINE one == SubSeq(front, 1, n)
             other == SubSeq(to, 1, n)
  <2>1. n \in 1..Len(front) /\ n \in 1..Len(to)
    BY <1>0, <1>1
  <2>2. one \in Names /\ Len(one) = n /\ IsPrefix(one, front)
    BY <1>1, <2>1, PrefixIsInitial
  <2>3. other \in Names /\ Len(other) = n /\ IsPrefix(other, to)
    BY <2>1, PrefixIsInitial
  <2> HIDE DEF one, other
  <2>4. ASSUME NEW i \in 1..n PROVE one[i] = other[i]
    <3>1. one[i] = front[i]
      BY <1>1, <2>2, PrefixByName
    <3>2. other[i] = to[i]
      BY <2>3, PrefixByName
    <3> QED BY <1>1, <2>1, <3>1, <3>2
  <2>5. one = other
    BY <2>2, <2>3, <2>4, SeqEqual DEF Names
  <2> QED BY <2>5 DEF one, other
<1> QED BY <1>1, <1>2 DEF front

LEMMA ReachableByDirs ==
  ASSUME NEW tree, NEW to \in Names, to # <<>>, KnownTo(tree, Front(to), Len(Front(to)))
  PROVE Reachable(tree, to)
<1>0. Len(to) \in Nat /\ Len(to) > 0
  BY DEF Names
<1>1. ASSUME NEW q \in Names, q # <<>>, IsPrefix(q, to), q # to PROVE q \in DOMAIN tree
  <2>1. Len(q) \in 1..Len(to) /\ q = SubSeq(to, 1, Len(q))
    BY <1>1, PrefixIsInitial
  <2>2. Len(q) # Len(to)
    <3>1. \A i \in 1..Len(q) : q[i] = to[i]
      BY <1>1, PrefixByName
    <3> QED BY <1>1, <3>1, SeqEqual DEF Names
  <2>3. Len(q) \in 1..(Len(to) - 1)
    BY <1>0, <2>1, <2>2
  <2>4. SubSeq(Front(to), 1, Len(q)) = q /\ Len(Front(to)) = Len(to) - 1
    BY <2>1, <2>3, FrontOfAPath
  <2> QED BY <2>3, <2>4 DEF KnownTo
<1> QED BY <1>1 DEF Reachable

\* The next operation and what is left after it.
NextIsMkdir(list, tree, at) ==
  \E path \in Names, n \in Nat, rest \in Seq(Ops) :
    /\ n < Len(path) /\ KnownTo(tree, path, n)
    /\ MoveRest(rest, path, tree, at) \/ FileRest(rest, path)
    /\ Head(list) = Op("mkdir", <<>>, SubSeq(path, 1, n + 1), Dir)
    /\ Tail(list) = Dirs(path, n + 1) \o rest

NextIsMove(list, tree, at) ==
  \E from, to :
    /\ MoveMade(from, to, at) /\ from \in DOMAIN tree /\ Reachable(tree, to)
    /\ Head(list) = Op("move", from, to, Nothing) /\ Tail(list) = <<>>

NextIsSave(list, tree) ==
  \E to \in Names, content \in Contents \ {Nothing} :
    /\ to # <<>> /\ Reachable(tree, to)
    /\ Head(list) = Op("save", <<>>, to, Nothing)
    /\ Tail(list) = <<Op("copy", <<>>, to, content)>>

NextIsCopy(list, tree, entries) ==
  \E to \in Names, content \in Contents \ {Nothing} :
    /\ Reachable(tree, to) /\ Saved(entries, to)
    /\ Head(list) = Op("copy", <<>>, to, content) /\ Tail(list) = <<>>

LEMMA PendingHead ==
  ASSUME NEW list, NEW tree, NEW entries, NEW at, Pending(list, tree, entries, at), list # <<>>
  PROVE \/ NextIsMkdir(list, tree, at) \/ NextIsMove(list, tree, at) \/ NextIsSave(list, tree)
        \/ NextIsCopy(list, tree, entries)
        \/ list = SaveTheSettings
<1>1. CASE MakesDirs(list, tree, at)
  <2>1. PICK path \in Names, n \in Nat, rest \in Seq(Ops) :
          /\ n <= Len(path) /\ KnownTo(tree, path, n)
          /\ MoveRest(rest, path, tree, at) \/ FileRest(rest, path)
          /\ list = Dirs(path, n) \o rest
    BY <1>1 DEF MakesDirs
  <2>2. CASE n < Len(path)
    <3>1. /\ Head(list) = Op("mkdir", <<>>, SubSeq(path, 1, n + 1), Dir)
          /\ Tail(list) = Dirs(path, n + 1) \o rest
      BY <2>1, <2>2, DirsStart
    <3>2. NextIsMkdir(list, tree, at)
      BY <2>1, <2>2, <3>1, Zenon DEF NextIsMkdir
    <3> QED BY <3>2
  <2>3. CASE n = Len(path)
    <3>0. list = rest
      BY <2>1, <2>3, DirsEnd
    <3>1. CASE MoveRest(rest, path, tree, at)
      <4>1. PICK from, to : /\ MoveMade(from, to, at) /\ from \in DOMAIN tree
                            /\ path = Front(to)
                            /\ rest = <<Op("move", from, to, Nothing)>>
        BY <3>1 DEF MoveRest
      <4>2. Reachable(tree, to)
        BY <2>1, <2>3, <4>1, ReachableByDirs DEF MoveMade
      <4>3. Head(list) = Op("move", from, to, Nothing) /\ Tail(list) = <<>>
        BY <3>0, <4>1
      <4> QED BY <4>1, <4>2, <4>3, Zenon DEF NextIsMove
    <3>2. CASE FileRest(rest, path)
      <4>1. PICK to \in Names, content \in Contents \ {Nothing} :
              to # <<>> /\ path = Front(to) /\ rest = Replace(to, content)
        BY <3>2 DEF FileRest
      <4>2. Reachable(tree, to)
        BY <2>1, <2>3, <4>1, ReachableByDirs
      <4>3. Head(list) = Op("save", <<>>, to, Nothing) /\ Tail(list) = <<Op("copy", <<>>, to, content)>>
        BY <3>0, <4>1 DEF Replace
      <4>4. NextIsSave(list, tree)
        BY <4>1, <4>2, <4>3, Zenon DEF NextIsSave
      <4> QED BY <4>4
    <3> QED BY <2>1, <3>1, <3>2
  <2>4. Len(path) \in Nat
    BY DEF Names
  <2> QED BY <2>1, <2>2, <2>3, <2>4
<1>2. CASE Copies(list, tree, entries)
  <2>1. PICK to \in Names, content \in Contents \ {Nothing} :
          /\ list = <<Op("copy", <<>>, to, content)>>
          /\ Reachable(tree, to) /\ Saved(entries, to)
    BY <1>2 DEF Copies
  <2>2. Head(list) = Op("copy", <<>>, to, content) /\ Tail(list) = <<>>
    BY <2>1
  <2>3. NextIsCopy(list, tree, entries)
    BY <2>1, <2>2, Zenon DEF NextIsCopy
  <2> QED BY <2>3
<1> QED BY <1>1, <1>2 DEF Pending

\* What a move or a file needs, the directories first.
LEMMA MoveItemPending ==
  ASSUME Named(fs), Closed(fs), NEW from, NEW to, NEW at, MoveMade(from, to, at), from \in DOMAIN fs,
         NEW entries
  PROVE Pending(MoveItem(from, to), fs, entries, at)
<1> DEFINE rest == <<Op("move", from, to, Nothing)>>
<1>1. from \in Names /\ to \in Names /\ to # <<>>
  BY DEF MoveMade
<1>2. Front(to) \in Names
  BY <1>1, FrontOfAPath
<1>3. /\ Known(Front(to)) \in Nat /\ Known(Front(to)) <= Len(Front(to))
      /\ KnownTo(fs, Front(to), Known(Front(to)))
  BY <1>2, KnownAncestors
<1>4. rest \in Seq(Ops)
  <2>1. Nothing \in Contents
    BY DEF Contents
  <2>2. Op("move", from, to, Nothing) \in Ops
    BY <1>1, <2>1 DEF Op, Ops
  <2> QED BY <2>2
<1>5. MoveRest(rest, Front(to), fs, at)
  BY Zenon DEF MoveRest
<1>6. MoveItem(from, to) = Dirs(Front(to), Known(Front(to))) \o rest
  BY DEF MoveItem, MakeDirs, Dirs
<1> HIDE DEF rest
<1>7. MakesDirs(MoveItem(from, to), fs, at)
  BY <1>2, <1>3, <1>4, <1>5, <1>6, Zenon DEF MakesDirs
<1> QED BY <1>7 DEF Pending

LEMMA SetFilePending ==
  ASSUME Named(fs), Closed(fs), NEW to \in Names, to # <<>>, NEW content \in Contents \ {Nothing},
         NEW at, NEW entries
  PROVE Pending(SetFile(content, to), fs, entries, at)
<1> DEFINE rest == Replace(to, content)
<1>2. Front(to) \in Names
  BY FrontOfAPath
<1>3. /\ Known(Front(to)) \in Nat /\ Known(Front(to)) <= Len(Front(to))
      /\ KnownTo(fs, Front(to), Known(Front(to)))
  BY <1>2, KnownAncestors
<1>4. rest \in Seq(Ops)
  <2>1. Nothing \in Contents
    BY DEF Contents
  <2>2. <<>> \in Names
    BY DEF Names
  <2>3. Op("save", <<>>, to, Nothing) \in Ops /\ Op("copy", <<>>, to, content) \in Ops
    BY <2>1, <2>2 DEF Op, Ops
  <2> QED BY <2>3 DEF Replace
<1>5. FileRest(rest, Front(to))
  BY Zenon DEF FileRest
<1>6. SetFile(content, to) = Dirs(Front(to), Known(Front(to))) \o rest
  BY DEF SetFile, MakeDirs, Dirs
<1> HIDE DEF rest
<1>7. MakesDirs(SetFile(content, to), fs, at)
  BY <1>2, <1>3, <1>4, <1>5, <1>6, Zenon DEF MakesDirs
<1> QED BY <1>7 DEF Pending

-----------------------------------------------------------------------------
(* The invariant *)

Shape ==
  /\ initial \in Trees
  /\ stage \in Nat \ {0}
  /\ plan.candidate \in Candidates \cup {NoCandidate}
  /\ phase \in {"running", "undoing", "blocked", "broken", "rolled back", "committed"}

\* What a migration is still to move is there.
Sources ==
  /\ stage <= 1 /\ plan.moveInstall => Legacy \in DOMAIN fs
  /\ stage <= 4 /\ plan.moveCorpora => OldCorpora \in DOMAIN fs
  /\ stage <= 5 /\ plan.moveProfile => OldProfile \in DOMAIN fs

Installs == plan.candidate # NoCandidate

\* Before the application starts only the installer has touched the file system.
Undisturbed ==
  /\ Intact(fs) /\ Recorded(initial, journal, fs, TRUE)
  /\ Pending(ops, fs, journal, stage)
  /\ Sources
  /\ stage = 1 => ops = <<>>
  /\ stage = LastStage + 1 /\ Installs =>
       ops = SaveTheSettings \/ (ops = <<>> /\ Saved(journal, Settings))

LEMMA CorpusIsListed == Len(CorpusFiles) \in Nat /\ DOMAIN CorpusFiles = 1..Len(CorpusFiles)
  BY InstallationAssumption

\* The statements, one after the other.
LEMMA Statements ==
  ASSUME NEW k \in Nat
  PROVE /\ k = 1 => Statement(k) = When(plan.moveInstall, MoveItem(Legacy, Install))
        /\ k = 2 => Statement(k) = When(plan.moveInstall /\ Exists(fs, OldExe), MoveItem(OldExe, Exe))
        /\ k = 3 => Statement(k) = When(plan.moveInstall /\ Exists(fs, LegacyLink),
                                        MoveItem(LegacyLink, OldLink))
        /\ k = 4 => Statement(k) = When(plan.moveCorpora, MoveItem(OldCorpora, Corpora))
        /\ k = 5 => Statement(k) = When(plan.moveProfile, MoveItem(OldProfile, UserData))
        /\ k \in 6..(5 + Len(CorpusFiles)) =>
             Statement(k) = When(CorpusFiles[k - 5] \in plan.copies,
                                 SetFile("corpus of the project", Corpora \o CorpusFiles[k - 5]))
        /\ k = 6 + Len(CorpusFiles) =>
             Statement(k) = When(Installs /\ Exists(fs, Exe)
                                   /\ (fs[Exe] # plan.candidate \/ ~Exists(fs, Backup)),
                                 SetFile(fs[Exe], Backup))
        /\ k = 7 + Len(CorpusFiles) =>
             Statement(k) = When(Installs /\ Exists(fs, OldBackup) /\ Exists(fs, Backup),
                                 MoveItem(OldBackup, LegacyBackup))
        /\ k = 8 + Len(CorpusFiles) => Statement(k) = When(Installs, SetFile(plan.candidate, Exe))
        /\ k = 9 + Len(CorpusFiles) => Statement(k) = When(Installs, SetFile("new shortcut", Link))
        /\ k = 10 + Len(CorpusFiles) => Statement(k) = When(Installs, SaveTheSettings)
<1> DEFINE copies == Len(CorpusFiles)
           s1 == When(plan.moveInstall, MoveItem(Legacy, Install))
           s2 == When(plan.moveInstall /\ Exists(fs, OldExe), MoveItem(OldExe, Exe))
           s3 == When(plan.moveInstall /\ Exists(fs, LegacyLink), MoveItem(LegacyLink, OldLink))
           s4 == When(plan.moveCorpora, MoveItem(OldCorpora, Corpora))
           s5 == When(plan.moveProfile, MoveItem(OldProfile, UserData))
           s6(n) == When(CorpusFiles[n] \in plan.copies,
                         SetFile("corpus of the project", Corpora \o CorpusFiles[n]))
           s7 == When(Installs /\ Exists(fs, Exe)
                        /\ (fs[Exe] # plan.candidate \/ ~Exists(fs, Backup)),
                      SetFile(fs[Exe], Backup))
           s8 == When(Installs /\ Exists(fs, OldBackup) /\ Exists(fs, Backup),
                      MoveItem(OldBackup, LegacyBackup))
           s9 == When(Installs, SetFile(plan.candidate, Exe))
           s10 == When(Installs, SetFile("new shortcut", Link))
           s11 == When(Installs, SaveTheSettings)
<1>1. Statement(k) =
        CASE k = 1 -> s1 [] k = 2 -> s2 [] k = 3 -> s3 [] k = 4 -> s4 [] k = 5 -> s5
          [] k \in 6..(5 + copies) -> s6(k - 5)
          [] k = 6 + copies -> s7 [] k = 7 + copies -> s8 [] k = 8 + copies -> s9
          [] k = 9 + copies -> s10 [] k = 10 + copies -> s11
  BY Zenon DEF Statement, Installs, OldLink, Corpora, LegacyBackup
<1>2. copies \in Nat
  BY CorpusIsListed
<1> HIDE DEF copies, s1, s2, s3, s4, s5, s6, s7, s8, s9, s10, s11
<1>3. /\ k = 1 => Statement(k) = s1
      /\ k = 2 => Statement(k) = s2
      /\ k = 3 => Statement(k) = s3
      /\ k = 4 => Statement(k) = s4
      /\ k = 5 => Statement(k) = s5
      /\ k \in 6..(5 + copies) => Statement(k) = s6(k - 5)
      /\ k = 6 + copies => Statement(k) = s7
      /\ k = 7 + copies => Statement(k) = s8
      /\ k = 8 + copies => Statement(k) = s9
      /\ k = 9 + copies => Statement(k) = s10
      /\ k = 10 + copies => Statement(k) = s11
  BY <1>1, <1>2
<1> QED BY <1>3 DEF copies, s1, s2, s3, s4, s5, s6, s7, s8, s9, s10, s11

LEMMA WhenPending ==
  ASSUME NEW condition \in BOOLEAN, NEW list, NEW tree, NEW entries, NEW at,
         condition => Pending(list, tree, entries, at)
  PROVE Pending(When(condition, list), tree, entries, at)
  BY DEF When, Pending

\* Whatever a statement starts may be run from where it starts.
LEMMA StatementPending ==
  ASSUME Shape, Undisturbed, stage <= LastStage
  PROVE /\ Pending(Statement(stage), fs, journal, stage + 1)
        /\ stage = LastStage /\ Installs => Statement(stage) = SaveTheSettings
<1> DEFINE copies == Len(CorpusFiles)
           ready(list) == Pending(list, fs, journal, stage + 1)
<1>0. /\ Named(fs) /\ Closed(fs) /\ stage \in Nat /\ stage # 0 /\ copies \in Nat
      /\ stage <= 10 + copies
      /\ \A p \in DOMAIN fs : fs[p] \in Contents \ {Nothing}
  BY CorpusIsListed DEF Undisturbed, Intact, Shape, LastStage
<1>1. /\ stage = 1 /\ plan.moveInstall => Legacy \in DOMAIN fs
      /\ stage = 4 /\ plan.moveCorpora => OldCorpora \in DOMAIN fs
      /\ stage = 5 /\ plan.moveProfile => OldProfile \in DOMAIN fs
  BY DEF Undisturbed, Sources
<1>2. \A from, to : MoveMade(from, to, stage + 1) /\ from \in DOMAIN fs => ready(MoveItem(from, to))
  BY <1>0, MoveItemPending
<1>3. \A to \in Names, content \in Contents \ {Nothing} : to # <<>> => ready(SetFile(content, to))
  BY <1>0, SetFilePending
<1>4. \A condition, list : (condition => ready(list)) => ready(When(condition, list))
  BY DEF When, Pending
<1> HIDE DEF ready
<1>5. /\ {Exe, Backup, Link} \subseteq Names
      /\ Exe # <<>> /\ Backup # <<>> /\ Link # <<>>
  BY Places, InnerPlaces DEF Path2, Path3, Path4, Names
<1>6. CASE stage = 1
  <2>1. plan.moveInstall => ready(MoveItem(Legacy, Install))
    BY <1>1, <1>2, <1>6, MovesMade
  <2>8. Statement(stage) = When(plan.moveInstall, MoveItem(Legacy, Install))
    BY <1>0, <1>6, Statements
  <2>9. ready(Statement(stage))
    BY <2>1, <2>8, <1>4
  <2> QED BY <2>9, <1>0, <1>6 DEF ready, LastStage
<1>7. CASE stage = 2
  <2>1. plan.moveInstall /\ Exists(fs, OldExe) => ready(MoveItem(OldExe, Exe))
    BY <1>2, <1>7, MovesMade DEF Exists
  <2>8. Statement(stage) = When(plan.moveInstall /\ Exists(fs, OldExe), MoveItem(OldExe, Exe))
    BY <1>0, <1>7, Statements
  <2>9. ready(Statement(stage))
    BY <2>1, <2>8, <1>4
  <2> QED BY <2>9, <1>0, <1>7 DEF ready, LastStage
<1>8. CASE stage = 3
  <2>1. plan.moveInstall /\ Exists(fs, LegacyLink) => ready(MoveItem(LegacyLink, OldLink))
    BY <1>2, <1>8, MovesMade DEF Exists
  <2>8. Statement(stage) = When(plan.moveInstall /\ Exists(fs, LegacyLink), MoveItem(LegacyLink, OldLink))
    BY <1>0, <1>8, Statements
  <2>9. ready(Statement(stage))
    BY <2>1, <2>8, <1>4
  <2> QED BY <2>9, <1>0, <1>8 DEF ready, LastStage
<1>9. CASE stage = 4
  <2>1. plan.moveCorpora => ready(MoveItem(OldCorpora, Corpora))
    BY <1>1, <1>2, <1>9, MovesMade
  <2>8. Statement(stage) = When(plan.moveCorpora, MoveItem(OldCorpora, Corpora))
    BY <1>0, <1>9, Statements
  <2>9. ready(Statement(stage))
    BY <2>1, <2>8, <1>4
  <2> QED BY <2>9, <1>0, <1>9 DEF ready, LastStage
<1>10. CASE stage = 5
  <2>1. plan.moveProfile => ready(MoveItem(OldProfile, UserData))
    BY <1>1, <1>2, <1>10, MovesMade
  <2>8. Statement(stage) = When(plan.moveProfile, MoveItem(OldProfile, UserData))
    BY <1>0, <1>10, Statements
  <2>9. ready(Statement(stage))
    BY <2>1, <2>8, <1>4
  <2> QED BY <2>9, <1>0, <1>10 DEF ready, LastStage
<1>11. CASE stage \in 6..(5 + copies)
  <2> DEFINE to == Corpora \o CorpusFiles[stage - 5]
  <2>1. stage - 5 \in DOMAIN CorpusFiles
    BY <1>0, <1>11, CorpusIsListed
  <2>2. to \in Names /\ to # <<>>
    <3>1. to \in Names /\ Len(to) > 3
      BY <2>1, CorpusPlaces
    <3> HIDE DEF to
    <3> QED BY <3>1 DEF Names
  <2>3. "corpus of the project" \in Contents \ {Nothing}
    BY DEF Contents, Nothing
  <2>4. ready(SetFile("corpus of the project", to))
    BY <1>3, <2>2, <2>3
  <2>8. Statement(stage) = When(CorpusFiles[stage - 5] \in plan.copies, SetFile("corpus of the project", to))
    BY <1>0, <1>11, Statements
  <2>9. ready(Statement(stage))
    BY <2>4, <2>8, <1>4
  <2> QED BY <2>9, <1>0, <1>11 DEF ready, LastStage
<1>12. CASE stage = 6 + copies
  <2>1. Installs /\ Exists(fs, Exe) => ready(SetFile(fs[Exe], Backup))
    BY <1>0, <1>3, <1>5 DEF Exists
  <2>8. Statement(stage) = When(Installs /\ Exists(fs, Exe)
                              /\ (fs[Exe] # plan.candidate \/ ~Exists(fs, Backup)), SetFile(fs[Exe], Backup))
    BY <1>0, <1>12, Statements
  <2>9. ready(Statement(stage))
    BY <2>1, <2>8, <1>4
  <2> QED BY <2>9, <1>0, <1>12 DEF ready, LastStage
<1>13. CASE stage = 7 + copies
  <2>1. MoveMade(OldBackup, LegacyBackup, stage + 1)
    BY <1>0, <1>13, MovesMade
  <2>2. Installs /\ Exists(fs, OldBackup) /\ Exists(fs, Backup) => ready(MoveItem(OldBackup, LegacyBackup))
    BY <1>2, <2>1 DEF Exists
  <2>8. Statement(stage) = When(Installs /\ Exists(fs, OldBackup) /\ Exists(fs, Backup), MoveItem(OldBackup, LegacyBackup))
    BY <1>0, <1>13, Statements
  <2>9. ready(Statement(stage))
    BY <2>2, <2>8, <1>4
  <2> QED BY <2>9, <1>0, <1>13 DEF ready, LastStage
<1>14. CASE stage = 8 + copies
  <2>1. Installs => plan.candidate \in Contents \ {Nothing}
    BY InstallationAssumption DEF Shape, Installs, Contents
  <2>2. Installs => ready(SetFile(plan.candidate, Exe))
    BY <1>3, <1>5, <2>1
  <2>8. Statement(stage) = When(Installs, SetFile(plan.candidate, Exe))
    BY <1>0, <1>14, Statements
  <2>9. ready(Statement(stage))
    BY <2>2, <2>8, <1>4
  <2> QED BY <2>9, <1>0, <1>14 DEF ready, LastStage
<1>15. CASE stage = 9 + copies
  <2>1. "new shortcut" \in Contents \ {Nothing}
    BY DEF Contents, Nothing
  <2>2. Installs => ready(SetFile("new shortcut", Link))
    BY <1>3, <1>5, <2>1
  <2>8. Statement(stage) = When(Installs, SetFile("new shortcut", Link))
    BY <1>0, <1>15, Statements
  <2>9. ready(Statement(stage))
    BY <2>2, <2>8, <1>4
  <2> QED BY <2>9, <1>0, <1>15 DEF ready, LastStage
<1>16. CASE stage = 10 + copies
  <2>1. Statement(stage) = When(Installs, SaveTheSettings)
    BY <1>0, <1>16, Statements
  <2>2. ready(SaveTheSettings)
    BY DEF ready, Pending
  <2>3. ready(When(Installs, SaveTheSettings)) /\ (Installs => When(Installs, SaveTheSettings) = SaveTheSettings)
    BY <1>4, <2>2 DEF When
  <2> QED BY <2>1, <2>3 DEF ready
<1> QED BY <1>0, <1>6, <1>7, <1>8, <1>9, <1>10, <1>11, <1>12, <1>13, <1>14, <1>15, <1>16

LEMMA IntactAfterWith ==
  ASSUME NEW tree, Intact(tree), NEW path \in Names, Reachable(tree, path),
         NEW content \in Contents \ {Nothing}
  PROVE Intact(With(tree, path, content))
<1> DEFINE next == With(tree, path, content)
<1>1. Named(next) /\ Closed(next)
  BY NamedAfterWith, ClosedAfterWith DEF Intact
<1>2. /\ DOMAIN next = DOMAIN tree \cup {path} /\ next[path] = content
      /\ \A p \in DOMAIN tree : p # path => next[p] = tree[p]
  BY DEF With
<1> HIDE DEF next
<1>3. Intact(next)
  BY <1>1, <1>2 DEF Intact
<1> QED BY <1>3 DEF next

\* Nothing is lost by a move, and nothing of what was not moved changes its place.
LEMMA MovedContents ==
  ASSUME NEW tree, Named(tree), Closed(tree), NEW from, NEW to, Movable(tree, from, to)
  PROVE /\ \A p \in DOMAIN Moved(tree, from, to) : \E q \in DOMAIN tree : Moved(tree, from, to)[p] = tree[q]
        /\ \A q \in DOMAIN tree : \E p \in DOMAIN Moved(tree, from, to) : Moved(tree, from, to)[p] = tree[q]
        /\ \A p \in DOMAIN tree : ~IsPrefix(from, p) =>
             p \in DOMAIN Moved(tree, from, to) /\ Moved(tree, from, to)[p] = tree[p]
<1> DEFINE later == Moved(tree, from, to)
<1>0. from \in Names /\ to \in Names
  BY DEF Movable
<1>1. Named(later)
  BY <1>0, NamedAfterMove
<1>2. \A p \in Names :
        /\ p \in DOMAIN later <=>
             \/ IsPrefix(to, p) /\ Rebase(p, to, from) \in DOMAIN tree
             \/ p \in DOMAIN tree /\ ~IsPrefix(from, p)
        /\ IsPrefix(to, p) /\ Rebase(p, to, from) \in DOMAIN tree =>
             later[p] = tree[Rebase(p, to, from)]
        /\ ~(IsPrefix(to, p) /\ Rebase(p, to, from) \in DOMAIN tree)
             /\ p \in DOMAIN tree /\ ~IsPrefix(from, p) => later[p] = tree[p]
  BY <1>0, MovedFacts, Zenon
<1>3. \A p \in DOMAIN tree : ~IsPrefix(to, p)
  BY MoveDisjoint
<1> HIDE DEF later
<1>4. ASSUME NEW p \in DOMAIN later PROVE \E q \in DOMAIN tree : later[p] = tree[q]
  <2>1. p \in Names
    BY <1>1 DEF Named
  <2> QED BY <2>1, <1>2
<1>5. ASSUME NEW p \in DOMAIN tree, ~IsPrefix(from, p) PROVE p \in DOMAIN later /\ later[p] = tree[p]
  <2>1. p \in Names
    BY DEF Named
  <2> QED BY <2>1, <1>2, <1>3, <1>5
<1>6. ASSUME NEW q \in DOMAIN tree PROVE \E p \in DOMAIN later : later[p] = tree[q]
  <2>0. q \in Names
    BY DEF Named
  <2>1. CASE IsPrefix(from, q)
    <3> DEFINE p == Rebase(q, from, to)
    <3>1. p \in Names /\ IsPrefix(to, p) /\ Rebase(p, to, from) = q
      BY <2>0, <2>1, <1>0, RebaseShape, RebaseBack, Zenon
    <3> HIDE DEF p
    <3> QED BY <3>1, <1>2
  <2> QED BY <2>1, <1>5
<1>7. /\ \A p \in DOMAIN later : \E q \in DOMAIN tree : later[p] = tree[q]
      /\ \A q \in DOMAIN tree : \E p \in DOMAIN later : later[p] = tree[q]
      /\ \A p \in DOMAIN tree : ~IsPrefix(from, p) => p \in DOMAIN later /\ later[p] = tree[p]
  BY <1>4, <1>5, <1>6
<1> QED BY <1>7 DEF later

LEMMA IntactAfterMove ==
  ASSUME NEW tree, Intact(tree), NEW from, NEW to, Movable(tree, from, to), Reachable(tree, to)
  PROVE Intact(Moved(tree, from, to))
<1>1. Named(Moved(tree, from, to)) /\ Closed(Moved(tree, from, to))
  BY NamedAfterMove, ClosedAfterMove DEF Intact, Movable
<1>2. \A p \in DOMAIN Moved(tree, from, to) : \E q \in DOMAIN tree : Moved(tree, from, to)[p] = tree[q]
  BY MovedContents DEF Intact
<1> QED BY <1>1, <1>2 DEF Intact

\* An entry of the journal.
EntryOf(kind, from, to, original) == [kind |-> kind, from |-> from, to |-> to, original |-> original]

LEMMA EntryFields ==
  ASSUME NEW kind \in {"file", "move", "directory"}, NEW from \in Names, NEW to \in Names, to # <<>>,
         NEW original \in Contents
  PROVE /\ EntryOf(kind, from, to, original) \in Entries
        /\ EntryOf(kind, from, to, original).kind = kind
        /\ EntryOf(kind, from, to, original).from = from
        /\ EntryOf(kind, from, to, original).to = to
        /\ EntryOf(kind, from, to, original).original = original
  BY DEF EntryOf, Entries

\* What is pending after a directory was made.
LEMMA PendingAfterMkdir ==
  ASSUME NEW list, NEW tree, Named(tree), NEW at, NEW entries, NextIsMkdir(list, tree, at)
  PROVE \E path \in Names :
          /\ path # <<>> /\ path \notin DOMAIN tree /\ Reachable(tree, path)
          /\ Head(list) = Op("mkdir", <<>>, path, Dir)
          /\ Pending(Tail(list), With(tree, path, Dir), entries, at)
<1>1. PICK path \in Names, n \in Nat, rest \in Seq(Ops) :
        /\ n < Len(path) /\ KnownTo(tree, path, n)
        /\ MoveRest(rest, path, tree, at) \/ FileRest(rest, path)
        /\ Head(list) = Op("mkdir", <<>>, SubSeq(path, 1, n + 1), Dir)
        /\ Tail(list) = Dirs(path, n + 1) \o rest
  BY DEF NextIsMkdir
<1> DEFINE here == SubSeq(path, 1, n + 1)
           next == With(tree, here, Dir)
<1>0. Len(path) \in Nat /\ n + 1 \in 1..Len(path) /\ n + 1 \in (n + 1)..Len(path)
  BY <1>1 DEF Names
<1>2. here \in Names /\ here # <<>> /\ Len(here) = n + 1
  BY <1>0, InitialPaths
<1>3. here \notin DOMAIN tree
  BY <1>0, <1>1 DEF KnownTo
<1>4. Reachable(tree, here)
  <2>1. ASSUME NEW q \in Names, q # <<>>, IsPrefix(q, here), q # here PROVE q \in DOMAIN tree
    <3>1. Len(q) \in 1..(n + 1) /\ q = SubSeq(path, 1, Len(q))
      BY <2>1, <1>0, InitialPaths
    <3>2. Len(q) # n + 1
      BY <2>1, <3>1
    <3> DEFINE k == Len(q)
    <3>3. k \in 1..n
      <4>1. k \in 1..(n + 1) /\ k # n + 1 /\ n \in Nat
        BY <1>1, <3>1, <3>2
      <4> HIDE DEF k
      <4> QED BY <4>1
    <3> QED BY <3>1, <3>3, <1>1 DEF KnownTo
  <2> HIDE DEF here
  <2> QED BY <2>1 DEF Reachable
<1>5. DOMAIN next = DOMAIN tree \cup {here}
  BY DEF With
<1>6. KnownTo(next, path, n + 1)
  <2> HIDE DEF next
  <2>1. ASSUME NEW m \in 1..(n + 1) PROVE SubSeq(path, 1, m) \in DOMAIN next
    <3>1. CASE m = n + 1
      BY <3>1, <1>5
    <3>2. CASE m \in 1..n
      BY <3>2, <1>1, <1>5 DEF KnownTo
    <3>3. m = n + 1 \/ m \in 1..n
      BY <2>1
    <3> QED BY <3>1, <3>2, <3>3
  <2>2. ASSUME NEW m \in ((n + 1) + 1)..Len(path) PROVE SubSeq(path, 1, m) \notin DOMAIN next
    <3>1. m \in (n + 1)..Len(path) /\ m \in 1..Len(path) /\ m # n + 1
      BY <1>0
    <3>2. Len(SubSeq(path, 1, m)) = m
      BY <3>1, InitialPaths
    <3>3. SubSeq(path, 1, m) # here
      BY <3>1, <3>2, <1>2
    <3>4. SubSeq(path, 1, m) \notin DOMAIN tree
      BY <3>1, <1>1 DEF KnownTo
    <3> QED BY <3>3, <3>4, <1>5
  <2> QED BY <2>1, <2>2 DEF KnownTo
<1> HIDE DEF here, next
<1>7. MoveRest(rest, path, next, at) \/ FileRest(rest, path)
  BY <1>1, <1>5 DEF MoveRest
<1>8. MakesDirs(Tail(list), next, at)
  <2>1. n + 1 \in Nat /\ n + 1 <= Len(path)
    BY <1>0
  <2> QED BY <2>1, <1>1, <1>6, <1>7, Zenon DEF MakesDirs
<1>9. Pending(Tail(list), next, entries, at)
  BY <1>8 DEF Pending
<1>10. Head(list) = Op("mkdir", <<>>, here, Dir)
  BY <1>1 DEF here
<1> QED BY <1>2, <1>3, <1>4, <1>9, <1>10, Zenon DEF next

\* Only the installer's own operations run before the application starts.
InstallerStep == CreateDirectory \/ Move \/ SaveFile \/ CopyFile

LEMMA StepsBeforeTheApplication ==
  ASSUME Shape, Undisturbed, ops # <<>>, stage <= LastStage + 1
  PROVE ~(ops = SaveTheSettings) => ~(stage = LastStage + 1 /\ Installs)
  BY DEF Undisturbed

LEMMA StagesAreNumbers ==
  ASSUME Shape
  PROVE stage \in Nat /\ stage # 0 /\ LastStage \in Nat
<1>1. stage \in Nat \ {0}
  BY Zenon DEF Shape
<1>2. Len(CorpusFiles) \in Nat
  BY CorpusIsListed
<1> QED BY <1>1, <1>2 DEF LastStage

LEMMA SourcesStay ==
  ASSUME Sources, Shape, UNCHANGED <<plan, stage>>,
         stage <= 1 /\ Legacy \in DOMAIN fs => Legacy \in DOMAIN fs',
         stage <= 4 /\ OldCorpora \in DOMAIN fs => OldCorpora \in DOMAIN fs',
         stage <= 5 /\ OldProfile \in DOMAIN fs => OldProfile \in DOMAIN fs'
  PROVE Sources'
  BY DEF Sources

LEMMA CreateDirectoryStep ==
  ASSUME Shape, Undisturbed, stage <= LastStage + 1, CreateDirectory
  PROVE Undisturbed'
<1>0. /\ Named(fs) /\ Closed(fs) /\ Intact(fs) /\ Recorded(initial, journal, fs, TRUE)
      /\ Pending(ops, fs, journal, stage) /\ Sources
  BY DEF Undisturbed, Intact
<1>1. /\ ops # <<>> /\ Head(ops).do = "mkdir"
      /\ fs' = With(fs, Head(ops).to, Dir)
      /\ journal' = Append(journal, EntryOf("directory", <<>>, Head(ops).to, Nothing))
      /\ ops' = Tail(ops) /\ initial' = initial /\ plan' = plan /\ stage' = stage
  BY DEF CreateDirectory, Advance, Entry, EntryOf
<1>2. NextIsMkdir(ops, fs, stage) /\ ops # SaveTheSettings
  BY <1>0, <1>1, PendingHead
     DEF NextIsMove, NextIsSave, NextIsCopy, SaveTheSettings, Op
<1>3. PICK path \in Names :
        /\ path # <<>> /\ path \notin DOMAIN fs /\ Reachable(fs, path)
        /\ Head(ops) = Op("mkdir", <<>>, path, Dir)
        /\ Pending(Tail(ops), With(fs, path, Dir), journal', stage)
  BY <1>0, <1>2, PendingAfterMkdir
<1>4. Head(ops).to = path
  BY <1>3 DEF Op
<1> DEFINE next == With(fs, path, Dir)
           entry == EntryOf("directory", <<>>, path, Nothing)
<1>5. Dir \in Contents \ {Nothing} /\ Nothing \in Contents /\ <<>> \in Names
  BY DEF Contents, Dir, Nothing, Names
<1>6. Intact(next)
  BY <1>0, <1>3, <1>5, IntactAfterWith
<1>7. entry \in Entries /\ entry.kind = "directory" /\ entry.to = path /\ entry.original = Nothing
  BY <1>3, <1>5, EntryFields
<1>8. DirectoryReverses(path, next, fs)
  BY <1>0, <1>3, MakeReverses DEF Exists
<1> HIDE DEF entry
<1>9. Reverses(entry, next, fs)
  BY <1>7, <1>8 DEF Reverses
<1>10. \A q \in DOMAIN fs : q \in DOMAIN next /\ next[q] = fs[q]
  BY <1>3 DEF With
<1> HIDE DEF next
<1>11. Recorded(initial, Append(journal, entry), next, TRUE)
  BY <1>0, <1>6, <1>7, <1>9, <1>10, RecordsAStep DEF Intact
<1>12. fs' = next /\ journal' = Append(journal, entry)
  BY <1>1, <1>4 DEF next, entry
<1>18. stage # 1
  BY <1>1 DEF Undisturbed
<1>13. Sources'
  BY <1>0, <1>1, <1>10, <1>12, SourcesStay
<1>14. Pending(ops', fs', journal', stage')
  BY <1>1, <1>3, <1>12 DEF next
<1>15. LastStage' = LastStage /\ (Installs' <=> Installs)
  BY <1>1 DEF LastStage, Installs
<1>16. ~(stage = LastStage + 1 /\ Installs)
  BY <1>1, <1>2, StepsBeforeTheApplication
<1>17. Recorded(initial', journal', fs', TRUE) /\ Intact(fs')
  BY <1>1, <1>6, <1>11, <1>12
<1> QED BY <1>1, <1>13, <1>14, <1>15, <1>16, <1>17, <1>18 DEF Undisturbed

LEMMA MoveStep ==
  ASSUME Shape, Undisturbed, stage <= LastStage + 1, Move
  PROVE Undisturbed'
<1>0. /\ Named(fs) /\ Closed(fs) /\ Intact(fs) /\ Recorded(initial, journal, fs, TRUE)
      /\ Pending(ops, fs, journal, stage) /\ Sources
  BY DEF Undisturbed, Intact
<1>1. /\ ops # <<>> /\ Head(ops).do = "move" /\ ~Exists(fs, Head(ops).to)
      /\ fs' = Moved(fs, Head(ops).from, Head(ops).to)
      /\ journal' = Append(journal, EntryOf("move", Head(ops).from, Head(ops).to, Nothing))
      /\ ops' = Tail(ops) /\ initial' = initial /\ plan' = plan /\ stage' = stage
  BY DEF Move, Advance, Entry, EntryOf
<1>2. NextIsMove(ops, fs, stage) /\ ops # SaveTheSettings
  BY <1>0, <1>1, PendingHead
     DEF NextIsMkdir, NextIsSave, NextIsCopy, SaveTheSettings, Op
<1>3. PICK from, to :
        /\ MoveMade(from, to, stage) /\ from \in DOMAIN fs /\ Reachable(fs, to)
        /\ Head(ops) = Op("move", from, to, Nothing) /\ Tail(ops) = <<>>
  BY <1>2 DEF NextIsMove
<1>4. Head(ops).to = to /\ Head(ops).from = from
  BY <1>3 DEF Op
<1> DEFINE next == Moved(fs, from, to)
           entry == EntryOf("move", from, to, Nothing)
<1>5. Nothing \in Contents /\ from \in Names /\ to \in Names /\ to # <<>>
  BY <1>3 DEF Contents, MoveMade
<1>5a. Movable(fs, from, to)
  BY <1>1, <1>3, <1>4 DEF MoveMade, Movable
<1>6. Intact(next)
  BY <1>0, <1>3, <1>5a, IntactAfterMove
<1>7. /\ entry \in Entries /\ entry.kind = "move" /\ entry.to = to /\ entry.from = from
      /\ entry.original = Nothing
  BY <1>5, EntryFields
<1>8. MoveReverses(from, to, next, fs)
  BY <1>0, <1>5a, MakesAMove
<1> HIDE DEF entry
<1>9. Reverses(entry, next, fs)
  BY <1>7, <1>8 DEF Reverses
<1>10. /\ \A q \in DOMAIN fs : \E r \in DOMAIN next : next[r] = fs[q]
       /\ \A q \in DOMAIN fs : ~IsPrefix(from, q) => q \in DOMAIN next
  BY <1>0, <1>5a, MovedContents
<1> HIDE DEF next
<1>11. Recorded(initial, Append(journal, entry), next, TRUE)
  BY <1>0, <1>6, <1>7, <1>9, <1>10, RecordsAStep DEF Intact
<1>12. fs' = next /\ journal' = Append(journal, entry)
  BY <1>1, <1>4 DEF next, entry
<1>18. stage # 1
  BY <1>1 DEF Undisturbed
<1>13. Sources'
  <2>1. stage <= 4 /\ OldCorpora \in DOMAIN fs => OldCorpora \in DOMAIN next
    BY <1>3, <1>10 DEF MoveMade
  <2>2. stage <= 5 /\ OldProfile \in DOMAIN fs => OldProfile \in DOMAIN next
    BY <1>3, <1>10 DEF MoveMade
  <2>3. ~(stage <= 1)
    BY <1>18, StagesAreNumbers
  <2> QED BY <1>0, <1>1, <1>12, <2>1, <2>2, <2>3, SourcesStay
<1>14. Pending(ops', fs', journal', stage')
  BY <1>1, <1>3 DEF Pending
<1>15. LastStage' = LastStage /\ (Installs' <=> Installs)
  BY <1>1 DEF LastStage, Installs
<1>16. ~(stage = LastStage + 1 /\ Installs)
  BY <1>1, <1>2, StepsBeforeTheApplication
<1>17. Recorded(initial', journal', fs', TRUE) /\ Intact(fs')
  BY <1>1, <1>6, <1>11, <1>12
<1> QED BY <1>1, <1>13, <1>14, <1>15, <1>16, <1>17, <1>18 DEF Undisturbed

LEMMA SaveFileStep ==
  ASSUME Shape, Undisturbed, stage <= LastStage + 1, SaveFile
  PROVE Undisturbed'
<1>0. /\ Named(fs) /\ Closed(fs) /\ Intact(fs) /\ Recorded(initial, journal, fs, TRUE)
      /\ Pending(ops, fs, journal, stage) /\ Sources /\ journal \in Seq(Entries)
  BY DEF Undisturbed, Intact, Recorded
<1> DEFINE to == Head(ops).to
           entry == EntryOf("file", <<>>, to, At(to))
<1>1. /\ ops # <<>> /\ Head(ops).do = "save" /\ fs' = fs
      /\ journal' = Append(journal, entry)
      /\ ops' = Tail(ops) /\ initial' = initial /\ plan' = plan /\ stage' = stage
  BY DEF SaveFile, Advance, Entry, EntryOf
<1>2. NextIsSave(ops, fs) \/ ops = SaveTheSettings
  BY <1>0, <1>1, PendingHead DEF NextIsMkdir, NextIsMove, NextIsCopy, Op
<1>3. /\ to \in Names /\ to # <<>>
      /\ ops = SaveTheSettings => to = Settings /\ Tail(ops) = <<>>
  <2>1. CASE NextIsSave(ops, fs)
    <3>0. PICK other \in Names, content \in Contents \ {Nothing} :
            /\ other # <<>>
            /\ Head(ops) = Op("save", <<>>, other, Nothing)
            /\ Tail(ops) = <<Op("copy", <<>>, other, content)>>
      BY <2>1 DEF NextIsSave
    <3>1. to \in Names /\ to # <<>> /\ Tail(ops) # <<>>
      BY <3>0 DEF Op
    <3>2. SaveTheSettings # <<>> /\ Tail(SaveTheSettings) = <<>>
      BY DEF SaveTheSettings
    <3> QED BY <3>1, <3>2
  <2>2. CASE ops = SaveTheSettings
    <3>1. to = Settings /\ Tail(ops) = <<>>
      BY <2>2 DEF SaveTheSettings, Op
    <3>2. Settings \in Names /\ Settings # <<>>
      <4>1. Settings \in Names /\ Len(Settings) = 4
        BY InnerPlaces DEF Path4
      <4>2. \A p \in Names : Len(p) = 4 => p # <<>>
        BY DEF Names
      <4> QED BY <4>1, <4>2
    <3> QED BY <3>1, <3>2
  <2> QED BY <1>2, <2>1, <2>2
<1>4. At(to) \in Contents /\ At(to) = IF Exists(fs, to) THEN fs[to] ELSE Nothing
  BY <1>0 DEF At, Intact, Exists, Contents
<1>5. <<>> \in Names
  BY DEF Names
<1> HIDE DEF to
<1>6. entry \in Entries /\ entry.kind = "file" /\ entry.to = to /\ entry.original = At(to)
  BY <1>3, <1>4, <1>5, EntryFields
<1>7. FileReverses(to, At(to), fs, fs)
  BY <1>0, <1>3, <1>4, SaveReverses DEF Intact
<1> HIDE DEF entry
<1>8. Reverses(entry, fs, fs)
  BY <1>6, <1>7 DEF Reverses
<1>9. Recorded(initial, Append(journal, entry), fs, TRUE)
  BY <1>0, <1>6, <1>8, RecordsAStep
<1>10. Saved(journal', to)
  <2>1. Append(journal, entry) # <<>> /\ Append(journal, entry)[Len(Append(journal, entry))] = entry
    BY <1>0, <1>6, AppendProperties
  <2> QED BY <2>1, <1>1, <1>6 DEF Saved
<1>11. Pending(ops', fs', journal', stage')
  <2>1. CASE NextIsSave(ops, fs)
    <3>1. PICK other \in Names, content \in Contents \ {Nothing} :
            /\ Reachable(fs, other)
            /\ Head(ops) = Op("save", <<>>, other, Nothing)
            /\ Tail(ops) = <<Op("copy", <<>>, other, content)>>
      BY <2>1 DEF NextIsSave
    <3>2. to = other
      BY <3>1 DEF Op, to
    <3>3. Copies(ops', fs', journal')
      BY <3>1, <3>2, <1>1, <1>10 DEF Copies
    <3> QED BY <3>3 DEF Pending
  <2>2. CASE ops = SaveTheSettings
    BY <2>2, <1>1, <1>3 DEF Pending
  <2> QED BY <1>2, <2>1, <2>2
<1>12. stage # 1
  BY <1>1 DEF Undisturbed
<1>13. Sources'
  BY <1>0, <1>1, SourcesStay
<1>14. LastStage' = LastStage /\ (Installs' <=> Installs)
  BY <1>1 DEF LastStage, Installs
<1>15. stage = LastStage + 1 /\ Installs => ops = SaveTheSettings
  BY <1>1, StepsBeforeTheApplication
<1>16. Recorded(initial', journal', fs', TRUE) /\ Intact(fs')
  BY <1>0, <1>1, <1>9
<1>17. ops = SaveTheSettings => ops' = <<>> /\ Saved(journal', Settings)
  BY <1>1, <1>3, <1>10
<1> QED BY <1>1, <1>11, <1>12, <1>13, <1>14, <1>15, <1>16, <1>17 DEF Undisturbed

LEMMA CopyFileStep ==
  ASSUME Shape, Undisturbed, stage <= LastStage + 1, CopyFile
  PROVE Undisturbed'
<1>0. /\ Named(fs) /\ Closed(fs) /\ Intact(fs) /\ Recorded(initial, journal, fs, TRUE)
      /\ Pending(ops, fs, journal, stage) /\ Sources
  BY DEF Undisturbed, Intact
<1>1. /\ ops # <<>> /\ Head(ops).do = "copy"
      /\ fs' = With(fs, Head(ops).to, Head(ops).content)
      /\ journal' = journal
      /\ ops' = Tail(ops) /\ initial' = initial /\ plan' = plan /\ stage' = stage
  BY DEF CopyFile, Advance
<1>2. NextIsCopy(ops, fs, journal) /\ ops # SaveTheSettings
  BY <1>0, <1>1, PendingHead DEF NextIsMkdir, NextIsMove, NextIsSave, SaveTheSettings, Op
<1>3. PICK to \in Names, content \in Contents \ {Nothing} :
        /\ Reachable(fs, to) /\ Saved(journal, to)
        /\ Head(ops) = Op("copy", <<>>, to, content) /\ Tail(ops) = <<>>
  BY <1>2 DEF NextIsCopy
<1>4. Head(ops).to = to /\ Head(ops).content = content
  BY <1>3 DEF Op
<1> DEFINE next == With(fs, to, content)
<1>5. Intact(next)
  BY <1>0, <1>3, IntactAfterWith
<1>6. Recorded(initial, journal, next, TRUE)
  BY <1>0, <1>3, RecordsACopy DEF Saved
<1>7. \A q \in DOMAIN fs : q \in DOMAIN next
  BY DEF With
<1> HIDE DEF next
<1>8. fs' = next
  BY <1>1, <1>4 DEF next
<1>9. stage # 1
  BY <1>1 DEF Undisturbed
<1>10. Sources'
  BY <1>0, <1>1, <1>7, <1>8, SourcesStay
<1>11. Pending(ops', fs', journal', stage')
  BY <1>1, <1>3 DEF Pending
<1>12. LastStage' = LastStage /\ (Installs' <=> Installs)
  BY <1>1 DEF LastStage, Installs
<1>13. ~(stage = LastStage + 1 /\ Installs)
  BY <1>1, <1>2, StepsBeforeTheApplication
<1>14. Recorded(initial', journal', fs', TRUE) /\ Intact(fs')
  BY <1>1, <1>5, <1>6, <1>8
<1> QED BY <1>1, <1>9, <1>10, <1>11, <1>12, <1>13, <1>14 DEF Undisturbed

LEMMA BeginStep ==
  ASSUME Shape, Undisturbed, Begin
  PROVE Undisturbed' /\ stage' <= LastStage + 1 /\ Shape'
<1>0. /\ Intact(fs) /\ Recorded(initial, journal, fs, TRUE) /\ Sources
  BY DEF Undisturbed
<1>1. /\ ops = <<>> /\ stage <= LastStage /\ ops' = Statement(stage) /\ stage' = stage + 1
      /\ fs' = fs /\ initial' = initial /\ plan' = plan /\ journal' = journal /\ phase' = phase
  BY DEF Begin
<1>2. stage \in Nat /\ stage # 0 /\ LastStage \in Nat
  BY StagesAreNumbers
<1>3. /\ Pending(Statement(stage), fs, journal, stage + 1)
      /\ stage = LastStage /\ Installs => Statement(stage) = SaveTheSettings
  BY <1>1, StatementPending
<1>4. LastStage' = LastStage /\ (Installs' <=> Installs)
  BY <1>1 DEF LastStage, Installs
<1>5. Sources'
  BY <1>0, <1>1, <1>2 DEF Sources
<1>6. stage' # 1 /\ stage' <= LastStage + 1
  BY <1>1, <1>2
<1>7. Shape'
  <2>1. stage' \in Nat \ {0}
    BY <1>1, <1>2
  <2> QED BY <2>1, <1>1, Zenon DEF Shape
<1>8. stage' = LastStage' + 1 /\ Installs' => ops' = SaveTheSettings
  BY <1>1, <1>2, <1>3, <1>4
<1>9. Pending(ops', fs', journal', stage')
  BY <1>1, <1>3
<1>10. Recorded(initial', journal', fs', TRUE) /\ Intact(fs')
  BY <1>0, <1>1
<1> QED BY <1>4, <1>5, <1>6, <1>7, <1>8, <1>9, <1>10 DEF Undisturbed

\* What was found, with the recovery directory, is recorded by an empty journal.
LEMMA NothingIsJournalledYet ==
  ASSUME NEW found, FileSystem(found)
  PROVE Recorded(found, <<>>, With(found, Recovery, Dir), TRUE)
<1> DEFINE first == With(found, Recovery, Dir)
           trees == [k \in 1..1 |-> first]
<1>1. Named(first)
  BY FoundIsClosed, RecoveryIsAPath, NamedAfterWith
<1>2. /\ DOMAIN first = DOMAIN found \cup {Recovery}
      /\ \A p \in DOMAIN found : p # Recovery => first[p] = found[p]
  BY DEF With
<1>3. Recovery \notin DOMAIN found
  BY FoundIsClosed
<1> HIDE DEF first
<1>4. trees[1] = first
  OBVIOUS
<1> HIDE DEF trees
<1>5. Kept(found, <<>>, 1, first)
  BY <1>2, <1>3 DEF Kept
<1>6. Same(first, first) /\ Covers(first, first)
  BY <1>1 DEF Same, Covers
<1>7. Len(<<>>) = 0 /\ <<>> \in Seq(Entries)
  OBVIOUS
<1>8. History(found, <<>>, trees)
  <2>1. Same(trees[1], With(found, Recovery, Dir))
    BY <1>4, <1>6 DEF first
  <2>2. \A k \in 1..(0 + 1) : Named(trees[k]) /\ Kept(found, <<>>, k, trees[k])
    BY <1>1, <1>4, <1>5
  <2> QED BY <2>1, <2>2, <1>7 DEF History
<1>9. Covers(first, trees[Len(<<>>) + 1]) /\ Same(first, trees[Len(<<>>) + 1])
  BY <1>4, <1>6, <1>7
<1> QED BY <1>7, <1>8, <1>9, Zenon DEF Recorded, first

LEMMA InstallationStarts ==
  ASSUME InstallInit
  PROVE Shape /\ Undisturbed /\ stage <= LastStage + 1 /\ phase = "running"
<1>1. PICK tree \in Trees, candidate \in Candidates \cup {NoCandidate},
           available \in SUBSET ToSet(CorpusFiles) :
        /\ initial = tree /\ fs = With(tree, Recovery, Dir)
        /\ plan = PlanOf(tree, candidate, available)
        /\ stage = 1 /\ ops = <<>> /\ journal = <<>> /\ phase = "running"
  BY DEF InstallInit
<1>2. FileSystem(tree)
  BY <1>1, InstallationAssumption
<1>3. /\ Named(tree) /\ Closed(tree) /\ Recovery \notin DOMAIN tree
      /\ \A p \in DOMAIN tree : tree[p] \notin {AppDir, AppFile, Nothing}
  BY <1>2, FoundIsClosed
<1>4. Recovery \in Names /\ Recovery # <<>>
  BY RecoveryIsAPath
<1>5. /\ DOMAIN fs = DOMAIN tree \cup {Recovery} /\ fs[Recovery] = Dir
      /\ \A p \in DOMAIN tree : p # Recovery => fs[p] = tree[p]
  BY <1>1 DEF With
<1>6. Reachable(tree, Recovery)
  <2>1. ASSUME NEW q \in Names, q # <<>>, IsPrefix(q, Recovery), q # Recovery PROVE FALSE
    <3>1. Len(Recovery) = 1 /\ Recovery[1] = "desktop-install"
      BY DEF Recovery
    <3>2. Len(q) \in 1..Len(Recovery) /\ q = SubSeq(Recovery, 1, Len(q))
      BY <2>1, <1>4, PrefixIsInitial
    <3>3. Len(q) = 1 /\ q[1] = Recovery[1]
      BY <2>1, <3>1, <3>2, <1>4, PrefixByName
    <3> QED BY <2>1, <3>1, <3>3, <1>4, SeqEqual DEF Names
  <2> QED BY <2>1 DEF Reachable
<1>7. Intact(fs)
  <2>1. Named(fs) /\ Closed(fs)
    BY <1>1, <1>3, <1>4, <1>6, NamedAfterWith, ClosedAfterWith
  <2>2. ASSUME NEW p \in DOMAIN fs PROVE fs[p] \in Contents /\ fs[p] # Nothing
    <3>1. CASE p = Recovery
      BY <3>1, <1>5 DEF Contents, Dir, Nothing
    <3>2. CASE p \in DOMAIN tree /\ p # Recovery
      <4>1. fs[p] = tree[p] /\ fs[p] # Nothing
        BY <3>2, <1>3, <1>5
      <4>2. tree[p] \in UNION {Range(t) : t \in Trees}
        BY <3>2, <1>1 DEF Range
      <4> QED BY <4>1, <4>2 DEF Contents
    <3> QED BY <2>2, <3>1, <3>2, <1>5
  <2> QED BY <2>1, <2>2 DEF Intact
<1>8. Recorded(initial, journal, fs, TRUE)
  BY <1>1, <1>2, NothingIsJournalledYet
<1>9. Sources
  <2>1. /\ plan.moveInstall => Legacy \in DOMAIN tree
        /\ plan.moveCorpora => OldCorpora \in DOMAIN tree
        /\ plan.moveProfile => OldProfile \in DOMAIN tree
    BY <1>1 DEF PlanOf, MovesProfile, Exists
  <2> QED BY <2>1, <1>5 DEF Sources
<1>10. plan.candidate = candidate
  BY <1>1 DEF PlanOf
<1>11. Shape
  <2>1. initial \in Trees /\ stage \in Nat \ {0} /\ phase = "running"
    BY <1>1
  <2> QED BY <2>1, <1>10, Zenon DEF Shape
<1>12. LastStage \in Nat /\ stage # LastStage + 1 /\ stage <= LastStage + 1
  BY CorpusIsListed, <1>1 DEF LastStage
<1>13. Pending(ops, fs, journal, stage)
  BY <1>1 DEF Pending
<1> QED BY <1>1, <1>7, <1>8, <1>9, <1>11, <1>12, <1>13, Zenon DEF Undisturbed

LEMMA RecordedExactly ==
  ASSUME NEW found, NEW entries, NEW tree, Recorded(found, entries, tree, TRUE)
  PROVE Recorded(found, entries, tree, FALSE)
  BY DEF Recorded

\* An exception before the application starts, and a copy that stops halfway.
LEMMA CopyBreaksStep ==
  ASSUME Undisturbed, CopyBreaks
  PROVE Recorded(initial', journal', fs', FALSE)
<1>0. Recorded(initial, journal, fs, TRUE) /\ Pending(ops, fs, journal, stage)
  BY DEF Undisturbed
<1>1. /\ ops # <<>> /\ Head(ops).do = "copy"
      /\ fs' = With(fs, Head(ops).to, Damaged) /\ journal' = journal /\ initial' = initial
  BY DEF CopyBreaks, Undo
<1>2. NextIsCopy(ops, fs, journal)
  BY <1>0, <1>1, PendingHead DEF NextIsMkdir, NextIsMove, NextIsSave, SaveTheSettings, Op
<1>3. PICK to \in Names, content \in Contents \ {Nothing} :
        Saved(journal, to) /\ Head(ops) = Op("copy", <<>>, to, content)
  BY <1>2 DEF NextIsCopy
<1>4. Head(ops).to = to
  BY <1>3 DEF Op
<1>5. Recorded(initial, journal, With(fs, to, Damaged), TRUE)
  BY <1>0, <1>3, RecordsACopy DEF Saved
<1> QED BY <1>1, <1>4, <1>5, RecordedExactly

\* The application only adds, except to settings that were saved.
LEMMA ActivateStep ==
  ASSUME Shape, Undisturbed, Activate
  PROVE Recorded(initial', journal', fs', FALSE)
<1>0. /\ Named(fs) /\ Closed(fs) /\ Recorded(initial, journal, fs, TRUE)
      /\ stage = LastStage + 1 /\ Installs =>
           ops = SaveTheSettings \/ (ops = <<>> /\ Saved(journal, Settings))
  BY DEF Undisturbed, Intact
<1>1. PICK relocates \in BOOLEAN, leaves \in BOOLEAN :
        /\ relocates => Exists(fs, Settings)
        /\ leaves => ~Exists(fs, WebView)
        /\ fs' = Started(relocates, leaves)
  BY DEF Activate
<1>2. ops = <<>> /\ stage = LastStage + 1 /\ Installs /\ journal' = journal /\ initial' = initial
  BY DEF Activate, Installs, Undo
<1>3. Saved(journal, Settings)
  BY <1>0, <1>2 DEF SaveTheSettings
<1>4. /\ UserData \in Names /\ Settings \in Names /\ WebView \in Names
      /\ ByTheApplication(UserData) /\ ByTheApplication(WebView)
      /\ UserData # <<>> /\ Settings # WebView /\ Settings # UserData /\ WebView # UserData
  <2>1. /\ Path3(UserData, "TajemnikTV", "TajsAnagrams", "user-data")
        /\ Path4(Settings, "TajemnikTV", "TajsAnagrams", "user-data", "settings.json")
        /\ Path4(WebView, "TajemnikTV", "TajsAnagrams", "user-data", "EBWebView")
    BY InnerPlaces, Zenon
  <2>2. /\ Settings # WebView /\ Settings # UserData /\ WebView # UserData
        /\ UserData \in Names /\ Settings \in Names /\ WebView \in Names
    BY <2>1 DEF Path3, Path4
  <2>3. ByTheApplication(UserData) /\ ByTheApplication(WebView)
    BY <2>1 DEF Path3, Path4, ByTheApplication, Last
  <2>4. UserData # <<>>
    BY <2>2, <2>3 DEF ByTheApplication
  <2> QED BY <2>2, <2>3, <2>4
<1>5. IsPrefix(UserData, Settings)
  <2>1. /\ Path3(UserData, "TajemnikTV", "TajsAnagrams", "user-data")
        /\ Path4(Settings, "TajemnikTV", "TajsAnagrams", "user-data", "settings.json")
    BY InnerPlaces, Zenon
  <2>2. Len(UserData) <= Len(Settings) /\ \A i \in 1..Len(UserData) : UserData[i] = Settings[i]
    <3>1. Len(UserData) = 3 /\ Len(Settings) = 4
      BY <2>1 DEF Path3, Path4
    <3>2. \A i \in 1..3 : UserData[i] = Settings[i]
      BY <2>1 DEF Path3, Path4
    <3> QED BY <3>1, <3>2
  <2>3. UserData \in Names /\ Settings \in Names
    BY <1>4
  <2> QED BY <2>2, <2>3, PrefixByName, Zenon
<1>6. relocates => Settings \in DOMAIN fs /\ UserData \in DOMAIN fs
  BY <1>0, <1>1, <1>4, <1>5 DEF Exists, Closed
<1> DEFINE base == IF relocates THEN With(fs, Settings, AppFile) ELSE fs
           data == IF Exists(fs, UserData) THEN fs ELSE With(fs, UserData, AppDir)
           relocated == IF relocates THEN With(data, Settings, AppFile) ELSE data
           started == IF leaves THEN With(relocated, WebView, AppFile) ELSE relocated
<1>7. Recorded(initial, journal, base, TRUE)
  <2>1. Recorded(initial, journal, With(fs, Settings, AppFile), TRUE)
    BY <1>0, <1>3, <1>4, RecordsACopy DEF Saved
  <2> QED BY <2>1, <1>0
<1>8. fs' = started
  BY <1>1 DEF Started
<1>9. Named(started)
  <2>1. Named(data)
    BY <1>0, <1>4, NamedAfterWith
  <2> HIDE DEF data
  <2>2. Named(relocated)
    BY <2>1, <1>4, NamedAfterWith
  <2> HIDE DEF relocated
  <2> QED BY <2>2, <1>4, NamedAfterWith
<1>10. \A p \in DOMAIN base : p \in DOMAIN data /\ relocated[p] = base[p] /\ p \in DOMAIN relocated
  BY <1>6 DEF Exists, With
<1>11. \A p \in DOMAIN relocated : p \notin DOMAIN base => p = UserData /\ relocated[p] = AppDir
  BY <1>6 DEF Exists, With
<1>12. leaves => WebView \notin DOMAIN base
  BY <1>1, <1>4, <1>6 DEF Exists, With
<1> HIDE DEF data, relocated
<1>13. /\ \A p \in DOMAIN base : p \in DOMAIN started /\ started[p] = base[p]
       /\ \A p \in DOMAIN started : p \notin DOMAIN base =>
            \/ p = UserData /\ started[p] = AppDir
            \/ p = WebView /\ started[p] = AppFile
  <2>1. CASE leaves
    <3>1. /\ DOMAIN started = DOMAIN relocated \cup {WebView} /\ started[WebView] = AppFile
          /\ \A p \in DOMAIN relocated : p # WebView => started[p] = relocated[p]
      BY <2>1 DEF With
    <3> HIDE DEF base, started
    <3> QED BY <2>1, <3>1, <1>10, <1>11, <1>12
  <2>2. CASE ~leaves
    <3>1. started = relocated
      BY <2>2
    <3> HIDE DEF base, started
    <3> QED BY <3>1, <1>10, <1>11
  <2> QED BY <2>1, <2>2, <1>1
<1> HIDE DEF base, started
<1>14. Covers(started, base)
  BY <1>4, <1>9, <1>13 DEF Covers
<1>15. Recorded(initial, journal, started, FALSE)
  BY <1>7, <1>14, RecordsWhatIsLeft
<1> QED BY <1>2, <1>8, <1>15

-----------------------------------------------------------------------------
(* Undoing the journal *)

LEMMA LastEntry ==
  ASSUME Recorded(initial, journal, fs, FALSE), Undoing
  PROVE /\ NextUndo[1] = journal[Len(journal)] /\ NextUndo[2] = Front(journal)
        /\ Last(journal) = journal[Len(journal)] /\ journal # <<>>
        /\ journal[Len(journal)] \in Entries
<1>1. journal # <<>> /\ journal \in Seq(Entries)
  BY DEF Recorded, Undoing
<1>2. Len(journal) \in 1..Len(journal)
  BY <1>1
<1> QED BY <1>1, <1>2 DEF NextUndo, Last

LEMMA RestoreFileStep ==
  ASSUME Recorded(initial, journal, fs, FALSE), RestoreFile
  PROVE Recorded(initial', journal', fs', FALSE)
<1> DEFINE entry == journal[Len(journal)]
           next == IF entry.original # Nothing THEN With(fs, entry.to, entry.original)
                                               ELSE Without(fs, entry.to)
<1>1. Undoing
  BY DEF RestoreFile
<1>2. NextUndo[1] = entry /\ NextUndo[2] = Front(journal) /\ journal # <<>> /\ entry \in Entries
  BY <1>1, LastEntry
<1>3. /\ entry.kind = "file" /\ fs' = next /\ journal' = Front(journal) /\ initial' = initial
  BY <1>2 DEF RestoreFile
<1>4. entry.to \in Names
  BY <1>2 DEF Entries
<1>5. ASSUME NEW later, NEW earlier, Reverses(entry, later, earlier), Covers(fs, later)
      PROVE Covers(next, earlier)
  <2>1. FileReverses(entry.to, entry.original, later, earlier)
    BY <1>3, <1>5 DEF Reverses
  <2> HIDE DEF entry
  <2> QED BY <2>1, <1>4, <1>5, FileGoesBack
<1> HIDE DEF next
<1>6. Recorded(initial, Front(journal), next, FALSE)
  BY <1>2, <1>5, RecordsAnUndo
<1> QED BY <1>3, <1>6

LEMMA MoveBackStep ==
  ASSUME Recorded(initial, journal, fs, FALSE), MoveBack
  PROVE Recorded(initial', journal', fs', FALSE)
<1> DEFINE entry == journal[Len(journal)]
           next == Moved(fs, entry.to, entry.from)
<1>1. Undoing
  BY DEF MoveBack
<1>2. NextUndo[1] = entry /\ NextUndo[2] = Front(journal) /\ journal # <<>> /\ entry \in Entries
  BY <1>1, LastEntry
<1>3. /\ entry.kind = "move" /\ fs' = next /\ journal' = Front(journal) /\ initial' = initial
  BY <1>2 DEF MoveBack
<1>4. entry.to \in Names /\ entry.from \in Names
  BY <1>2 DEF Entries
<1>5. ASSUME NEW later, NEW earlier, Named(later), Named(earlier), Reverses(entry, later, earlier),
             Covers(fs, later)
      PROVE Covers(next, earlier)
  <2>1. MoveReverses(entry.from, entry.to, later, earlier)
    BY <1>3, <1>5 DEF Reverses
  <2> HIDE DEF entry
  <2> QED BY <2>1, <1>4, <1>5, MoveGoesBack
<1> HIDE DEF next
<1>6. Recorded(initial, Front(journal), next, FALSE)
  BY <1>2, <1>5, RecordsAnUndo
<1> QED BY <1>3, <1>6

LEMMA RemoveDirectoryStep ==
  ASSUME Recorded(initial, journal, fs, FALSE), RemoveDirectory
  PROVE Recorded(initial', journal', fs', FALSE)
<1> DEFINE entry == journal[Len(journal)]
           next == Without(fs, entry.to)
<1>1. Undoing
  BY DEF RemoveDirectory
<1>2. NextUndo[1] = entry /\ NextUndo[2] = Front(journal) /\ journal # <<>> /\ entry \in Entries
  BY <1>1, LastEntry
<1>3. /\ entry.kind = "directory" /\ fs' = next /\ journal' = Front(journal) /\ initial' = initial
  BY <1>2 DEF RemoveDirectory
<1>4. entry.to \in Names
  BY <1>2 DEF Entries
<1>5. ASSUME NEW later, NEW earlier, Reverses(entry, later, earlier), Covers(fs, later)
      PROVE Covers(next, earlier)
  <2>1. DirectoryReverses(entry.to, later, earlier)
    BY <1>3, <1>5 DEF Reverses
  <2> HIDE DEF entry
  <2> QED BY <2>1, <1>4, <1>5, DirectoryGoesBack
<1> HIDE DEF next
<1>6. Recorded(initial, Front(journal), next, FALSE)
  BY <1>2, <1>5, RecordsAnUndo
<1> QED BY <1>3, <1>6

\* What an entry that cannot be undone runs into is the application's.
LEMMA BlockedStep ==
  ASSUME Recorded(initial, journal, fs, FALSE), Blocked
  PROVE BlockedOnlyByTheApplication'
<1> DEFINE n == Len(journal)
           entry == journal[n]
<1>1. Undoing /\ ~Undoable(NextUndo[1]) /\ fs' = fs /\ journal' = journal
  BY DEF Blocked
<1>2. /\ NextUndo[1] = entry /\ Last(journal) = entry /\ journal # <<>> /\ entry \in Entries
      /\ journal \in Seq(Entries)
  BY <1>1, LastEntry DEF Recorded
<1>3. PICK trees : /\ History(initial, journal, trees)
                   /\ Covers(fs, trees[n + 1])
  BY DEF Recorded
<1>4. Reverses(entry, trees[n + 1], trees[n])
  <2>1. n \in 1..n
    BY <1>2
  <2> QED BY <2>1, <1>3 DEF History
<1>5. entry.to \in Names /\ entry.from \in Names /\ entry.kind \in {"file", "move", "directory"}
  BY <1>2 DEF Entries
<1> DEFINE later == trees[n + 1]
           to == entry.to
           from == entry.from
<1>6. /\ Covers(fs, later) /\ Reverses(entry, later, trees[n])
  BY <1>3, <1>4
<1> HIDE DEF later, n
<1>7. entry.kind # "file"
  BY <1>1, <1>2, Zenon DEF Undoable
<1>8. entry.kind # "move"
  <2>1. ASSUME entry.kind = "move" PROVE FALSE
    <3>1. MoveReverses(from, to, later, trees[n])
      BY <2>1, <1>6 DEF Reverses
    <3>2. ~(Exists(fs, to) /\ ~Exists(fs, from))
      BY <2>1, <1>1, <1>2 DEF Undoable
    <3>3. to \in DOMAIN later /\ ~ByTheApplication(from) /\ \A p \in DOMAIN later : ~IsPrefix(from, p)
      BY <3>1 DEF MoveReverses
    <3> HIDE DEF to, from
    <3>4. to \in DOMAIN fs
      BY <1>6, <3>3 DEF Covers
    <3>5. from \in DOMAIN fs
      BY <3>2, <3>4 DEF Exists
    <3>6. from \in DOMAIN later
      BY <1>6, <3>3, <3>5 DEF Covers
    <3>7. IsPrefix(from, from)
      BY <1>5, PrefixOrder DEF from
    <3> QED BY <3>3, <3>6, <3>7
  <2> QED BY <2>1
<1>9. entry.kind = "directory"
  BY <1>5, <1>7, <1>8
<1>10. \A p \in DOMAIN later : IsPrefix(to, p) => p = to
  BY <1>6, <1>9 DEF Reverses, DirectoryReverses
<1>11. ASSUME NEW p \in Below(fs, to) \ {to} PROVE fs[p] \in {AppDir, AppFile}
  <2>1. p \in DOMAIN fs /\ IsPrefix(to, p) /\ p # to
    BY DEF Below
  <2>2. p \notin DOMAIN later
    BY <2>1, <1>10
  <2> QED BY <2>1, <2>2, <1>6 DEF Covers
<1>12. Last(journal').kind = "directory" /\ Last(journal').to = to
  BY <1>1, <1>2, <1>9
<1> HIDE DEF to, entry
<1> QED BY <1>1, <1>11, <1>12 DEF BlockedOnlyByTheApplication

LEMMA UndoBreaksStep ==
  ASSUME Recorded(initial, journal, fs, FALSE), UndoBreaks, NEW p \in DOMAIN initial
  PROVE initial[p] \in Range(fs') \cup Snapshots(journal)
<1> DEFINE n == Len(journal)
           entry == journal[n]
<1>1. Undoing
  BY DEF UndoBreaks
<1>2. NextUndo[1] = entry /\ journal # <<>> /\ entry \in Entries /\ journal \in Seq(Entries)
  BY <1>1, LastEntry DEF Recorded
<1>3. fs' = IF entry.original # Nothing THEN With(fs, entry.to, Damaged) ELSE fs
  BY <1>2 DEF UndoBreaks
<1> DEFINE snapshots == Snapshots(journal)
<1>4. CASE entry.original = Nothing
  <2>1. initial[p] \in Range(fs) \cup snapshots
    BY RecordedIsKept
  <2>2. fs' = fs
    BY <1>3, <1>4
  <2> HIDE DEF snapshots
  <2>3. initial[p] \in Range(fs') \cup snapshots
    BY <2>1, <2>2
  <2> QED BY <2>3 DEF snapshots
<1>5. CASE entry.original # Nothing
  <2>1. PICK trees : History(initial, journal, trees)
    BY DEF Recorded
  <2>2. Reverses(entry, trees[n + 1], trees[n])
    <3>1. n \in 1..n
      BY <1>2
    <3> QED BY <3>1, <2>1 DEF History
  <2>3. entry.kind = "file"
    BY <2>2, <1>5 DEF Reverses
  <2>4. initial[p] \in Range(With(fs, entry.to, Damaged)) \cup snapshots
    BY <1>2, <2>3, HalfRestoredIsKept
  <2>5. fs' = With(fs, entry.to, Damaged)
    BY <1>3, <1>5
  <2> HIDE DEF snapshots, entry
  <2>6. initial[p] \in Range(fs') \cup snapshots
    BY <2>4, <2>5
  <2> QED BY <2>6 DEF snapshots
<1> QED BY <1>4, <1>5

-----------------------------------------------------------------------------
(* The inductive invariant *)

\* A file of the user is in the file system or in a snapshot.
KeptUntilTheCommit ==
  \A p \in DOMAIN initial : initial[p] \in Range(fs) \cup Snapshots(journal)

\* Wherever the installation stands, the journal leads back to what was found.
Undoes ==
  /\ phase = "running" /\ stage <= LastStage + 1 => Undisturbed
  /\ phase = "running" /\ ~(stage <= LastStage + 1) =>
       ops = <<>> /\ Recorded(initial, journal, fs, FALSE)
  /\ phase = "undoing" => Recorded(initial, journal, fs, FALSE)
  /\ phase # "committed" => KeptUntilTheCommit

InstallInv == Shape /\ Undoes /\ RollbackRestores /\ BlockedOnlyByTheApplication

LEMMA KeptWhileRecorded ==
  ASSUME Recorded(initial, journal, fs, FALSE)
  PROVE KeptUntilTheCommit
  BY RecordedIsKept, Zenon DEF KeptUntilTheCommit

\* While it runs, or undoes, only this of the invariant is at stake.
LEMMA StillRunning ==
  ASSUME Shape', phase' = "running", stage' <= LastStage + 1, Undisturbed'
  PROVE InstallInv'
<1>1. Recorded(initial', journal', fs', FALSE)
  BY RecordedExactly DEF Undisturbed
<1>2. KeptUntilTheCommit'
  BY <1>1, RecordedIsKept, Zenon DEF KeptUntilTheCommit
<1>3. LastStage' = LastStage
  BY DEF LastStage
<1>4. Undoes'
  BY <1>2, <1>3 DEF Undoes
<1>5. RollbackRestores' /\ BlockedOnlyByTheApplication'
  BY DEF RollbackRestores, BlockedOnlyByTheApplication
<1> QED BY <1>4, <1>5 DEF InstallInv

LEMMA StillUndoable ==
  ASSUME Shape', Recorded(initial', journal', fs', FALSE),
         \/ phase' = "undoing"
         \/ phase' = "running" /\ ~(stage' <= LastStage + 1) /\ ops' = <<>>
  PROVE InstallInv'
<1>1. KeptUntilTheCommit'
  BY RecordedIsKept, Zenon DEF KeptUntilTheCommit
<1>2. LastStage' = LastStage
  BY DEF LastStage
<1>3. Undoes'
  BY <1>1, <1>2 DEF Undoes
<1>4. RollbackRestores' /\ BlockedOnlyByTheApplication'
  BY DEF RollbackRestores, BlockedOnlyByTheApplication
<1> QED BY <1>3, <1>4 DEF InstallInv

\* One step per statement's operation, per failure and per entry undone.
LEMMA InstallInvHolds == InstallSpec => []InstallInv
<1>1. InstallInit => InstallInv
  <2> SUFFICES ASSUME InstallInit PROVE InstallInv
    OBVIOUS
  <2>1. Shape /\ Undisturbed /\ stage <= LastStage + 1 /\ phase = "running"
    BY InstallationStarts
  <2>2. KeptUntilTheCommit
    BY <2>1, RecordedExactly, KeptWhileRecorded DEF Undisturbed
  <2> QED BY <2>1, <2>2 DEF InstallInv, Undoes, RollbackRestores, BlockedOnlyByTheApplication
<1>2. InstallInv /\ [InstallNext]_installVars => InstallInv'
  <2> SUFFICES ASSUME InstallInv, [InstallNext]_installVars PROVE InstallInv'
    OBVIOUS
  <2>0. Shape /\ Undoes /\ RollbackRestores /\ BlockedOnlyByTheApplication
    BY DEF InstallInv
  <2>1. CASE Begin
    <3>1. phase = "running" /\ stage <= LastStage /\ phase' = phase
      BY <2>1 DEF Begin, Running
    <3>2. stage <= LastStage + 1
      BY <3>1, <2>0, StagesAreNumbers
    <3>3. Undisturbed
      BY <2>0, <3>1, <3>2 DEF Undoes
    <3>4. Undisturbed' /\ stage' <= LastStage + 1 /\ Shape'
      BY <2>0, <2>1, <3>3, BeginStep
    <3> QED BY <3>1, <3>4, StillRunning
  <2>2. CASE InstallerStep
    <3>1. /\ phase = "running" /\ phase' = phase /\ ops # <<>>
          /\ initial' = initial /\ plan' = plan /\ stage' = stage
      BY <2>2 DEF InstallerStep, CreateDirectory, Move, SaveFile, CopyFile, Advance, Running
    <3>2. stage <= LastStage + 1
      BY <2>0, <3>1 DEF Undoes
    <3>3. Undisturbed
      BY <2>0, <3>1, <3>2 DEF Undoes
    <3>4. Shape'
      BY <2>0, <3>1, Zenon DEF Shape
    <3>5. Undisturbed'
      <4>1. CASE CreateDirectory
        BY <4>1, <2>0, <3>2, <3>3, CreateDirectoryStep
      <4>2. CASE Move
        BY <4>2, <2>0, <3>2, <3>3, MoveStep
      <4>3. CASE SaveFile
        BY <4>3, <2>0, <3>2, <3>3, SaveFileStep
      <4>4. CASE CopyFile
        BY <4>4, <2>0, <3>2, <3>3, CopyFileStep
      <4> QED BY <2>2, <4>1, <4>2, <4>3, <4>4 DEF InstallerStep
    <3> QED BY <3>1, <3>2, <3>4, <3>5, StillRunning
  <2>3. CASE CopyBreaks
    <3>1. /\ phase = "running" /\ phase' = "undoing" /\ ops # <<>>
          /\ initial' = initial /\ plan' = plan /\ stage' = stage
      BY <2>3 DEF CopyBreaks, Undo, Running
    <3>2. Undisturbed
      BY <2>0, <3>1 DEF Undoes
    <3>3. Recorded(initial', journal', fs', FALSE)
      BY <2>3, <3>2, CopyBreaksStep
    <3>4. Shape'
      BY <2>0, <3>1, Zenon DEF Shape
    <3> QED BY <3>1, <3>3, <3>4, StillUndoable
  <2>4. CASE Throw
    <3>1. /\ phase = "running" /\ phase' = "undoing" /\ fs' = fs /\ journal' = journal
          /\ initial' = initial /\ plan' = plan /\ stage' = stage
      BY <2>4 DEF Throw, Undo, Running
    <3>2. Recorded(initial, journal, fs, FALSE)
      <4>1. CASE stage <= LastStage + 1
        <5>1. Recorded(initial, journal, fs, TRUE)
          BY <2>0, <3>1, <4>1 DEF Undoes, Undisturbed
        <5> QED BY <5>1, RecordedExactly
      <4>2. CASE ~(stage <= LastStage + 1)
        BY <2>0, <3>1, <4>2 DEF Undoes
      <4> QED BY <4>1, <4>2
    <3>3. Recorded(initial', journal', fs', FALSE)
      BY <3>1, <3>2
    <3>4. Shape'
      BY <2>0, <3>1, Zenon DEF Shape
    <3> QED BY <3>1, <3>3, <3>4, StillUndoable
  <2>5. CASE Activate
    <3>1. /\ phase = "running" /\ stage = LastStage + 1 /\ ops = <<>> /\ ops' = <<>>
          /\ initial' = initial /\ plan' = plan
          /\ \/ phase' = "undoing" /\ stage' = stage
             \/ phase' = phase /\ stage' = stage + 1
      BY <2>5 DEF Activate, Undo, Running
    <3>2. stage \in Nat /\ stage # 0 /\ LastStage \in Nat /\ stage <= LastStage + 1
      BY <2>0, <3>1, StagesAreNumbers
    <3>3. Undisturbed
      BY <2>0, <3>1, <3>2 DEF Undoes
    <3>4. Recorded(initial', journal', fs', FALSE)
      BY <2>0, <2>5, <3>3, ActivateStep
    <3>5. stage' \in Nat \ {0} /\ (phase' = phase => ~(stage' <= LastStage + 1))
      <4>1. CASE stage' = stage
        BY <4>1, <3>1, <3>2
      <4>2. CASE stage' = stage + 1
        BY <4>2, <3>1, <3>2
      <4> QED BY <3>1, <4>1, <4>2
    <3>6. Shape'
      BY <2>0, <3>1, <3>5, Zenon DEF Shape
    <3> QED BY <3>1, <3>4, <3>5, <3>6, StillUndoable
  <2>6. CASE Commit
    <3>1. phase' = "committed" /\ initial' = initial /\ plan' = plan /\ stage' = stage
      BY <2>6 DEF Commit
    <3>2. Shape'
      BY <2>0, <3>1, Zenon DEF Shape
    <3> QED BY <3>1, <3>2 DEF InstallInv, Undoes, RollbackRestores, BlockedOnlyByTheApplication
  <2>7. CASE RestoreFile \/ MoveBack \/ RemoveDirectory
    <3>1. /\ phase = "undoing" /\ phase' = phase
          /\ initial' = initial /\ plan' = plan /\ stage' = stage
      BY <2>7 DEF RestoreFile, MoveBack, RemoveDirectory, Undoing
    <3>2. Recorded(initial, journal, fs, FALSE)
      BY <2>0, <3>1 DEF Undoes
    <3>3. Recorded(initial', journal', fs', FALSE)
      BY <2>7, <3>2, RestoreFileStep, MoveBackStep, RemoveDirectoryStep
    <3>4. Shape'
      BY <2>0, <3>1, Zenon DEF Shape
    <3> QED BY <3>1, <3>3, <3>4, StillUndoable
  <2>8. CASE Blocked
    <3>1. /\ phase = "undoing" /\ phase' = "blocked" /\ fs' = fs /\ journal' = journal
          /\ initial' = initial /\ plan' = plan /\ stage' = stage
      BY <2>8 DEF Blocked, Undoing
    <3>2. Recorded(initial, journal, fs, FALSE) /\ KeptUntilTheCommit
      BY <2>0, <3>1 DEF Undoes
    <3>3. BlockedOnlyByTheApplication'
      BY <2>8, <3>2, BlockedStep
    <3>4. Shape'
      BY <2>0, <3>1, Zenon DEF Shape
    <3>5. KeptUntilTheCommit'
      BY <3>1, <3>2, Zenon DEF KeptUntilTheCommit
    <3>6. Undoes' /\ RollbackRestores'
      BY <3>1, <3>5 DEF Undoes, RollbackRestores
    <3> QED BY <3>3, <3>4, <3>6 DEF InstallInv
  <2>9. CASE UndoBreaks
    <3>1. /\ phase = "undoing" /\ phase' = "broken" /\ journal' = journal
          /\ initial' = initial /\ plan' = plan /\ stage' = stage
      BY <2>9 DEF UndoBreaks, Undoing
    <3>2. Recorded(initial, journal, fs, FALSE)
      BY <2>0, <3>1 DEF Undoes
    <3>3. \A p \in DOMAIN initial :
            initial[p] \in Range(fs') \cup Snapshots(journal)
      BY <2>9, <3>2, UndoBreaksStep
    <3>4. Shape'
      BY <2>0, <3>1, Zenon DEF Shape
    <3>5. KeptUntilTheCommit'
      BY <3>1, <3>3, Zenon DEF KeptUntilTheCommit
    <3>6. Undoes' /\ RollbackRestores' /\ BlockedOnlyByTheApplication'
      BY <3>1, <3>5 DEF Undoes, RollbackRestores, BlockedOnlyByTheApplication
    <3> QED BY <3>4, <3>6 DEF InstallInv
  <2>10. CASE RolledBack
    <3>1. /\ phase = "undoing" /\ journal = <<>> /\ phase' = "rolled back" /\ fs' = fs
          /\ journal' = journal /\ initial' = initial /\ plan' = plan /\ stage' = stage
      BY <2>10 DEF RolledBack
    <3>2. Recorded(initial, <<>>, fs, FALSE) /\ KeptUntilTheCommit
      BY <2>0, <3>1 DEF Undoes
    <3>3. FileSystem(initial)
      BY <2>0, InstallationAssumption DEF Shape
    <3>4. Own(fs) = initial
      BY <3>2, <3>3, NothingLeftToUndo
    <3>5. RollbackRestores'
      BY <3>1, <3>4 DEF RollbackRestores
    <3>6. Shape'
      BY <2>0, <3>1, Zenon DEF Shape
    <3>7. KeptUntilTheCommit'
      BY <3>1, <3>2, Zenon DEF KeptUntilTheCommit
    <3>8. Undoes' /\ BlockedOnlyByTheApplication'
      BY <3>1, <3>7 DEF Undoes, BlockedOnlyByTheApplication
    <3> QED BY <3>5, <3>6, <3>8 DEF InstallInv
  <2>11. CASE UNCHANGED installVars
    <3>1. /\ fs' = fs /\ initial' = initial /\ plan' = plan /\ stage' = stage /\ ops' = ops
          /\ journal' = journal /\ phase' = phase
      BY <2>11 DEF installVars
    <3>2. Shape'
      BY <2>0, <3>1, Zenon DEF Shape
    <3>3. Undisturbed => Undisturbed'
      BY <3>1 DEF Undisturbed, Sources, Installs, LastStage
    <3>4. KeptUntilTheCommit => KeptUntilTheCommit'
      BY <3>1, Zenon DEF KeptUntilTheCommit
    <3>5. LastStage' = LastStage
      BY DEF LastStage
    <3>6. Undoes'
      BY <2>0, <3>1, <3>3, <3>4, <3>5 DEF Undoes
    <3>7. RollbackRestores' /\ BlockedOnlyByTheApplication'
      BY <2>0, <3>1 DEF RollbackRestores, BlockedOnlyByTheApplication
    <3> QED BY <3>2, <3>6, <3>7 DEF InstallInv
  <2> QED BY <2>1, <2>2, <2>3, <2>4, <2>5, <2>6, <2>7, <2>8, <2>9, <2>10, <2>11
          DEF InstallNext, InstallerStep
<1> QED BY <1>1, <1>2, PTL DEF InstallSpec

\* A failed installation that says it was rolled back was: whatever the files, the
\* candidate and the corpus, wherever it failed and whatever the started application
\* rewrote (Undo-DesktopInstallation, lines 115-137).
THEOREM RollbackAlwaysRestores == InstallSpec => []RollbackRestores
<1>1. InstallInv => RollbackRestores
  BY DEF InstallInv
<1> QED BY <1>1, InstallInvHolds, PTL

\* An undo that gives up for a reason of its own met something the application left
\* in a directory the installation made (line 132): the installer's own steps never
\* stand in each other's way.
THEOREM OnlyTheApplicationBlocks == InstallSpec => []BlockedOnlyByTheApplication
<1>1. InstallInv => BlockedOnlyByTheApplication
  BY DEF InstallInv
<1> QED BY <1>1, InstallInvHolds, PTL

-----------------------------------------------------------------------------
(* Where a file of the user goes *)

\* What the installation replaces on purpose, but for settings.
ReplacedFiles ==
  {Effective(initial) \o <<"backup", name>> : name \in {"TajsAnagrams.exe", "AnagramSolver.exe"}}
    \cup {Link}

SettingsFound ==
  {OldProfile \o <<"settings.json">>, Effective(initial) \o <<"user-data", "settings.json">>}

\* The places in the old directories.
LegacyBackupExe == Legacy \o <<"backup", "TajsAnagrams.exe">>
LegacyOldBackup == Legacy \o <<"backup", "AnagramSolver.exe">>
LegacySettings == Legacy \o <<"user-data", "settings.json">>
LegacyCorpora == Legacy \o <<"corpora">>
OldSettings == OldProfile \o <<"settings.json">>

\* A place, at a stage, where nothing that was found at a path will be overwritten
\* without a copy of it elsewhere.
Safe(path, place, at) ==
  /\ place \in Names
  /\ ~IsPrefix(Recovery, place) /\ ~IsPrefix(OldBackup, place) /\ ~IsPrefix(LegacyOldBackup, place)
  /\ place # Link /\ place # LegacyBackupExe
  /\ \A f \in plan.copies :
       place # Corpora \o f /\ place # LegacyCorpora \o f /\ place # OldCorpora \o f
  /\ place \in {Settings, LegacySettings, OldSettings} => path \in SettingsFound
  /\ at <= 7 + Len(CorpusFiles) => place # Backup
  /\ at >= 8 + Len(CorpusFiles) /\ Installs /\ place = Exe => initial[path] = plan.candidate

\* Files of the corpus are paths.
Planned == \A f \in plan.copies : f \in Names

LEMMA OldPlaces ==
  /\ Path4(LegacyBackupExe, "TajemnikTV", "AnagramSolver", "backup", "TajsAnagrams.exe")
  /\ Path4(LegacyOldBackup, "TajemnikTV", "AnagramSolver", "backup", "AnagramSolver.exe")
  /\ Path4(LegacySettings, "TajemnikTV", "AnagramSolver", "user-data", "settings.json")
  /\ Path3(LegacyCorpora, "TajemnikTV", "AnagramSolver", "corpora")
  /\ Path2(OldSettings, "tv.tajemnik.anagramsolver", "settings.json")
<1>1. {"corpora", "user-data", "settings.json", "TajsAnagrams.exe", "AnagramSolver.exe", "backup"} \subseteq Name
  BY DEF Name
<1>2. Path4(LegacyBackupExe, "TajemnikTV", "AnagramSolver", "backup", "TajsAnagrams.exe")
  BY <1>1, Places, IntoTwoByTwo DEF LegacyBackupExe
<1>3. Path4(LegacyOldBackup, "TajemnikTV", "AnagramSolver", "backup", "AnagramSolver.exe")
  BY <1>1, Places, IntoTwoByTwo DEF LegacyOldBackup
<1>4. Path4(LegacySettings, "TajemnikTV", "AnagramSolver", "user-data", "settings.json")
  BY <1>1, Places, IntoTwoByTwo DEF LegacySettings
<1>5. Path3(LegacyCorpora, "TajemnikTV", "AnagramSolver", "corpora")
  BY <1>1, Places, IntoTwo DEF LegacyCorpora
<1>6. Path2(OldSettings, "tv.tajemnik.anagramsolver", "settings.json")
  BY <1>1, Places, IntoOne DEF OldSettings
<1> QED BY <1>2, <1>3, <1>4, <1>5, <1>6, Zenon

LEMMA AllPlacesAreNames ==
  /\ Install \in Names /\ Legacy \in Names /\ OldProfile \in Names /\ Link \in Names
  /\ LegacyLink \in Names /\ Recovery \in Names /\ OldCorpora \in Names /\ UserData \in Names
  /\ Settings \in Names /\ Exe \in Names /\ OldExe \in Names /\ Backup \in Names
  /\ OldBackup \in Names /\ LegacyBackup \in Names /\ OldLink \in Names /\ Corpora \in Names
  /\ LegacyBackupExe \in Names /\ LegacyOldBackup \in Names /\ LegacySettings \in Names
  /\ LegacyCorpora \in Names /\ OldSettings \in Names /\ WebView \in Names
  BY Places, InnerPlaces, OldPlaces, Zenon DEF Path1, Path2, Path3, Path4

\* Nothing is under two places that part at some name.
LEMMA Diverge ==
  ASSUME NEW a \in Names, NEW b \in Names, NEW i \in Nat \ {0}, i <= Len(a), i <= Len(b), a[i] # b[i],
         NEW q \in Names, IsPrefix(a, q)
  PROVE ~IsPrefix(b, q) /\ b # q
<1>1. Len(a) \in Nat /\ Len(b) \in Nat /\ i \in 1..Len(a) /\ i \in 1..Len(b)
  BY DEF Names
<1>2. q[i] = a[i]
  BY <1>1, PrefixByName
<1>3. ~IsPrefix(b, q)
  BY <1>1, <1>2, PrefixByName
<1> QED BY <1>3, PrefixOrder

LEMMA PrefixJoined ==
  ASSUME NEW a \in Names, NEW b \in Names
  PROVE a \o b \in Names /\ IsPrefix(a, a \o b)
<1> DEFINE all == a \o b
<1>1. all \in Names /\ Len(all) = Len(a) + Len(b) /\ \A i \in 1..Len(a) : all[i] = a[i]
  BY JoinedPaths, Zenon
<1>2. Len(a) \in Nat /\ Len(b) \in Nat
  BY DEF Names
<1> HIDE DEF all
<1>3. IsPrefix(a, all)
  BY <1>1, <1>2, PrefixByName
<1> QED BY <1>1, <1>3 DEF all

LEMMA RebaseJoined ==
  ASSUME NEW a \in Names, NEW b \in Names, NEW x \in Names
  PROVE Rebase(a \o x, a, b) = b \o x
<1> DEFINE here == a \o x
           there == b \o x
           r == Rebase(here, a, b)
<1>0. here \in Names /\ IsPrefix(a, here) /\ there \in Names
  BY PrefixJoined, Zenon
<1>1. Len(here) = Len(a) + Len(x) /\ \A i \in 1..Len(x) : here[Len(a) + i] = x[i]
  BY JoinedPaths, Zenon
<1>2. /\ Len(there) = Len(b) + Len(x)
      /\ \A i \in 1..Len(b) : there[i] = b[i]
      /\ \A i \in 1..Len(x) : there[Len(b) + i] = x[i]
  BY JoinedPaths, Zenon
<1> HIDE DEF here, there
<1>3. /\ r \in Names /\ Len(r) = Len(b) + Len(here) - Len(a)
      /\ \A i \in 1..Len(b) : r[i] = b[i]
      /\ \A i \in (Len(b) + 1)..(Len(b) + Len(here) - Len(a)) : r[i] = here[i - Len(b) + Len(a)]
  <2>1. r \in Names /\ Len(r) = Len(b) + Len(here) - Len(a)
    BY <1>0, RebaseShape, ZenonT(40)
  <2>2. \A i \in 1..Len(b) : r[i] = b[i]
    BY <1>0, RebaseShape, ZenonT(40)
  <2>3. \A i \in (Len(b) + 1)..(Len(b) + Len(here) - Len(a)) : r[i] = here[i - Len(b) + Len(a)]
    BY <1>0, RebaseShape, ZenonT(40)
  <2> QED BY <2>1, <2>2, <2>3
<1> HIDE DEF r
<1>4. Len(a) \in Nat /\ Len(b) \in Nat /\ Len(x) \in Nat
  BY DEF Names
<1>5. ASSUME NEW i \in 1..Len(r) PROVE r[i] = there[i]
  <2>1. CASE i <= Len(b)
    BY <2>1, <1>2, <1>3, <1>4
  <2>2. CASE i > Len(b)
    <3> DEFINE j == i - Len(b)
    <3>1. j \in 1..Len(x) /\ i = Len(b) + j /\ i - Len(b) + Len(a) = Len(a) + j
      BY <2>2, <1>1, <1>3, <1>4
    <3>2. i \in (Len(b) + 1)..(Len(b) + Len(here) - Len(a))
      BY <2>2, <1>1, <1>3, <1>4
    <3> HIDE DEF j
    <3>3. r[i] = here[Len(a) + j]
      BY <3>1, <3>2, <1>3
    <3> QED BY <3>1, <3>3, <1>1, <1>2
  <2>3. i <= Len(b) \/ i > Len(b)
    BY <1>3, <1>4, <1>1
  <2> QED BY <2>1, <2>2, <2>3
<1>6. Len(r) = Len(there)
  BY <1>1, <1>2, <1>3, <1>4
<1>7. r = there
  BY <1>0, <1>3, <1>5, <1>6, SeqEqual DEF Names
<1> QED BY <1>7 DEF r, here, there


-----------------------------------------------------------------------------
(* Where the moves of a migration take a file *)

\* What is below the new directory is none of the places elsewhere.
LEMMA NotElsewhere ==
  ASSUME Planned, NEW q \in Names, IsPrefix(Install, q)
  PROVE /\ ~IsPrefix(Recovery, q) /\ ~IsPrefix(LegacyOldBackup, q)
        /\ q # Link /\ q # OldSettings /\ q # LegacyBackupExe /\ q # LegacySettings
        /\ \A f \in plan.copies : q # LegacyCorpora \o f /\ q # OldCorpora \o f
<1>1. /\ Path2(Install, "TajemnikTV", "TajsAnagrams") /\ Path2(Link, "Programs", "TajsAnagrams.lnk")
      /\ Path1(Recovery, "desktop-install")
      /\ Path4(LegacyBackupExe, "TajemnikTV", "AnagramSolver", "backup", "TajsAnagrams.exe")
      /\ Path4(LegacyOldBackup, "TajemnikTV", "AnagramSolver", "backup", "AnagramSolver.exe")
      /\ Path4(LegacySettings, "TajemnikTV", "AnagramSolver", "user-data", "settings.json")
      /\ Path3(LegacyCorpora, "TajemnikTV", "AnagramSolver", "corpora")
      /\ Path2(OldSettings, "tv.tajemnik.anagramsolver", "settings.json")
      /\ Path2(OldCorpora, "tv.tajemnik.anagramsolver", "corpora")
  BY Places, InnerPlaces, OldPlaces, Zenon
<1>2. Install \in Names /\ Len(Install) = 2 /\ Install[1] = "TajemnikTV" /\ Install[2] = "TajsAnagrams"
  BY <1>1 DEF Path2
<1>3. ASSUME NEW b \in Names, Len(b) >= 1, b[1] # "TajemnikTV" PROVE ~IsPrefix(b, q) /\ b # q
  <2>1. 1 \in Nat \ {0} /\ 1 <= Len(Install) /\ 1 <= Len(b) /\ Install[1] # b[1]
    BY <1>2, <1>3 DEF Names
  <2> QED BY <2>1, <1>2, Diverge, Zenon
<1>4. ASSUME NEW b \in Names, Len(b) >= 2, b[2] # "TajsAnagrams" PROVE ~IsPrefix(b, q) /\ b # q
  <2>1. 2 \in Nat \ {0} /\ 2 <= Len(Install) /\ 2 <= Len(b) /\ Install[2] # b[2]
    BY <1>2, <1>4 DEF Names
  <2> QED BY <2>1, <1>2, Diverge, Zenon
<1>5. ~IsPrefix(Recovery, q) /\ Link # q /\ OldSettings # q
  <2>1. /\ Recovery \in Names /\ Len(Recovery) >= 1 /\ Recovery[1] # "TajemnikTV"
        /\ Link \in Names /\ Len(Link) >= 1 /\ Link[1] # "TajemnikTV"
        /\ OldSettings \in Names /\ Len(OldSettings) >= 1 /\ OldSettings[1] # "TajemnikTV"
    BY <1>1 DEF Path1, Path2
  <2> QED BY <2>1, <1>3
<1>6. ~IsPrefix(LegacyOldBackup, q) /\ LegacyBackupExe # q /\ LegacySettings # q
  BY <1>1, <1>4 DEF Path4
<1>7. ASSUME NEW f \in plan.copies PROVE q # LegacyCorpora \o f /\ q # OldCorpora \o f
  <2>1. ~IsPrefix(LegacyCorpora, q) /\ ~IsPrefix(OldCorpora, q)
    <3>1. LegacyCorpora \in Names /\ Len(LegacyCorpora) >= 2 /\ LegacyCorpora[2] # "TajsAnagrams"
      BY <1>1 DEF Path3
    <3>2. OldCorpora \in Names /\ Len(OldCorpora) >= 1 /\ OldCorpora[1] # "TajemnikTV"
      BY <1>1 DEF Path2
    <3> QED BY <3>1, <3>2, <1>3, <1>4
  <2>2. f \in Names /\ LegacyCorpora \in Names /\ OldCorpora \in Names
    BY AllPlacesAreNames DEF Planned
  <2>3. IsPrefix(LegacyCorpora, LegacyCorpora \o f) /\ IsPrefix(OldCorpora, OldCorpora \o f)
    BY <2>2, PrefixJoined, Zenon
  <2> QED BY <2>1, <2>3
<1> QED BY <1>5, <1>6, <1>7

\* What is safe below the new directory, before anything of a release is replaced.
LEMMA SafeInInstall ==
  ASSUME Planned, NEW path, NEW q \in Names, IsPrefix(Install, q), NEW at \in Nat, at <= 6,
         ~IsPrefix(OldBackup, q), q # Backup, \A f \in plan.copies : q # Corpora \o f,
         q = Settings => path \in SettingsFound
  PROVE Safe(path, q, at)
<1>1. ~(at >= 8 + Len(CorpusFiles))
  BY CorpusIsListed
<1> QED BY <1>1, NotElsewhere, Zenon DEF Safe

\* A place in the new directory has a name there that tells what it is.
LEMMA InInstall ==
  ASSUME Planned, NEW name, NEW to, Path3(to, "TajemnikTV", "TajsAnagrams", name),
         NEW q \in Names, IsPrefix(to, q)
  PROVE /\ IsPrefix(Install, q)
        /\ name # "backup" => ~IsPrefix(OldBackup, q) /\ q # Backup
        /\ name # "corpora" => \A f \in plan.copies : q # Corpora \o f
        /\ name # "user-data" => q # Settings
<1>1. /\ Path2(Install, "TajemnikTV", "TajsAnagrams")
      /\ Path4(Settings, "TajemnikTV", "TajsAnagrams", "user-data", "settings.json")
      /\ Path4(Backup, "TajemnikTV", "TajsAnagrams", "backup", "TajsAnagrams.exe")
      /\ Path4(OldBackup, "TajemnikTV", "TajsAnagrams", "backup", "AnagramSolver.exe")
      /\ Path3(Corpora, "TajemnikTV", "TajsAnagrams", "corpora")
  BY Places, InnerPlaces, Zenon
<1>2. to \in Names /\ Len(to) = 3 /\ to[1] = "TajemnikTV" /\ to[2] = "TajsAnagrams" /\ to[3] = name
  BY DEF Path3
<1>3. Install \in Names /\ Len(Install) = 2 /\ Install[1] = "TajemnikTV" /\ Install[2] = "TajsAnagrams"
  BY <1>1 DEF Path2
<1>4. IsPrefix(Install, q)
  <2>1. \A i \in 1..2 : Install[i] = to[i]
    BY <1>2, <1>3
  <2>2. IsPrefix(Install, to)
    BY <1>2, <1>3, <2>1, PrefixByName
  <2> QED BY <1>2, <1>3, <2>2, PrefixOrder
<1>5. ASSUME NEW b \in Names, Len(b) >= 3, b[3] # name PROVE ~IsPrefix(b, q) /\ b # q
  <2>1. 3 \in Nat \ {0} /\ 3 <= Len(to) /\ 3 <= Len(b) /\ to[3] # b[3]
    BY <1>2, <1>5 DEF Names
  <2> QED BY <2>1, <1>2, Diverge, Zenon
<1>6. name # "backup" => ~IsPrefix(OldBackup, q) /\ Backup # q
  <2>1. /\ OldBackup \in Names /\ Len(OldBackup) >= 3 /\ OldBackup[3] = "backup"
        /\ Backup \in Names /\ Len(Backup) >= 3 /\ Backup[3] = "backup"
    BY <1>1 DEF Path4
  <2> QED BY <2>1, <1>5
<1>7. name # "user-data" => Settings # q
  BY <1>1, <1>5 DEF Path4
<1>8. ASSUME name # "corpora", NEW f \in plan.copies PROVE q # Corpora \o f
  <2>1. ~IsPrefix(Corpora, q)
    BY <1>1, <1>5, <1>8 DEF Path3
  <2>2. f \in Names /\ Corpora \in Names
    BY AllPlacesAreNames DEF Planned
  <2>3. IsPrefix(Corpora, Corpora \o f)
    BY <2>2, PrefixJoined, Zenon
  <2> QED BY <2>1, <2>3
<1> QED BY <1>4, <1>6, <1>7, <1>8

\* Places of the old and of the new directory that a move maps to each other.
LEMMA PlacesJoined ==
  /\ {<<"backup", "AnagramSolver.exe">>, <<"backup", "TajsAnagrams.exe">>, <<"corpora">>,
      <<"user-data", "settings.json">>, <<"settings.json">>} \subseteq Names
  /\ Settings = Install \o <<"user-data", "settings.json">>
  /\ \A f \in Names : <<"corpora">> \o f \in Names
  /\ \A f \in Names : Corpora \o f = Install \o (<<"corpora">> \o f)
  /\ \A f \in Names : LegacyCorpora \o f = Legacy \o (<<"corpora">> \o f)
<1>1. {"corpora", "user-data", "settings.json", "TajsAnagrams.exe", "AnagramSolver.exe", "backup"}
        \subseteq Name
  BY DEF Name
<1>2. \A a \in Name, b \in Name : <<a>> \in Names /\ <<a, b>> \in Names
  BY Singles DEF Path1, Path2
<1>3. Settings = Install \o <<"user-data", "settings.json">>
  <2> DEFINE other == Install \o <<"user-data", "settings.json">>
  <2>1. Path4(other, "TajemnikTV", "TajsAnagrams", "user-data", "settings.json")
    BY <1>1, Places, IntoTwoByTwo
  <2>2. Path4(Settings, "TajemnikTV", "TajsAnagrams", "user-data", "settings.json")
    BY InnerPlaces
  <2> HIDE DEF other
  <2>3. other = Settings
    <3>1. Len(other) = 4 /\ Len(Settings) = 4 /\ other \in Seq(Name) /\ Settings \in Seq(Name)
      BY <2>1, <2>2 DEF Path4, Names
    <3>2. \A i \in 1..4 : other[i] = Settings[i]
      BY <2>1, <2>2 DEF Path4
    <3> QED BY <3>1, <3>2, SeqEqual
  <2> QED BY <2>3 DEF other
<1>a. \A s \in Seq(Name), t \in Seq(Name), u \in Seq(Name) : (s \o t) \o u = s \o (t \o u)
  BY ConcatAssociative
<1>4. ASSUME NEW f \in Names
      PROVE /\ <<"corpora">> \o f \in Names
            /\ Corpora \o f = Install \o (<<"corpora">> \o f)
            /\ LegacyCorpora \o f = Legacy \o (<<"corpora">> \o f)
  <2> DEFINE name == <<"corpora">>
  <2>1. name \in Names
    BY <1>1, <1>2
  <2>2. Install \in Names /\ Legacy \in Names
    BY AllPlacesAreNames
  <2> HIDE DEF name
  <2>3. (Install \o name) \o f = Install \o (name \o f)
    BY <2>1, <2>2, <1>a, Zenon DEF Names
  <2>4. (Legacy \o name) \o f = Legacy \o (name \o f)
    BY <2>1, <2>2, <1>a, Zenon DEF Names
  <2>5. name \o f \in Names
    BY <2>1, JoinedPaths, Zenon
  <2>6. Corpora = Install \o name /\ LegacyCorpora = Legacy \o name
    BY Zenon DEF Corpora, LegacyCorpora, name
  <2>7. Corpora \o f = Install \o (name \o f) /\ LegacyCorpora \o f = Legacy \o (name \o f)
    BY <2>3, <2>4, <2>6, Zenon
  <2> QED BY <2>5, <2>7, Zenon DEF name
<1>5. {<<"backup", "AnagramSolver.exe">>, <<"backup", "TajsAnagrams.exe">>, <<"corpora">>,
      <<"user-data", "settings.json">>, <<"settings.json">>} \subseteq Names
  BY <1>1, <1>2
<1> QED BY <1>3, <1>4, <1>5, Zenon

\* The five moves of a migration.
Migration(from, to) ==
  \/ from = Legacy /\ to = Install
  \/ from = OldExe /\ to = Exe
  \/ from = LegacyLink /\ to = OldLink
  \/ from = OldCorpora /\ to = Corpora
  \/ from = OldProfile /\ to = UserData

\* The program's directory: nothing safe arrives where something is replaced.
LEMMA SafeAfterInstallMoves ==
  ASSUME Planned, NEW path, NEW at \in Nat, at <= 6, NEW q \in Names, IsPrefix(Legacy, q),
         Safe(path, q, at)
  PROVE Safe(path, Rebase(q, Legacy, Install), at)
<1> DEFINE r == Rebase(q, Legacy, Install)
<1>1. Legacy \in Names /\ Install \in Names
  BY AllPlacesAreNames
<1>2. r \in Names /\ IsPrefix(Install, r) /\ Rebase(r, Install, Legacy) = q
  BY <1>1, RebaseShape, RebaseBack, Zenon
<1> HIDE DEF r
<1>3. ASSUME NEW x \in Names, r = Install \o x PROVE q = Legacy \o x
  <2>1. Rebase(Install \o x, Install, Legacy) = Legacy \o x
    BY <1>1, RebaseJoined, Zenon
  <2> QED BY <2>1, <1>2, <1>3
<1>4. /\ ~IsPrefix(LegacyOldBackup, q) /\ q # LegacyBackupExe
      /\ \A f \in plan.copies : q # LegacyCorpora \o f
      /\ q = LegacySettings => path \in SettingsFound
  BY Zenon DEF Safe
<1>5. ~IsPrefix(OldBackup, r)
  <2> DEFINE x == <<"backup", "AnagramSolver.exe">>
  <2>1. x \in Names
    BY PlacesJoined, Zenon
  <2>2. OldBackup = Install \o x /\ LegacyOldBackup = Legacy \o x /\ OldBackup \in Names
    BY AllPlacesAreNames, Zenon DEF OldBackup, LegacyOldBackup
  <2> HIDE DEF x
  <2>3. IsPrefix(Install, OldBackup) /\ Rebase(OldBackup, Install, Legacy) = LegacyOldBackup
    <3>1. Rebase(Install \o x, Install, Legacy) = Legacy \o x
      BY <2>1, <1>1, RebaseJoined, Zenon
    <3>2. IsPrefix(Install, Install \o x)
      BY <2>1, <1>1, PrefixJoined, Zenon
    <3> QED BY <3>1, <3>2, <2>2, Zenon
  <2>4. IsPrefix(OldBackup, r) => IsPrefix(LegacyOldBackup, q)
    BY <2>2, <2>3, <1>1, <1>2, RebasePrefix
  <2> QED BY <2>4, <1>4
<1>6. r # Backup
  BY <1>3, <1>4, PlacesJoined, Zenon DEF Backup, LegacyBackupExe
<1>7. r = Settings => path \in SettingsFound
  BY <1>3, <1>4, PlacesJoined, Zenon DEF LegacySettings
<1>8. ASSUME NEW f \in plan.copies PROVE r # Corpora \o f
  <2>1. f \in Names
    BY DEF Planned
  <2>2. /\ <<"corpora">> \o f \in Names
        /\ Corpora \o f = Install \o (<<"corpora">> \o f)
        /\ LegacyCorpora \o f = Legacy \o (<<"corpora">> \o f)
    BY <2>1, PlacesJoined, Zenon
  <2> DEFINE x == <<"corpora">> \o f
  <2> HIDE DEF x
  <2>3. r = Corpora \o f => q = Legacy \o x
    BY <2>2, <1>3, Zenon DEF x
  <2> QED BY <2>2, <2>3, <1>4, Zenon DEF x
<1>9. Safe(path, r, at)
  BY <1>2, <1>5, <1>6, <1>7, <1>8, SafeInInstall
<1> QED BY <1>9 DEF r

LEMMA SafeAfterMigration ==
  ASSUME Planned, NEW path, NEW at \in Nat, at <= 6, NEW from, NEW to, Migration(from, to),
         NEW q \in Names, IsPrefix(from, q), Safe(path, q, at)
  PROVE Safe(path, Rebase(q, from, to), at)
<1> DEFINE r == Rebase(q, from, to)
<1>1. from \in Names /\ to \in Names
  BY AllPlacesAreNames, Zenon DEF Migration
<1>2. r \in Names /\ IsPrefix(to, r) /\ Rebase(r, to, from) = q
  BY <1>1, RebaseShape, RebaseBack, Zenon
<1> HIDE DEF r
<1>3. ASSUME NEW x \in Names, r = to \o x PROVE q = from \o x
  <2>1. Rebase(to \o x, to, from) = from \o x
    BY <1>1, RebaseJoined, Zenon
  <2> QED BY <2>1, <1>2, <1>3
<1>4. CASE from = Legacy /\ to = Install
  BY <1>4, SafeAfterInstallMoves
<1>5. CASE (from = OldExe /\ to = Exe) \/ (from = LegacyLink /\ to = OldLink)
  <2>1. \E name : name \notin {"backup", "corpora", "user-data"} /\ Path3(to, "TajemnikTV", "TajsAnagrams", name)
    <3>1. CASE to = Exe
      BY <3>1, InnerPlaces
    <3>2. CASE to = OldLink
      BY <3>2, InnerPlaces
    <3> QED BY <1>5, <3>1, <3>2
  <2>2. /\ IsPrefix(Install, r) /\ ~IsPrefix(OldBackup, r) /\ r # Backup /\ r # Settings
        /\ \A f \in plan.copies : r # Corpora \o f
    BY <2>1, <1>2, InInstall
  <2>3. Safe(path, r, at)
    BY <2>2, <1>2, SafeInInstall
  <2> QED BY <2>3 DEF r
<1>6. CASE from = OldCorpora /\ to = Corpora
  <2>1. Path3(to, "TajemnikTV", "TajsAnagrams", "corpora")
    BY <1>6, InnerPlaces
  <2>2. IsPrefix(Install, r) /\ ~IsPrefix(OldBackup, r) /\ r # Backup /\ r # Settings
    BY <2>1, <1>2, InInstall
  <2>3. ASSUME NEW f \in plan.copies PROVE r # Corpora \o f
    <3>1. f \in Names /\ q # OldCorpora \o f
      BY DEF Planned, Safe
    <3> QED BY <3>1, <1>3, <1>6, Zenon
  <2>4. Safe(path, r, at)
    BY <2>2, <2>3, <1>2, SafeInInstall
  <2> QED BY <2>4 DEF r
<1>7. CASE from = OldProfile /\ to = UserData
  <2>1. Path3(to, "TajemnikTV", "TajsAnagrams", "user-data")
    BY <1>7, InnerPlaces
  <2>2. /\ IsPrefix(Install, r) /\ ~IsPrefix(OldBackup, r) /\ r # Backup
        /\ \A f \in plan.copies : r # Corpora \o f
    BY <2>1, <1>2, InInstall
  <2>3. r = Settings => path \in SettingsFound
    <3>1. r = Settings => q = OldSettings
      BY <1>3, <1>7, PlacesJoined, Zenon DEF Settings, OldSettings
    <3> QED BY <3>1, Zenon DEF Safe
  <2>4. Safe(path, r, at)
    BY <2>2, <2>3, <1>2, SafeInInstall
  <2> QED BY <2>4 DEF r
<1> QED BY <1>4, <1>5, <1>6, <1>7 DEF Migration

-----------------------------------------------------------------------------
(* What is found *)

\* What is below the new directory, and what was below the old one.
LEMMA BelowTheDirectories ==
  /\ IsPrefix(Install, OldBackup) /\ IsPrefix(Install, Backup) /\ IsPrefix(Install, Settings)
  /\ IsPrefix(Legacy, LegacyOldBackup) /\ IsPrefix(Legacy, LegacyBackupExe)
  /\ IsPrefix(Legacy, LegacySettings)
  /\ \A f \in Names : /\ Corpora \o f \in Names /\ IsPrefix(Install, Corpora \o f)
                      /\ LegacyCorpora \o f \in Names /\ IsPrefix(Legacy, LegacyCorpora \o f)
                      /\ OldCorpora \o f \in Names /\ IsPrefix(OldCorpora, OldCorpora \o f)
                      /\ IsPrefix(Corpora, Corpora \o f) /\ IsPrefix(LegacyCorpora, LegacyCorpora \o f)
<1>1. Install \in Names /\ Legacy \in Names
      /\ Corpora \in Names /\ LegacyCorpora \in Names /\ OldCorpora \in Names
  BY AllPlacesAreNames
<1>2. \A a \in Names, x \in Names : a \o x \in Names /\ IsPrefix(a, a \o x)
  BY PrefixJoined, Zenon
<1>3. /\ IsPrefix(Install, OldBackup) /\ IsPrefix(Install, Backup) /\ IsPrefix(Install, Settings)
      /\ IsPrefix(Legacy, LegacyOldBackup) /\ IsPrefix(Legacy, LegacyBackupExe)
      /\ IsPrefix(Legacy, LegacySettings)
  BY <1>1, <1>2, PlacesJoined, Zenon
     DEF OldBackup, Backup, LegacyOldBackup, LegacyBackupExe, LegacySettings
<1>4. ASSUME NEW f \in Names
      PROVE /\ Corpora \o f \in Names /\ IsPrefix(Install, Corpora \o f)
            /\ LegacyCorpora \o f \in Names /\ IsPrefix(Legacy, LegacyCorpora \o f)
            /\ OldCorpora \o f \in Names /\ IsPrefix(OldCorpora, OldCorpora \o f)
            /\ IsPrefix(Corpora, Corpora \o f) /\ IsPrefix(LegacyCorpora, LegacyCorpora \o f)
  <2>1. /\ Corpora \o f \in Names /\ LegacyCorpora \o f \in Names /\ OldCorpora \o f \in Names
        /\ IsPrefix(Corpora, Corpora \o f) /\ IsPrefix(LegacyCorpora, LegacyCorpora \o f)
        /\ IsPrefix(OldCorpora, OldCorpora \o f)
    BY <1>1, <1>2, Zenon
  <2>2. IsPrefix(Install, Corpora) /\ IsPrefix(Legacy, LegacyCorpora)
    BY <1>1, <1>2, PlacesJoined, Zenon DEF Corpora, LegacyCorpora
  <2>3. IsPrefix(Install, Corpora \o f) /\ IsPrefix(Legacy, LegacyCorpora \o f)
    <3>1. \A p \in Names, q \in Names, r \in Names :
            IsPrefix(p, q) /\ IsPrefix(q, r) => IsPrefix(p, r)
      BY PrefixOrder, Zenon
    <3>2. IsPrefix(Install, Corpora \o f)
      BY <1>1, <2>1, <2>2, <3>1, Zenon
    <3>3. IsPrefix(Legacy, LegacyCorpora \o f)
      BY <1>1, <2>1, <2>2, <3>1, Zenon
    <3> QED BY <3>2, <3>3
  <2> QED BY <2>1, <2>3
<1> QED BY <1>3, <1>4, Zenon

LEMMA FoundIsSafe ==
  ASSUME NEW dataOnly, initial \in Trees, Accepted(initial, dataOnly), Planned,
         \A f \in plan.copies : CorpusBefore(initial) \o f \notin DOMAIN initial,
         NEW p \in DOMAIN initial \ ReplacedFiles
  PROVE Safe(p, p, 1)
<1> DEFINE E == Effective(initial)
<1>1. /\ Named(initial) /\ Closed(initial) /\ Recovery \notin DOMAIN initial /\ p \in Names
  BY InstallationAssumption, FoundIsClosed DEF Named
<1>2. \A q \in Names : q # <<>> /\ q \notin DOMAIN initial => ~IsPrefix(q, p)
  BY <1>1 DEF Closed
<1>3. /\ Install # <<>> /\ Legacy # <<>> /\ Recovery # <<>> /\ Corpora # <<>> /\ LegacyCorpora # <<>>
      /\ OldCorpora # <<>>
  BY Places, InnerPlaces, OldPlaces DEF Path1, Path2, Path3, Names
<1>4. \/ E = Legacy /\ Legacy \in DOMAIN initial /\ Install \notin DOMAIN initial
      \/ E = Install /\ Legacy \notin DOMAIN initial
  <2>1. ~(Legacy \in DOMAIN initial /\ Install \in DOMAIN initial)
    BY Zenon DEF Accepted, Exists
  <2>2. CASE Legacy \in DOMAIN initial
    <3>1. E = Legacy
      BY <2>2 DEF Effective, Exists
    <3> HIDE DEF E
    <3> QED BY <2>1, <2>2, <3>1, Zenon
  <2>3. CASE Legacy \notin DOMAIN initial
    BY <2>3, Zenon DEF Effective, Exists
  <2> QED BY <2>2, <2>3
<1>5. (E = Legacy /\ ~IsPrefix(Install, p)) \/ (E = Install /\ ~IsPrefix(Legacy, p))
  BY <1>2, <1>3, <1>4, AllPlacesAreNames
<1>6. ~IsPrefix(OldBackup, p) /\ ~IsPrefix(LegacyOldBackup, p)
  <2>1. E \o <<"backup", "AnagramSolver.exe">> \in ReplacedFiles
    BY DEF ReplacedFiles
  <2>2. ~IsPrefix(E \o <<"backup", "AnagramSolver.exe">>, p)
    BY <2>1, BackupAssumption DEF Below
  <2>3. IsPrefix(OldBackup, p) => IsPrefix(Install, p)
    <3>1. Install \in Names /\ OldBackup \in Names /\ IsPrefix(Install, OldBackup)
      BY AllPlacesAreNames, BelowTheDirectories, Zenon
    <3> QED BY <3>1, <1>1, PrefixOrder, Zenon
  <2>4. IsPrefix(LegacyOldBackup, p) => IsPrefix(Legacy, p)
    <3>1. Legacy \in Names /\ LegacyOldBackup \in Names /\ IsPrefix(Legacy, LegacyOldBackup)
      BY AllPlacesAreNames, BelowTheDirectories, Zenon
    <3> QED BY <3>1, <1>1, PrefixOrder, Zenon
  <2> HIDE DEF E
  <2> QED BY <1>5, <2>2, <2>3, <2>4, Zenon DEF OldBackup, LegacyOldBackup
<1>7. p # Link /\ p # Backup /\ p # LegacyBackupExe
  <2>1. E \o <<"backup", "TajsAnagrams.exe">> \in ReplacedFiles /\ Link \in ReplacedFiles
    BY DEF ReplacedFiles
  <2>2. IsPrefix(Install, Backup) /\ IsPrefix(Legacy, LegacyBackupExe)
    BY BelowTheDirectories
  <2> HIDE DEF E
  <2> QED BY <1>5, <2>1, <2>2, Zenon DEF Backup, LegacyBackupExe
<1>8. p \in {Settings, LegacySettings, OldSettings} => p \in SettingsFound
  <2>1. OldSettings \in SettingsFound /\ E \o <<"user-data", "settings.json">> \in SettingsFound
    BY DEF SettingsFound, OldSettings
  <2>2. IsPrefix(Install, Settings) /\ IsPrefix(Legacy, LegacySettings)
    BY BelowTheDirectories
  <2> HIDE DEF E
  <2> QED BY <1>5, <2>1, <2>2, PlacesJoined, Zenon DEF LegacySettings
<1>9. ASSUME NEW f \in plan.copies
      PROVE p # Corpora \o f /\ p # LegacyCorpora \o f /\ p # OldCorpora \o f
  <2>1. /\ f \in Names /\ IsPrefix(Install, Corpora \o f) /\ IsPrefix(Legacy, LegacyCorpora \o f)
        /\ IsPrefix(OldCorpora, OldCorpora \o f)
        /\ IsPrefix(Corpora, Corpora \o f) /\ IsPrefix(LegacyCorpora, LegacyCorpora \o f)
    BY BelowTheDirectories, Zenon DEF Planned
  <2>2. CorpusBefore(initial) \o f # p
    BY <1>9
  <2>3. CASE OldCorpora \in DOMAIN initial
    <3>1. CorpusBefore(initial) = OldCorpora
      BY <2>3 DEF CorpusBefore, Exists
    <3>2. E \o <<"corpora">> \notin DOMAIN initial
      BY <2>3, Zenon DEF Accepted, Exists
    <3> HIDE DEF E
    <3>3. E = Install => ~IsPrefix(Corpora, p)
      BY <3>2, <1>2, <1>3, AllPlacesAreNames, Zenon DEF Corpora
    <3>4. E = Legacy => ~IsPrefix(LegacyCorpora, p)
      BY <3>2, <1>2, <1>3, AllPlacesAreNames, Zenon DEF LegacyCorpora
    <3> QED BY <2>1, <2>2, <3>1, <3>3, <3>4, <1>5, Zenon
  <2>4. CASE OldCorpora \notin DOMAIN initial
    <3>1. CorpusBefore(initial) = E \o <<"corpora">>
      BY <2>4 DEF CorpusBefore, Exists
    <3>2. ~IsPrefix(OldCorpora, p)
      BY <2>4, <1>2, <1>3, AllPlacesAreNames, Zenon
    <3> HIDE DEF E
    <3>3. E = Install => p # Corpora \o f
      BY <3>1, <2>2, Zenon DEF Corpora
    <3>4. E = Legacy => p # LegacyCorpora \o f
      BY <3>1, <2>2, Zenon DEF LegacyCorpora
    <3> QED BY <2>1, <3>2, <3>3, <3>4, <1>5, Zenon
  <2> QED BY <2>3, <2>4
<1>10. ~(1 >= 8 + Len(CorpusFiles))
  BY CorpusIsListed
<1>11. ~IsPrefix(Recovery, p)
  BY <1>1, <1>2, <1>3, AllPlacesAreNames
<1> QED BY <1>1, <1>6, <1>7, <1>8, <1>9, <1>10, <1>11, Zenon DEF Safe

-----------------------------------------------------------------------------
(* What the operations of a statement may do *)

\* What is copied, and until when.
CopyMeant(op, at) ==
  \/ at <= 6 + Len(CorpusFiles) /\ \E f \in plan.copies : op.to = Corpora \o f
  \/ at = 7 + Len(CorpusFiles) /\ op.to = Backup
  \/ at = 9 + Len(CorpusFiles) /\ op.to = Exe /\ op.content = plan.candidate /\ Installs
  \/ op.to = Link

MoveMeant(op, at) ==
  \/ at <= 6 /\ Migration(op.from, op.to)
  \/ op.from = OldBackup /\ op.to = LegacyBackup

Meant(list, at) ==
  /\ list \in Seq(Ops)
  /\ \A i \in DOMAIN list : /\ list[i].do = "copy" => CopyMeant(list[i], at)
                            /\ list[i].do = "move" => MoveMeant(list[i], at)

\* The directories come first and are no copies or moves.
LEMMA DirsThenRest ==
  ASSUME NEW path \in Names, NEW n \in Nat, n <= Len(path), NEW rest \in Seq(Ops)
  PROVE LET all == Dirs(path, n) \o rest IN
        /\ all \in Seq(Ops)
        /\ \A i \in DOMAIN all :
             all[i].do = "mkdir" \/ \E j \in DOMAIN rest : all[i] = rest[j]
        /\ rest # <<>> => all # <<>> /\ all[Len(all)] = rest[Len(rest)]
<1> DEFINE all == Dirs(path, n) \o rest
<1>0. Len(path) \in Nat /\ Len(rest) \in Nat
  BY DEF Names
<1>1. CASE n = Len(path)
  <2>1. all = rest
    BY <1>1, DirsEnd
  <2> HIDE DEF all
  <2>2. /\ all \in Seq(Ops)
        /\ \A i \in DOMAIN all :
             all[i].do = "mkdir" \/ \E j \in DOMAIN rest : all[i] = rest[j]
        /\ rest # <<>> => all # <<>> /\ all[Len(all)] = rest[Len(rest)]
    BY <2>1
  <2> QED BY <2>2 DEF all
<1>2. CASE n < Len(path)
  <2> DEFINE dirs == Dirs(path, n)
  <2>1. dirs \in Seq(Ops)
    BY <1>2, DirsStart
  <2>2. \A i \in DOMAIN dirs : dirs[i].do = "mkdir"
    BY DEF Dirs, Op
  <2> HIDE DEF dirs
  <2> DEFINE both == dirs \o rest
  <2>3. /\ both \in Seq(Ops) /\ Len(both) = Len(dirs) + Len(rest)
        /\ \A i \in 1..(Len(dirs) + Len(rest)) :
             both[i] = IF i <= Len(dirs) THEN dirs[i] ELSE rest[i - Len(dirs)]
    BY <2>1, ConcatProperties
  <2> HIDE DEF both
  <2>4. ASSUME NEW i \in DOMAIN both
        PROVE both[i].do = "mkdir" \/ \E j \in DOMAIN rest : both[i] = rest[j]
    <3>1. i \in 1..(Len(dirs) + Len(rest)) /\ Len(dirs) \in Nat
      BY <2>1, <2>3
    <3>2. CASE i <= Len(dirs)
      <4>1. i \in DOMAIN dirs
        BY <3>1, <3>2, <2>1
      <4>2. both[i] = dirs[i]
        BY <3>1, <3>2, <2>3
      <4> QED BY <4>1, <4>2, <2>2
    <3>3. CASE ~(i <= Len(dirs))
      <4>1. i - Len(dirs) \in DOMAIN rest
        BY <3>1, <3>3, <1>0
      <4> QED BY <4>1, <3>1, <3>3, <2>3
    <3> QED BY <3>2, <3>3
  <2>5. ASSUME rest # <<>> PROVE both # <<>> /\ both[Len(both)] = rest[Len(rest)]
    <3>1. Len(rest) > 0 /\ Len(dirs) \in Nat
      BY <2>1, <2>5, <1>0
    <3>2. /\ Len(both) \in 1..(Len(dirs) + Len(rest)) /\ ~(Len(both) <= Len(dirs))
          /\ Len(both) - Len(dirs) = Len(rest)
      BY <3>1, <2>3, <1>0
    <3> QED BY <3>2, <2>3
  <2>6. both = all
    BY DEF both, dirs
  <2> HIDE DEF all
  <2>7. /\ all \in Seq(Ops)
        /\ \A i \in DOMAIN all :
             all[i].do = "mkdir" \/ \E j \in DOMAIN rest : all[i] = rest[j]
        /\ rest # <<>> => all # <<>> /\ all[Len(all)] = rest[Len(rest)]
    BY <2>3, <2>4, <2>5, <2>6
  <2> QED BY <2>7 DEF all
<1> QED BY <1>0, <1>1, <1>2

LEMMA MoveItemMeant ==
  ASSUME Named(fs), Closed(fs), NEW from \in Names, NEW to \in Names, to # <<>>, NEW at,
         (at <= 6 /\ Migration(from, to)) \/ (from = OldBackup /\ to = LegacyBackup)
  PROVE Meant(MoveItem(from, to), at)
<1> DEFINE op == Op("move", from, to, Nothing)
           rest == <<op>>
           path == Front(to)
           n == Known(path)
           all == Dirs(path, n) \o rest
<1>1. path \in Names
  BY FrontOfAPath
<1>2. n \in Nat /\ n <= Len(path)
  BY <1>1, KnownAncestors
<1>3. op \in Ops
  BY DEF Op, Ops, Contents
<1>4. MoveMeant(op, at) /\ op.do = "move"
  BY DEF MoveMeant, Op
<1> HIDE DEF op
<1>5. rest \in Seq(Ops) /\ \A j \in DOMAIN rest : rest[j] = op
  BY <1>3
<1>6. MoveItem(from, to) = all
  BY DEF MoveItem, MakeDirs, Dirs, op
<1> HIDE DEF rest, path, n
<1>7. /\ all \in Seq(Ops)
      /\ \A i \in DOMAIN all : all[i].do = "mkdir" \/ \E j \in DOMAIN rest : all[i] = rest[j]
  BY <1>1, <1>2, <1>5, DirsThenRest, Zenon
<1> HIDE DEF all
<1> QED BY <1>4, <1>5, <1>6, <1>7 DEF Meant

LEMMA SetFileMeant ==
  ASSUME Named(fs), Closed(fs), NEW to \in Names, to # <<>>, NEW content \in Contents \ {Nothing},
         NEW at, CopyMeant(Op("copy", <<>>, to, content), at)
  PROVE /\ Meant(SetFile(content, to), at)
        /\ SetFile(content, to) # <<>>
        /\ SetFile(content, to)[Len(SetFile(content, to))] = Op("copy", <<>>, to, content)
<1> DEFINE op == Op("copy", <<>>, to, content)
           saving == Op("save", <<>>, to, Nothing)
           rest == <<saving, op>>
           path == Front(to)
           n == Known(path)
           all == Dirs(path, n) \o rest
<1>1. path \in Names
  BY FrontOfAPath
<1>2. n \in Nat /\ n <= Len(path)
  BY <1>1, KnownAncestors
<1>3. op \in Ops /\ saving \in Ops
  <2>1. <<>> \in Names
    BY DEF Names
  <2>2. Nothing \in Contents
    BY DEF Contents
  <2> QED BY <2>1, <2>2 DEF Op, Ops
<1>4. saving.do = "save" /\ op.do = "copy"
  BY DEF Op
<1>4a. CopyMeant(op, at)
  OBVIOUS
<1>5a. SetFile(content, to) = all
  BY DEF SetFile, Replace, MakeDirs, Dirs
<1>5b. op = Op("copy", <<>>, to, content)
  OBVIOUS
<1> HIDE DEF op, saving
<1>5. /\ rest \in Seq(Ops) /\ rest # <<>> /\ rest[Len(rest)] = op
      /\ \A j \in DOMAIN rest : rest[j] = op \/ rest[j] = saving
  BY <1>3
<1> HIDE DEF rest, path, n
<1>7. /\ all \in Seq(Ops)
      /\ \A i \in DOMAIN all : all[i].do = "mkdir" \/ \E j \in DOMAIN rest : all[i] = rest[j]
      /\ all # <<>> /\ all[Len(all)] = op
  BY <1>1, <1>2, <1>5, DirsThenRest, Zenon
<1> HIDE DEF all
<1>8. Meant(all, at)
  BY <1>4, <1>4a, <1>5, <1>7 DEF Meant
<1> QED BY <1>5a, <1>5b, <1>7, <1>8

LEMMA MeantAfterwards ==
  ASSUME NEW list, NEW at, Meant(list, at), list # <<>>
  PROVE /\ Meant(Tail(list), at)
        /\ Head(list).do = "copy" => CopyMeant(Head(list), at)
        /\ Head(list).do = "move" => MoveMeant(Head(list), at)
        /\ Len(list) \in Nat /\ Tail(list) # <<>> => Tail(list)[Len(Tail(list))] = list[Len(list)]
<1>1. list \in Seq(Ops) /\ Len(list) \in Nat /\ Len(list) > 0 /\ DOMAIN list = 1..Len(list)
  BY DEF Meant
<1> DEFINE tail == Tail(list)
<1>2. /\ tail \in Seq(Ops) /\ Len(tail) = Len(list) - 1
      /\ \A i \in 1..(Len(list) - 1) : tail[i] = list[i + 1]
  BY <1>1, HeadTailProperties
<1>3. Head(list) = list[1] /\ 1 \in DOMAIN list
  BY <1>1
<1> HIDE DEF tail
<1>4. \A i \in DOMAIN tail : i + 1 \in DOMAIN list /\ tail[i] = list[i + 1]
  BY <1>1, <1>2
<1>5. Meant(tail, at)
  BY <1>2, <1>4 DEF Meant
<1>6. tail # <<>> => tail[Len(tail)] = list[Len(list)]
  <2>1. tail # <<>> => Len(tail) > 0
    BY <1>2
  <2>2. Len(tail) > 0 => Len(tail) \in DOMAIN tail /\ Len(tail) + 1 = Len(list)
    BY <1>1, <1>2
  <2> QED BY <2>1, <2>2, <1>4
<1> QED BY <1>1, <1>3, <1>5, <1>6 DEF Meant, tail

LEMMA StatementMeant ==
  ASSUME Shape, Undisturbed, stage <= LastStage
  PROVE /\ Meant(Statement(stage), stage + 1)
        /\ stage = 6 + Len(CorpusFiles) =>
             Statement(stage) = When(Installs /\ Exists(fs, Exe)
                                       /\ (fs[Exe] # plan.candidate \/ ~Exists(fs, Backup)),
                                     SetFile(fs[Exe], Backup))
<1> DEFINE copies == Len(CorpusFiles)
           meant(list) == Meant(list, stage + 1)
<1>0. /\ Named(fs) /\ Closed(fs) /\ stage \in Nat /\ stage # 0 /\ copies \in Nat
      /\ stage <= 10 + copies
      /\ \A p \in DOMAIN fs : fs[p] \in Contents \ {Nothing}
  BY CorpusIsListed DEF Undisturbed, Intact, Shape, LastStage
<1>1. \A from \in Names, to \in Names :
        to # <<>> /\ ((stage + 1 <= 6 /\ Migration(from, to)) \/ (from = OldBackup /\ to = LegacyBackup))
          => meant(MoveItem(from, to))
  BY <1>0, MoveItemMeant
<1>2. \A to \in Names, content \in Contents \ {Nothing} :
        to # <<>> /\ CopyMeant(Op("copy", <<>>, to, content), stage + 1) => meant(SetFile(content, to))
  BY <1>0, SetFileMeant
<1>3. meant(<<>>)
  BY DEF Meant
<1>4. \A condition, list : (condition => meant(list)) => meant(When(condition, list))
  BY <1>3 DEF When
<1> HIDE DEF meant
<1>5. /\ {Exe, Backup, Link, Install, OldLink, Corpora, UserData, LegacyBackup} \subseteq Names
      /\ {Legacy, OldExe, LegacyLink, OldCorpora, OldProfile, OldBackup} \subseteq Names
  BY AllPlacesAreNames
<1>6. /\ Exe # <<>> /\ Backup # <<>> /\ Link # <<>> /\ Install # <<>> /\ OldLink # <<>>
      /\ Corpora # <<>> /\ UserData # <<>> /\ LegacyBackup # <<>>
  BY Places, InnerPlaces DEF Path2, Path3, Path4, Names
<1>7. ASSUME stage <= 5 PROVE meant(Statement(stage))
  <2>1. stage + 1 <= 6
    BY <1>0, <1>7
  <2>2. /\ meant(MoveItem(Legacy, Install)) /\ meant(MoveItem(OldExe, Exe))
        /\ meant(MoveItem(LegacyLink, OldLink)) /\ meant(MoveItem(OldCorpora, Corpora))
        /\ meant(MoveItem(OldProfile, UserData))
    BY <2>1, <1>1, <1>5, <1>6, Zenon DEF Migration
  <2>3. stage \in 1..5
    BY <1>0, <1>7
  <2>4. \E condition, list : /\ Statement(stage) = When(condition, list)
                             /\ meant(list)
    <3>1. CASE stage = 1
      BY <3>1, <2>2, <1>0, Statements, Zenon
    <3>2. CASE stage = 2
      BY <3>2, <2>2, <1>0, Statements, Zenon
    <3>3. CASE stage = 3
      BY <3>3, <2>2, <1>0, Statements, Zenon
    <3>4. CASE stage = 4
      BY <3>4, <2>2, <1>0, Statements, Zenon
    <3>5. CASE stage = 5
      BY <3>5, <2>2, <1>0, Statements, Zenon
    <3>6. stage = 1 \/ stage = 2 \/ stage = 3 \/ stage = 4 \/ stage = 5
      BY <2>3
    <3> QED BY <3>1, <3>2, <3>3, <3>4, <3>5, <3>6, Zenon
  <2> QED BY <2>4, <1>4, Zenon
<1>8. ASSUME stage \in 6..(5 + copies) PROVE meant(Statement(stage))
  <2> DEFINE to == Corpora \o CorpusFiles[stage - 5]
             text == "corpus of the project"
  <2>1. stage - 5 \in DOMAIN CorpusFiles /\ stage + 1 <= 6 + copies
    BY <1>0, <1>8, CorpusIsListed
  <2>2. to \in Names /\ to # <<>>
    <3>1. to \in Names /\ Len(to) > 3
      BY <2>1, CorpusPlaces
    <3> HIDE DEF to
    <3> QED BY <3>1 DEF Names
  <2>3. text \in Contents \ {Nothing}
    BY DEF Contents, Nothing
  <2>4. Op("copy", <<>>, to, text).to = to
    BY DEF Op
  <2>5. Statement(stage) = When(CorpusFiles[stage - 5] \in plan.copies, SetFile(text, to))
    BY <1>0, <1>8, Statements
  <2>6. CorpusFiles[stage - 5] \in plan.copies => \E f \in plan.copies : to = Corpora \o f
    BY Zenon
  <2> HIDE DEF to, text
  <2>7. CorpusFiles[stage - 5] \in plan.copies => meant(SetFile(text, to))
    BY <2>1, <2>2, <2>3, <2>4, <2>6, <1>2 DEF CopyMeant
  <2> QED BY <2>5, <2>7, <1>4
<1>9. ASSUME stage = 6 + copies PROVE meant(Statement(stage))
  <2>1. stage + 1 = 7 + copies
    BY <1>0, <1>9
  <2>2. Op("copy", <<>>, Backup, fs[Exe]).to = Backup
    BY DEF Op
  <2>3. Exists(fs, Exe) => meant(SetFile(fs[Exe], Backup))
    BY <2>1, <2>2, <1>0, <1>2, <1>5, <1>6 DEF CopyMeant, Exists
  <2>4. Statement(stage) = When(Installs /\ Exists(fs, Exe)
                                  /\ (fs[Exe] # plan.candidate \/ ~Exists(fs, Backup)),
                                SetFile(fs[Exe], Backup))
    BY <1>0, <1>9, Statements
  <2> QED BY <2>3, <2>4, <1>4
<1>10. ASSUME stage = 7 + copies PROVE meant(Statement(stage))
  <2>1. meant(MoveItem(OldBackup, LegacyBackup))
    BY <1>1, <1>5, <1>6
  <2>2. Statement(stage) = When(Installs /\ Exists(fs, OldBackup) /\ Exists(fs, Backup),
                                MoveItem(OldBackup, LegacyBackup))
    BY <1>0, <1>10, Statements
  <2> QED BY <2>1, <2>2, <1>4
<1>11. ASSUME stage = 8 + copies PROVE meant(Statement(stage))
  <2>1. stage + 1 = 9 + copies
    BY <1>0, <1>11
  <2>2. Op("copy", <<>>, Exe, plan.candidate).to = Exe
        /\ Op("copy", <<>>, Exe, plan.candidate).content = plan.candidate
    BY DEF Op
  <2>3. Installs => plan.candidate \in Contents \ {Nothing}
    BY InstallationAssumption DEF Shape, Installs, Contents
  <2>4. Installs => meant(SetFile(plan.candidate, Exe))
    BY <2>1, <2>2, <2>3, <1>2, <1>5, <1>6 DEF CopyMeant
  <2>5. Statement(stage) = When(Installs, SetFile(plan.candidate, Exe))
    BY <1>0, <1>11, Statements
  <2> QED BY <2>4, <2>5, <1>4
<1>12. ASSUME stage = 9 + copies PROVE meant(Statement(stage))
  <2>1. Op("copy", <<>>, Link, "new shortcut").to = Link
    BY DEF Op
  <2>2. "new shortcut" \in Contents \ {Nothing}
    BY DEF Contents, Nothing
  <2>3. meant(SetFile("new shortcut", Link))
    BY <2>1, <2>2, <1>2, <1>5, <1>6 DEF CopyMeant
  <2>4. Statement(stage) = When(Installs, SetFile("new shortcut", Link))
    BY <1>0, <1>12, Statements
  <2> QED BY <2>3, <2>4, <1>4
<1>13. ASSUME stage = 10 + copies PROVE meant(Statement(stage))
  <2>1. meant(SaveTheSettings)
    <3> DEFINE op == Op("save", <<>>, Settings, Nothing)
    <3>1. <<>> \in Names /\ Settings \in Names
      BY AllPlacesAreNames DEF Names
    <3>2. Nothing \in Contents
      BY DEF Contents
    <3>3. op \in Ops /\ op.do = "save"
      BY <3>1, <3>2 DEF Op, Ops
    <3>4. SaveTheSettings = <<op>>
      BY DEF SaveTheSettings
    <3> HIDE DEF op
    <3> QED BY <3>3, <3>4 DEF Meant, meant
  <2>2. Statement(stage) = When(Installs, SaveTheSettings)
    BY <1>0, <1>13, Statements
  <2> QED BY <2>1, <2>2, <1>4
<1>14. \/ stage <= 5 \/ stage \in 6..(5 + copies) \/ stage = 6 + copies \/ stage = 7 + copies
       \/ stage = 8 + copies \/ stage = 9 + copies \/ stage = 10 + copies
  BY <1>0
<1>15. meant(Statement(stage))
  BY <1>7, <1>8, <1>9, <1>10, <1>11, <1>12, <1>13, <1>14
<1>16. stage = 6 + Len(CorpusFiles) =>
         Statement(stage) = When(Installs /\ Exists(fs, Exe)
                                   /\ (fs[Exe] # plan.candidate \/ ~Exists(fs, Backup)),
                                 SetFile(fs[Exe], Backup))
  BY <1>0, Statements
<1> QED BY <1>15, <1>16 DEF meant

-----------------------------------------------------------------------------
(* The operations leave every file of the user a safe place *)

\* All but what is replaced has a copy where nothing overwrites it.
Held(tree, at) ==
  \A p \in DOMAIN initial \ ReplacedFiles :
    \E q \in DOMAIN tree : tree[q] = initial[p] /\ Safe(p, q, at)

LEMMA HeldAfterAdding ==
  ASSUME NEW tree, NEW at, Held(tree, at), NEW path, path \notin DOMAIN tree, NEW content
  PROVE Held(With(tree, path, content), at)
<1> DEFINE next == With(tree, path, content)
<1>1. \A q \in DOMAIN tree : q \in DOMAIN next /\ next[q] = tree[q]
  BY DEF With
<1> HIDE DEF next
<1>2. Held(next, at)
  BY <1>1 DEF Held
<1> QED BY <1>2 DEF next

LEMMA HeldAfterACopy ==
  ASSUME NEW tree, NEW at \in Nat, Held(tree, at), NEW op, CopyMeant(op, at)
  PROVE Held(With(tree, op.to, op.content), at)
<1> DEFINE next == With(tree, op.to, op.content)
<1>1. /\ \A q \in DOMAIN tree : q \in DOMAIN next /\ (q # op.to => next[q] = tree[q])
      /\ next[op.to] = op.content
  BY DEF With
<1> HIDE DEF next
<1>2. ASSUME NEW p \in DOMAIN initial \ ReplacedFiles
      PROVE \E q \in DOMAIN next : next[q] = initial[p] /\ Safe(p, q, at)
  <2>1. PICK q \in DOMAIN tree : tree[q] = initial[p] /\ Safe(p, q, at)
    BY <1>2 DEF Held
  <2>2. Len(CorpusFiles) \in Nat
    BY CorpusIsListed
  <2>3. q = op.to => op.content = initial[p]
    <3>1. CASE \E f \in plan.copies : op.to = Corpora \o f
      BY <2>1, <3>1 DEF Safe
    <3>2. CASE at = 7 + Len(CorpusFiles) /\ op.to = Backup
      <4>1. at <= 7 + Len(CorpusFiles)
        BY <3>2, <2>2
      <4> QED BY <2>1, <3>2, <4>1 DEF Safe
    <3>3. CASE at = 9 + Len(CorpusFiles) /\ op.to = Exe /\ op.content = plan.candidate /\ Installs
      <4>1. at >= 8 + Len(CorpusFiles)
        BY <3>3, <2>2
      <4> QED BY <2>1, <3>3, <4>1 DEF Safe
    <3>4. CASE op.to = Link
      BY <2>1, <3>4 DEF Safe
    <3> QED BY <3>1, <3>2, <3>3, <3>4 DEF CopyMeant
  <2> QED BY <1>1, <2>1, <2>3
<1>3. Held(next, at)
  BY <1>2 DEF Held
<1> QED BY <1>3 DEF next

\* Where a move takes what is below its source.
LEMMA MovedTo ==
  ASSUME NEW tree, Named(tree), NEW from \in Names, NEW to \in Names,
         NEW q \in DOMAIN tree, IsPrefix(from, q)
  PROVE /\ Rebase(q, from, to) \in DOMAIN Moved(tree, from, to)
        /\ Moved(tree, from, to)[Rebase(q, from, to)] = tree[q]
<1> DEFINE later == Moved(tree, from, to)
           p == Rebase(q, from, to)
<1>1. \A r \in Names :
        /\ r \in DOMAIN later <=>
             \/ IsPrefix(to, r) /\ Rebase(r, to, from) \in DOMAIN tree
             \/ r \in DOMAIN tree /\ ~IsPrefix(from, r)
        /\ IsPrefix(to, r) /\ Rebase(r, to, from) \in DOMAIN tree =>
             later[r] = tree[Rebase(r, to, from)]
        /\ ~(IsPrefix(to, r) /\ Rebase(r, to, from) \in DOMAIN tree)
             /\ r \in DOMAIN tree /\ ~IsPrefix(from, r) => later[r] = tree[r]
  BY MovedFacts, Zenon
<1>2. q \in Names
  BY DEF Named
<1>3. p \in Names /\ IsPrefix(to, p) /\ Rebase(p, to, from) = q
  BY <1>2, RebaseShape, RebaseBack, Zenon
<1> HIDE DEF later, p
<1>4. p \in DOMAIN later /\ later[p] = tree[q]
  BY <1>1, <1>3
<1> QED BY <1>4 DEF later, p

LEMMA HeldAfterAMove ==
  ASSUME Planned, NEW tree, Named(tree), Closed(tree), NEW at \in Nat, Held(tree, at),
         NEW op, MoveMeant(op, at), Movable(tree, op.from, op.to)
  PROVE Held(Moved(tree, op.from, op.to), at)
<1> DEFINE from == op.from
           to == op.to
           later == Moved(tree, from, to)
<1>1. from \in Names /\ to \in Names
  BY DEF Movable
<1>2. \A p \in DOMAIN tree : ~IsPrefix(from, p) => p \in DOMAIN later /\ later[p] = tree[p]
  BY MovedContents
<1>3. \A q \in DOMAIN tree : IsPrefix(from, q) =>
        Rebase(q, from, to) \in DOMAIN later /\ later[Rebase(q, from, to)] = tree[q]
  BY <1>1, MovedTo, Zenon
<1>4. (at <= 6 /\ Migration(from, to)) \/ from = OldBackup
  BY DEF MoveMeant
<1> HIDE DEF later, from, to
<1>5. ASSUME NEW p \in DOMAIN initial \ ReplacedFiles
      PROVE \E q \in DOMAIN later : later[q] = initial[p] /\ Safe(p, q, at)
  <2>1. PICK q \in DOMAIN tree : tree[q] = initial[p] /\ Safe(p, q, at)
    BY <1>5 DEF Held
  <2>2. q \in Names
    BY <2>1 DEF Named
  <2>3. CASE ~IsPrefix(from, q)
    BY <2>1, <2>3, <1>2
  <2>4. CASE IsPrefix(from, q)
    <3>1. at <= 6 /\ Migration(from, to)
      BY <2>1, <2>4, <1>4 DEF Safe
    <3>2. Safe(p, Rebase(q, from, to), at)
      BY <2>1, <2>2, <2>4, <3>1, SafeAfterMigration
    <3> QED BY <2>1, <2>4, <3>2, <1>3
  <2> QED BY <2>3, <2>4
<1>6. Held(later, at)
  BY <1>5 DEF Held
<1> QED BY <1>6 DEF later, from, to

\* What was said of one state and of the next is the same.
LEMMA HeldNext ==
  ASSUME initial' = initial, plan' = plan, Held(fs', stage')
  PROVE Held(fs, stage)'
<1>1. SettingsFound' = SettingsFound /\ ReplacedFiles' = ReplacedFiles /\ (Installs' <=> Installs)
  BY DEF SettingsFound, ReplacedFiles, Installs
<1> QED BY <1>1 DEF Held, Safe

\* The backup of what is replaced is safe once it is made.
LEMMA BackupIsSafe ==
  ASSUME Planned, NEW path, NEW at, ~(at <= 7 + Len(CorpusFiles))
  PROVE Safe(path, Backup, at)
<1>1. /\ Path4(Backup, "TajemnikTV", "TajsAnagrams", "backup", "TajsAnagrams.exe")
      /\ Path4(OldBackup, "TajemnikTV", "TajsAnagrams", "backup", "AnagramSolver.exe")
      /\ Path4(Settings, "TajemnikTV", "TajsAnagrams", "user-data", "settings.json")
      /\ Path3(Exe, "TajemnikTV", "TajsAnagrams", "TajsAnagrams.exe")
      /\ Path3(Corpora, "TajemnikTV", "TajsAnagrams", "corpora")
  BY InnerPlaces
<1>2. Backup \in Names /\ IsPrefix(Install, Backup)
  BY AllPlacesAreNames, BelowTheDirectories, Zenon
<1>3. ~IsPrefix(OldBackup, Backup)
  <2>1. OldBackup \in Names /\ 4 \in 1..Len(OldBackup) /\ OldBackup[4] # Backup[4]
    BY <1>1 DEF Path4
  <2> QED BY <2>1, <1>2, Apart
<1>4. Backup # Settings /\ Backup # Exe
  BY <1>1 DEF Path3, Path4
<1>5. ASSUME NEW f \in plan.copies PROVE Backup # Corpora \o f
  <2>1. f \in Names /\ IsPrefix(Corpora, Corpora \o f)
    BY BelowTheDirectories, Zenon DEF Planned
  <2>2. Corpora \in Names /\ 3 \in 1..Len(Corpora) /\ Corpora[3] # Backup[3]
    BY <1>1 DEF Path3, Path4
  <2>3. ~IsPrefix(Corpora, Backup)
    BY <2>2, <1>2, Apart
  <2> QED BY <2>1, <2>3
<1> QED BY <1>2, <1>3, <1>4, <1>5, NotElsewhere, Zenon DEF Safe

-----------------------------------------------------------------------------
(* What is followed until the application starts *)

\* Between the statement that keeps a copy of the executable and the next one.
ExeIsBackedUp ==
  stage = 7 + Len(CorpusFiles) /\ Installs =>
    /\ ops = <<>> /\ Exists(fs, Exe) /\ fs[Exe] # plan.candidate =>
         Exists(fs, Backup) /\ fs[Backup] = fs[Exe]
    /\ ops # <<>> => Exists(fs, Exe) /\ ops[Len(ops)] = Op("copy", <<>>, Backup, fs[Exe])

Following == Planned /\ Meant(ops, stage) /\ ExeIsBackedUp /\ Held(fs, stage)

\* An operation that is no copy is not the last of that statement.
LEMMA StillBackedUp ==
  ASSUME Following, ops # <<>>, Head(ops).do # "copy", ops' = Tail(ops), stage' = stage, plan' = plan,
         Exists(fs, Exe) => Exists(fs, Exe)' /\ fs'[Exe] = fs[Exe]
  PROVE /\ ExeIsBackedUp'
        /\ stage = 7 + Len(CorpusFiles) /\ Installs => Tail(ops) # <<>>
<1>1. Meant(ops, stage) /\ ops \in Seq(Ops) /\ ExeIsBackedUp
  BY DEF Following, Meant
<1>2. Installs' <=> Installs
  BY DEF Installs
<1>3. ASSUME stage = 7 + Len(CorpusFiles), Installs
      PROVE /\ Tail(ops) # <<>> /\ Exists(fs, Exe)
            /\ Tail(ops)[Len(Tail(ops))] = Op("copy", <<>>, Backup, fs[Exe])
  <2>1. Exists(fs, Exe) /\ ops[Len(ops)] = Op("copy", <<>>, Backup, fs[Exe])
    BY <1>1, <1>3 DEF ExeIsBackedUp
  <2>2. ops[Len(ops)].do = "copy"
    BY <2>1 DEF Op
  <2>3. Len(ops) # 1
    BY <1>1, <2>2
  <2>4. Tail(ops) # <<>>
    <3>1. Len(ops) \in Nat /\ Len(ops) > 0 /\ Len(Tail(ops)) = Len(ops) - 1
      BY <1>1, HeadTailProperties
    <3> DEFINE tail == Tail(ops)
    <3> HIDE DEF tail
    <3>2. Len(tail) # 0
      BY <2>3, <3>1 DEF tail
    <3>3. tail # <<>>
      BY <3>2
    <3> QED BY <3>3 DEF tail
  <2>5. Tail(ops)[Len(Tail(ops))] = ops[Len(ops)]
    BY <1>1, <2>4, MeantAfterwards
  <2> QED BY <2>1, <2>4, <2>5
<1>4. ExeIsBackedUp'
  BY <1>2, <1>3 DEF ExeIsBackedUp
<1> QED BY <1>3, <1>4

LEMMA FollowingNext ==
  ASSUME Following, ops # <<>>, ops' = Tail(ops), initial' = initial, plan' = plan, stage' = stage,
         Held(fs', stage), ExeIsBackedUp'
  PROVE Following'
<1>1. Meant(Tail(ops), stage)
  BY MeantAfterwards DEF Following
<1>2. Meant(ops, stage)'
  <2>1. Installs' <=> Installs
    BY DEF Installs
  <2> QED BY <1>1, <2>1 DEF Meant, CopyMeant, MoveMeant
<1>3. Held(fs, stage)'
  BY HeldNext
<1>4. Planned'
  BY DEF Following, Planned
<1> QED BY <1>2, <1>3, <1>4 DEF Following

LEMMA CreateDirectoryFollows ==
  ASSUME Shape, Undisturbed, Following, CreateDirectory
  PROVE Following'
<1>0. Named(fs) /\ Pending(ops, fs, journal, stage) /\ Held(fs, stage)
  BY DEF Undisturbed, Intact, Following
<1>1. /\ ops # <<>> /\ Head(ops).do = "mkdir" /\ fs' = With(fs, Head(ops).to, Dir)
      /\ ops' = Tail(ops) /\ initial' = initial /\ plan' = plan /\ stage' = stage
  BY DEF CreateDirectory, Advance
<1>2. NextIsMkdir(ops, fs, stage)
  BY <1>0, <1>1, PendingHead DEF NextIsMove, NextIsSave, NextIsCopy, SaveTheSettings, Op
<1>3. PICK path \in Names : path \notin DOMAIN fs /\ Head(ops) = Op("mkdir", <<>>, path, Dir)
  BY <1>0, <1>2, PendingAfterMkdir
<1>4. Head(ops).to = path
  BY <1>3 DEF Op
<1>5. Held(fs', stage)
  BY <1>0, <1>1, <1>3, <1>4, HeldAfterAdding
<1>6. Exists(fs, Exe) => Exists(fs, Exe)' /\ fs'[Exe] = fs[Exe]
  BY <1>1, <1>3, <1>4 DEF With, Exists
<1>7. Head(ops).do # "copy"
  BY <1>1
<1>8. ExeIsBackedUp'
  BY <1>1, <1>6, <1>7, StillBackedUp
<1> QED BY <1>1, <1>5, <1>8, FollowingNext

LEMMA SaveFileFollows ==
  ASSUME Following, SaveFile
  PROVE Following'
<1>1. /\ ops # <<>> /\ Head(ops).do = "save" /\ fs' = fs
      /\ ops' = Tail(ops) /\ initial' = initial /\ plan' = plan /\ stage' = stage
  BY DEF SaveFile, Advance
<1>2. Held(fs', stage)
  BY <1>1 DEF Following
<1>3. Head(ops).do # "copy" /\ (Exists(fs, Exe) => Exists(fs, Exe)' /\ fs'[Exe] = fs[Exe])
  BY <1>1 DEF Exists
<1>4. ExeIsBackedUp'
  BY <1>1, <1>3, StillBackedUp
<1> QED BY <1>1, <1>2, <1>4, FollowingNext

LEMMA MoveFollows ==
  ASSUME Shape, Undisturbed, Following, Move
  PROVE Following'
<1>0. /\ Named(fs) /\ Closed(fs) /\ Pending(ops, fs, journal, stage) /\ Held(fs, stage)
      /\ Planned /\ Meant(ops, stage) /\ ExeIsBackedUp
  BY DEF Undisturbed, Intact, Following
<1>1. /\ ops # <<>> /\ Head(ops).do = "move" /\ ~Exists(fs, Head(ops).to)
      /\ fs' = Moved(fs, Head(ops).from, Head(ops).to)
      /\ ops' = Tail(ops) /\ initial' = initial /\ plan' = plan /\ stage' = stage
  BY DEF Move, Advance
<1>2. NextIsMove(ops, fs, stage)
  BY <1>0, <1>1, PendingHead DEF NextIsMkdir, NextIsSave, NextIsCopy, SaveTheSettings, Op
<1>3. PICK from, to :
        /\ MoveMade(from, to, stage) /\ from \in DOMAIN fs
        /\ Head(ops) = Op("move", from, to, Nothing) /\ Tail(ops) = <<>>
  BY <1>2 DEF NextIsMove
<1>4. Head(ops).to = to /\ Head(ops).from = from
  BY <1>3 DEF Op
<1>5. Movable(fs, Head(ops).from, Head(ops).to)
  BY <1>1, <1>3, <1>4 DEF MoveMade, Movable
<1>6. MoveMeant(Head(ops), stage) /\ stage \in Nat
  BY <1>0, <1>1, MeantAfterwards, StagesAreNumbers
<1>7. Held(fs', stage)
  BY <1>0, <1>1, <1>5, <1>6, HeldAfterAMove
<1>8. ExeIsBackedUp'
  <2>1. ops[Len(ops)] = Head(ops)
    <3>1. ops \in Seq(Ops) /\ Len(ops) \in Nat /\ Len(ops) > 0
      BY <1>0, <1>1 DEF Meant
    <3> DEFINE tail == Tail(ops)
    <3>2. Len(tail) = Len(ops) - 1
      BY <1>1, <3>1, HeadTailProperties
    <3>3. tail = <<>>
      BY <1>3
    <3> HIDE DEF tail
    <3>4. Len(ops) = 1
      BY <3>1, <3>2, <3>3
    <3> QED BY <3>1, <3>4
  <2>2. ops[Len(ops)].do # "copy"
    BY <2>1, <1>1
  <2>3. ops[Len(ops)] # Op("copy", <<>>, Backup, fs[Exe])
    BY <2>2 DEF Op
  <2>4. ~(stage = 7 + Len(CorpusFiles) /\ Installs)
    BY <2>3, <1>0, <1>1 DEF ExeIsBackedUp
  <2> QED BY <2>4, <1>1 DEF ExeIsBackedUp, Installs
<1> QED BY <1>1, <1>7, <1>8, FollowingNext

LEMMA CopyFileFollows ==
  ASSUME Shape, Undisturbed, Following, CopyFile
  PROVE Following'
<1>0. /\ Pending(ops, fs, journal, stage) /\ Held(fs, stage)
      /\ Planned /\ Meant(ops, stage) /\ ExeIsBackedUp
  BY DEF Undisturbed, Following
<1>1. /\ ops # <<>> /\ Head(ops).do = "copy"
      /\ fs' = With(fs, Head(ops).to, Head(ops).content)
      /\ ops' = Tail(ops) /\ initial' = initial /\ plan' = plan /\ stage' = stage
  BY DEF CopyFile, Advance
<1>2. NextIsCopy(ops, fs, journal)
  BY <1>0, <1>1, PendingHead DEF NextIsMkdir, NextIsMove, NextIsSave, SaveTheSettings, Op
<1>3. Tail(ops) = <<>>
  BY <1>2 DEF NextIsCopy
<1>4. CopyMeant(Head(ops), stage) /\ stage \in Nat
  BY <1>0, <1>1, MeantAfterwards, StagesAreNumbers
<1>5. Held(fs', stage)
  BY <1>0, <1>1, <1>4, HeldAfterACopy
<1>6. ExeIsBackedUp'
  <2>1. ops[Len(ops)] = Head(ops)
    <3>1. ops \in Seq(Ops) /\ Len(ops) \in Nat /\ Len(ops) > 0
      BY <1>0, <1>1 DEF Meant
    <3> DEFINE tail == Tail(ops)
    <3>2. Len(tail) = Len(ops) - 1
      BY <1>1, <3>1, HeadTailProperties
    <3>3. tail = <<>>
      BY <1>3
    <3> HIDE DEF tail
    <3>4. Len(ops) = 1
      BY <3>1, <3>2, <3>3
    <3> QED BY <3>1, <3>4
  <2>2. ASSUME stage = 7 + Len(CorpusFiles), Installs
        PROVE Exists(fs', Backup) /\ fs'[Backup] = fs'[Exe]
    <3>1. Exists(fs, Exe) /\ Head(ops) = Op("copy", <<>>, Backup, fs[Exe])
      BY <2>1, <2>2, <1>0, <1>1 DEF ExeIsBackedUp
    <3>2. Head(ops).to = Backup /\ Head(ops).content = fs[Exe]
      BY <3>1 DEF Op
    <3>3. Exe # Backup
      BY InnerPlaces DEF Path3, Path4
    <3> QED BY <3>1, <3>2, <3>3, <1>1 DEF With, Exists
  <2>3. ops' = <<>>
    BY <1>1, <1>3
  <2>4. Installs' <=> Installs
    BY <1>1 DEF Installs
  <2> QED BY <2>2, <2>3, <2>4, <1>1 DEF ExeIsBackedUp, Exists
<1> QED BY <1>1, <1>5, <1>6, FollowingNext

LEMMA BeginFollows ==
  ASSUME Shape, Undisturbed, Following, Begin
  PROVE Following'
<1> DEFINE copies == Len(CorpusFiles)
<1>0. Held(fs, stage) /\ Planned /\ ExeIsBackedUp
  BY DEF Following
<1>1. /\ ops = <<>> /\ stage <= LastStage /\ ops' = Statement(stage) /\ stage' = stage + 1
      /\ fs' = fs /\ initial' = initial /\ plan' = plan
  BY DEF Begin
<1>2. stage \in Nat /\ copies \in Nat
  BY StagesAreNumbers, CorpusIsListed
<1>3. Held(fs, stage + 1)
  <2>1. ASSUME NEW p \in DOMAIN initial \ ReplacedFiles
        PROVE \E q \in DOMAIN fs : fs[q] = initial[p] /\ Safe(p, q, stage + 1)
    <3>1. PICK q \in DOMAIN fs : fs[q] = initial[p] /\ Safe(p, q, stage)
      BY <2>1, <1>0 DEF Held
    <3>2. CASE stage = 7 + copies /\ Installs /\ q = Exe /\ initial[p] # plan.candidate
      <4>1. Exists(fs, Backup) /\ fs[Backup] = fs[Exe]
        BY <3>1, <3>2, <1>0, <1>1 DEF ExeIsBackedUp, Exists
      <4>2. Safe(p, Backup, stage + 1)
        BY <3>2, <1>0, <1>2, BackupIsSafe
      <4> QED BY <4>1, <4>2, <3>1, <3>2 DEF Exists
    <3>3. CASE ~(stage = 7 + copies /\ Installs /\ q = Exe /\ initial[p] # plan.candidate)
      <4>1. stage + 1 <= 7 + copies => stage <= 7 + copies
        BY <1>2
      <4>2. stage + 1 >= 8 + copies => stage >= 8 + copies \/ stage = 7 + copies
        BY <1>2
      <4>3. Safe(p, q, stage + 1)
        BY <3>1, <3>3, <4>1, <4>2 DEF Safe
      <4> QED BY <3>1, <4>3
    <3> QED BY <3>2, <3>3
  <2> QED BY <2>1 DEF Held
<1>4. Held(fs, stage)'
  BY <1>1, <1>3, HeldNext
<1>5. Meant(ops, stage)'
  <2>1. Meant(Statement(stage), stage + 1)
    BY <1>1, StatementMeant
  <2>2. Installs' <=> Installs
    BY <1>1 DEF Installs
  <2> HIDE DEF copies
  <2>3. Meant(ops', stage')
    BY <2>1, <1>1
  <2> QED BY <2>2, <2>3, <1>1 DEF Meant, CopyMeant, MoveMeant
<1>6. ExeIsBackedUp'
  <2>1. ASSUME stage' = 7 + Len(CorpusFiles), Installs
        PROVE /\ ops' = <<>> /\ Exists(fs, Exe) /\ fs[Exe] # plan.candidate =>
                   Exists(fs, Backup) /\ fs[Backup] = fs[Exe]
              /\ ops' # <<>> => /\ Exists(fs, Exe)
                                /\ ops'[Len(ops')] = Op("copy", <<>>, Backup, fs[Exe])
    <3> DEFINE list == SetFile(fs[Exe], Backup)
               needed == Exists(fs, Exe) /\ (fs[Exe] # plan.candidate \/ ~Exists(fs, Backup))
    <3>1. stage = 6 + Len(CorpusFiles)
      BY <2>1, <1>1, <1>2
    <3>2. ops' = When(Installs /\ Exists(fs, Exe)
                        /\ (fs[Exe] # plan.candidate \/ ~Exists(fs, Backup)), list)
      BY <3>1, <1>1, StatementMeant
    <3>3. CASE needed
      <4>1. ops' = list
        BY <3>2, <3>3, <2>1 DEF When
      <4>2. /\ Named(fs) /\ Closed(fs) /\ Backup \in Names /\ Backup # <<>>
            /\ fs[Exe] \in Contents \ {Nothing}
        <5>1. Backup \in Names /\ Backup # <<>>
          BY InnerPlaces DEF Path4, Names
        <5> QED BY <5>1, <3>3 DEF Undisturbed, Intact, Exists
      <4>3. CopyMeant(Op("copy", <<>>, Backup, fs[Exe]), stage')
        <5>1. Op("copy", <<>>, Backup, fs[Exe]).to = Backup
          BY DEF Op
        <5> QED BY <5>1, <2>1 DEF CopyMeant
      <4>4. list # <<>> /\ list[Len(list)] = Op("copy", <<>>, Backup, fs[Exe])
        BY <4>2, <4>3, SetFileMeant
      <4> HIDE DEF list
      <4> QED BY <3>3, <4>1, <4>4
    <3>4. CASE ~needed
      <4>1. ops' = <<>>
        BY <3>2, <3>4, Zenon DEF When
      <4>2. ~Exists(fs, Exe) \/ (fs[Exe] = plan.candidate /\ Exists(fs, Backup))
        BY <3>4
      <4> QED BY <4>1, <4>2
    <3> QED BY <3>3, <3>4
  <2>2. Installs' <=> Installs
    BY <1>1 DEF Installs
  <2> QED BY <2>1, <2>2, <1>1 DEF ExeIsBackedUp, Exists
<1>7. Planned'
  BY <1>0, <1>1 DEF Planned
<1> QED BY <1>4, <1>5, <1>6, <1>7 DEF Following

LEMMA FollowingStarts ==
  ASSUME InstallInit
  PROVE Following
<1>1. PICK tree \in Trees, candidate \in Candidates \cup {NoCandidate},
           available \in SUBSET ToSet(CorpusFiles) :
        /\ Accepted(tree, candidate = NoCandidate)
        /\ initial = tree /\ fs = With(tree, Recovery, Dir)
        /\ plan = PlanOf(tree, candidate, available)
        /\ stage = 1 /\ ops = <<>>
  BY DEF InstallInit
<1>2. plan.copies = {f \in available : ~Exists(tree, CorpusBefore(tree) \o f)}
  BY <1>1 DEF PlanOf
<1>3. Planned
  <2>1. ASSUME NEW f \in plan.copies PROVE f \in Names
    <3>1. f \in ToSet(CorpusFiles)
      BY <1>1, <1>2
    <3>2. PICK i \in DOMAIN CorpusFiles : f = CorpusFiles[i]
      BY <3>1 DEF ToSet
    <3>3. f \in Seq(STRING)
      BY <3>2, InstallationAssumption DEF Paths
    <3> QED BY <3>3, SeqMonotonic DEF Names, Name
  <2> QED BY <2>1 DEF Planned
<1>4. \A f \in plan.copies : CorpusBefore(initial) \o f \notin DOMAIN initial
  BY <1>1, <1>2 DEF Exists
<1>5. Recovery \notin DOMAIN tree
  BY <1>1, InstallationAssumption, FoundIsClosed
<1>6. \A p \in DOMAIN initial : p \in DOMAIN fs /\ fs[p] = initial[p]
  BY <1>1, <1>5 DEF With
<1>7. \A p \in DOMAIN initial \ ReplacedFiles : Safe(p, p, 1)
  BY <1>1, <1>3, <1>4, FoundIsSafe
<1>8. Held(fs, stage)
  BY <1>1, <1>6, <1>7 DEF Held
<1>9. Meant(ops, stage)
  BY <1>1 DEF Meant
<1>10. ExeIsBackedUp
  BY <1>1, CorpusIsListed DEF ExeIsBackedUp
<1> QED BY <1>3, <1>8, <1>9, <1>10 DEF Following

\* What the application rewrites is replaced on purpose, and it rewrites nothing else.
OutOfRecovery ==
  \A p \in DOMAIN initial \ Replaced :
    \E q \in DOMAIN fs : fs[q] = initial[p] /\ q \in Names /\ ~IsPrefix(Recovery, q)

LEMMA NotReplaced ==
  /\ ReplacedFiles \subseteq Replaced
  /\ At(Settings) = AppFile => SettingsFound \subseteq Replaced
  BY DEF ReplacedFiles, Replaced, SettingsFound

LEMMA HeldIsOutOfRecovery ==
  ASSUME Held(fs, stage)
  PROVE OutOfRecovery
  BY NotReplaced DEF Held, Safe, OutOfRecovery

LEMMA ActivateFollows ==
  ASSUME Following, Activate
  PROVE OutOfRecovery'
<1>1. PICK relocates \in BOOLEAN, leaves \in BOOLEAN :
        /\ relocates => Exists(fs, Settings)
        /\ leaves => ~Exists(fs, WebView)
        /\ fs' = Started(relocates, leaves)
  BY DEF Activate
<1>2. initial' = initial
  BY DEF Activate, Undo
<1>3. Settings # WebView
  BY InnerPlaces DEF Path4
<1> DEFINE data == IF Exists(fs, UserData) THEN fs ELSE With(fs, UserData, AppDir)
           relocated == IF relocates THEN With(data, Settings, AppFile) ELSE data
           started == IF leaves THEN With(relocated, WebView, AppFile) ELSE relocated
<1>4. fs' = started
  BY <1>1 DEF Started
<1>5. \A q \in DOMAIN fs : q \in DOMAIN data /\ data[q] = fs[q]
  BY DEF With, Exists
<1> HIDE DEF data
<1>6. /\ \A q \in DOMAIN fs : q \in DOMAIN relocated /\ (q # Settings => relocated[q] = fs[q])
      /\ ~relocates => \A q \in DOMAIN fs : relocated[q] = fs[q]
      /\ relocates => Settings \in DOMAIN relocated /\ relocated[Settings] = AppFile
  BY <1>5 DEF With
<1> HIDE DEF relocated
<1>7. /\ \A q \in DOMAIN fs : q \in DOMAIN started /\ (q # Settings => started[q] = fs[q])
      /\ ~relocates => \A q \in DOMAIN fs : started[q] = fs[q]
      /\ relocates => Settings \in DOMAIN started /\ started[Settings] = AppFile
  <2>1. CASE leaves
    <3>1. /\ DOMAIN started = DOMAIN relocated \cup {WebView}
          /\ \A q \in DOMAIN relocated : q # WebView => started[q] = relocated[q]
      BY <2>1 DEF With
    <3>2. WebView \notin DOMAIN fs
      BY <2>1, <1>1 DEF Exists
    <3> HIDE DEF started
    <3> QED BY <3>1, <3>2, <1>3, <1>6
  <2>2. CASE ~leaves
    BY <2>2, <1>6
  <2> QED BY <2>1, <2>2
<1> HIDE DEF started
<1>8. relocates => At(Settings)' = AppFile
  BY <1>4, <1>7 DEF At, Exists
<1>9. /\ ReplacedFiles \subseteq Replaced'
      /\ relocates => SettingsFound \subseteq Replaced'
  BY <1>2, <1>8 DEF ReplacedFiles, Replaced, SettingsFound
<1>10. ASSUME NEW p \in DOMAIN initial \ Replaced'
       PROVE \E q \in DOMAIN fs' : fs'[q] = initial[p] /\ q \in Names /\ ~IsPrefix(Recovery, q)
  <2>1. PICK q \in DOMAIN fs : fs[q] = initial[p] /\ Safe(p, q, stage)
    BY <1>9, <1>10 DEF Following, Held
  <2>2. q \in Names /\ ~IsPrefix(Recovery, q) /\ (q = Settings => p \in SettingsFound)
    BY <2>1, Zenon DEF Safe
  <2>3. q \in DOMAIN fs' /\ fs'[q] = fs[q]
    BY <2>2, <1>4, <1>7, <1>9, <1>10
  <2> QED BY <2>1, <2>2, <2>3
<1> QED BY <1>2, <1>10 DEF OutOfRecovery

LEMMA CommitKeeps ==
  ASSUME OutOfRecovery, Commit
  PROVE NothingIsLost'
<1> DEFINE next == Without(fs, Recovery)
<1>1. phase' = "committed" /\ fs' = next /\ initial' = initial
  BY DEF Commit
<1>2. /\ DOMAIN next = {p \in DOMAIN fs : ~IsPrefix(Recovery, p)}
      /\ \A p \in DOMAIN next : next[p] = fs[p]
  BY WithoutFacts, Zenon
<1> HIDE DEF next
<1>3. At(Settings)' = At(Settings)
  <2>1. ~IsPrefix(Recovery, Settings)
    <3>1. /\ Settings \in Names /\ Recovery \in Names
          /\ 1 \in 1..Len(Recovery) /\ Recovery[1] # Settings[1]
      BY Places, InnerPlaces DEF Path1, Path4
    <3> QED BY <3>1, Apart
  <2> QED BY <2>1, <1>1, <1>2 DEF At, Exists
<1>4. Replaced' = Replaced
  BY <1>1, <1>3 DEF Replaced
<1>5. ASSUME NEW p \in DOMAIN initial \ Replaced PROVE initial[p] \in Range(fs')
  <2>1. PICK q \in DOMAIN fs : fs[q] = initial[p] /\ ~IsPrefix(Recovery, q)
    BY <1>5 DEF OutOfRecovery
  <2> QED BY <2>1, <1>1, <1>2 DEF Range
<1> QED BY <1>1, <1>4, <1>5 DEF NothingIsLost

-----------------------------------------------------------------------------
(* Nothing is lost by a commit *)

\* Until the application starts every file has a place that no later statement
\* overwrites; afterwards none of them is in the recovery directory a commit deletes.
CommitInv ==
  /\ phase = "running" /\ stage <= LastStage + 1 => Following
  /\ phase = "running" /\ ~(stage <= LastStage + 1) => OutOfRecovery
  /\ phase = "committed" => NothingIsLost

LEMMA CommitInvHolds == InstallSpec => []CommitInv
<1>1. InstallInit => CommitInv
  <2> SUFFICES ASSUME InstallInit PROVE CommitInv
    OBVIOUS
  <2>1. stage <= LastStage + 1 /\ phase = "running"
    BY InstallationStarts
  <2> QED BY <2>1, FollowingStarts DEF CommitInv
<1>2. InstallInv /\ CommitInv /\ [InstallNext]_installVars => CommitInv'
  <2> SUFFICES ASSUME InstallInv, CommitInv, [InstallNext]_installVars PROVE CommitInv'
    OBVIOUS
  <2>0. Shape /\ Undoes
    BY DEF InstallInv
  <2>a. LastStage' = LastStage
    BY DEF LastStage
  <2>1. CASE Begin
    <3>1. phase = "running" /\ stage <= LastStage /\ phase' = phase
      BY <2>1 DEF Begin, Running
    <3>2. stage <= LastStage + 1
      BY <3>1, <2>0, StagesAreNumbers
    <3>3. Undisturbed /\ Following
      BY <2>0, <3>1, <3>2 DEF Undoes, CommitInv
    <3>4. stage' <= LastStage + 1
      BY <2>0, <2>1, <3>3, BeginStep
    <3>5. Following'
      BY <2>0, <2>1, <3>3, BeginFollows
    <3> QED BY <2>a, <3>1, <3>4, <3>5 DEF CommitInv
  <2>2. CASE InstallerStep
    <3>1. /\ phase = "running" /\ phase' = phase /\ ops # <<>>
          /\ initial' = initial /\ plan' = plan /\ stage' = stage
      BY <2>2 DEF InstallerStep, CreateDirectory, Move, SaveFile, CopyFile, Advance, Running
    <3>2. stage <= LastStage + 1
      BY <2>0, <3>1 DEF Undoes
    <3>3. Undisturbed /\ Following
      BY <2>0, <3>1, <3>2 DEF Undoes, CommitInv
    <3>4. Following'
      <4>1. CASE CreateDirectory
        BY <4>1, <2>0, <3>3, CreateDirectoryFollows
      <4>2. CASE Move
        BY <4>2, <2>0, <3>3, MoveFollows
      <4>3. CASE SaveFile
        BY <4>3, <3>3, SaveFileFollows
      <4>4. CASE CopyFile
        BY <4>4, <2>0, <3>3, CopyFileFollows
      <4> QED BY <2>2, <4>1, <4>2, <4>3, <4>4 DEF InstallerStep
    <3> QED BY <2>a, <3>1, <3>2, <3>4 DEF CommitInv
  <2>3. CASE Activate
    <3>1. /\ phase = "running" /\ stage = LastStage + 1
          /\ \/ phase' = "undoing"
             \/ phase' = phase /\ stage' = stage + 1
      BY <2>3 DEF Activate, Undo, Running
    <3>2. stage \in Nat /\ LastStage \in Nat
      BY <2>0, StagesAreNumbers
    <3>3. Following
      BY <3>1, <3>2 DEF CommitInv
    <3>4. OutOfRecovery'
      BY <2>3, <3>3, ActivateFollows
    <3>5. phase' = phase => ~(stage' <= LastStage + 1)
      BY <3>1, <3>2
    <3> QED BY <2>a, <3>1, <3>4, <3>5 DEF CommitInv
  <2>4. CASE Commit
    <3>1. phase = "running" /\ phase' = "committed"
      BY <2>4 DEF Commit, Running
    <3>2. OutOfRecovery
      <4>1. CASE stage <= LastStage + 1
        BY <4>1, <3>1, HeldIsOutOfRecovery DEF CommitInv, Following
      <4>2. CASE ~(stage <= LastStage + 1)
        BY <4>2, <3>1 DEF CommitInv
      <4> QED BY <4>1, <4>2
    <3>3. NothingIsLost'
      BY <2>4, <3>2, CommitKeeps
    <3> QED BY <3>1, <3>3 DEF CommitInv
  <2>5. CASE \/ CopyBreaks \/ Throw \/ RestoreFile \/ MoveBack \/ RemoveDirectory
             \/ Blocked \/ UndoBreaks \/ RolledBack
    <3>1. phase' \notin {"running", "committed"}
      BY <2>5 DEF CopyBreaks, Throw, Undo, RestoreFile, MoveBack, RemoveDirectory, Undoing,
                  Blocked, UndoBreaks, RolledBack
    <3> QED BY <3>1 DEF CommitInv
  <2>6. CASE UNCHANGED installVars
    <3>1. /\ fs' = fs /\ initial' = initial /\ plan' = plan /\ stage' = stage /\ ops' = ops
          /\ journal' = journal /\ phase' = phase
      BY <2>6 DEF installVars
    <3>2. Following => Following'
      <4>1. Held(fs, stage) => Held(fs, stage)'
        BY <3>1, HeldNext
      <4>2. Installs' <=> Installs
        BY <3>1 DEF Installs
      <4>3. Meant(ops, stage) => Meant(ops, stage)'
        BY <3>1, <4>2 DEF Meant, CopyMeant, MoveMeant
      <4>4. ExeIsBackedUp => ExeIsBackedUp'
        BY <3>1, <4>2 DEF ExeIsBackedUp, Exists
      <4>5. Planned => Planned'
        BY <3>1 DEF Planned
      <4> QED BY <4>1, <4>3, <4>4, <4>5 DEF Following
    <3>3. Replaced' = Replaced
      BY <3>1 DEF Replaced, At, Exists
    <3>4. OutOfRecovery => OutOfRecovery'
      BY <3>1, <3>3 DEF OutOfRecovery
    <3>5. NothingIsLost => NothingIsLost'
      BY <3>1, <3>3 DEF NothingIsLost
    <3> QED BY <2>a, <3>1, <3>2, <3>4, <3>5 DEF CommitInv
  <2> QED BY <2>1, <2>2, <2>3, <2>4, <2>5, <2>6 DEF InstallNext, InstallerStep
<1> QED BY <1>1, <1>2, InstallInvHolds, PTL DEF InstallSpec

\* At no time is a file of the user gone: until the commit its contents are in the
\* file system or in a snapshot, and a commit lets go of nothing but what a release
\* replaces on purpose (lines 2-3, 152-188).
THEOREM NothingIsEverLost == InstallSpec => []NothingIsLost
<1>1. InstallInv /\ CommitInv => NothingIsLost
  <2> SUFFICES ASSUME InstallInv, CommitInv PROVE NothingIsLost
    OBVIOUS
  <2>1. CASE phase = "committed"
    BY <2>1 DEF CommitInv
  <2>2. CASE phase # "committed"
    <3>1. KeptUntilTheCommit
      BY <2>2 DEF InstallInv, Undoes
    <3> QED BY <2>2, <3>1 DEF NothingIsLost, KeptUntilTheCommit, Snapshots
  <2> QED BY <2>1, <2>2
<1> QED BY <1>1, InstallInvHolds, CommitInvHolds, PTL
=============================================================================
