----------------------- MODULE DesktopJobsRefinement -----------------------
(***************************************************************************)
(* DesktopJobs implements SolverSlot.  The slot is taken from the critical *)
(* section that launches a worker to the one that settles it, although the *)
(* thread lives on for a while and is joined only by the next start.       *)
(***************************************************************************)
EXTENDS DesktopJobs

SlotOf == IF job.active \/ experiment.active THEN control ELSE 0

VerdictOf ==
  IF job.id = 0 THEN "none"
  ELSE IF job.active THEN "pending"
  ELSE IF job.result # 0 THEN "result" ELSE "error"

Slot == INSTANCE SolverSlot WITH
  Tickets <- Runs,
  slot <- SlotOf,
  past <- {n \in Runs : run[n].at # "none"},
  accepting <- ~closing,
  shown <- [id |-> job.id, verdict |-> VerdictOf]

\* The job owner gives its single slot to one run at a time, shows one final
\* verdict per job and admits nothing once it closes.
ImplementsSlot == Slot!Spec
=============================================================================
