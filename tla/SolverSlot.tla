----------------------------- MODULE SolverSlot -----------------------------
(***************************************************************************)
(* What the desktop's job owner promises to its clients: one slot, given   *)
(* to one run at a time and never twice to the same run; the snapshot that *)
(* is shown belongs to the latest job, is pending exactly while that job   *)
(* has the slot, and then shows one verdict that stays until the next job; *)
(* once closed, no run is admitted.  Threads, the mutex, joins, statuses   *)
(* and cancellation flags are the business of DesktopJobs.                 *)
(***************************************************************************)
EXTENDS Naturals

CONSTANT Tickets  \* identities of runs; 0 is no run

VARIABLES
  slot,       \* the run that has the slot, 0 if it is free
  past,       \* the runs that have been given the slot
  accepting,  \* not closed
  shown       \* the latest job: its id and verdict

slotVars == <<slot, past, accepting, shown>>

Verdicts == {"none", "pending", "result", "error"}

Init ==
  /\ slot = 0
  /\ past = {}
  /\ accepting = TRUE
  /\ shown = [id |-> 0, verdict |-> "none"]

Take(t) ==
  /\ accepting
  /\ slot = 0
  /\ t \notin past
  /\ slot' = t
  /\ past' = past \cup {t}
  /\ UNCHANGED accepting

AdmitJob(t) == Take(t) /\ shown' = [id |-> shown.id + 1, verdict |-> "pending"]

AdmitOperation(t) == Take(t) /\ UNCHANGED shown

\* A job that could not be given a thread is shown with its error at once.
RefuseJob ==
  /\ accepting
  /\ slot = 0
  /\ shown' = [id |-> shown.id + 1, verdict |-> "error"]
  /\ UNCHANGED <<slot, past, accepting>>

Settle ==
  /\ slot # 0
  /\ slot' = 0
  /\ IF shown.verdict = "pending"
       THEN \E v \in {"result", "error"} : shown' = [shown EXCEPT !.verdict = v]
       ELSE UNCHANGED shown
  /\ UNCHANGED <<past, accepting>>

Close ==
  /\ accepting
  /\ accepting' = FALSE
  /\ UNCHANGED <<slot, past, shown>>

Next ==
  \/ \E t \in Tickets : AdmitJob(t) \/ AdmitOperation(t)
  \/ RefuseJob \/ Settle \/ Close

Spec == Init /\ [][Next]_slotVars
=============================================================================
