-------------------------- MODULE MaintenancePanel --------------------------
(***************************************************************************)
(* The maintenance panel of the settings dialog                            *)
(* (apps/desktop/src/Management.svelte) against the operation slot of the  *)
(* backend (experimental.rs and the commands of main.rs).                  *)
(*                                                                         *)
(* The panel is one JavaScript event loop: every step between two awaits   *)
(* is atomic.  Its calls are asynchronous.  The backend's commands are     *)
(* synchronous functions, taken in the order they were sent; a reply is a  *)
(* promise of its own, so replies may be handled in another order unless   *)
(* InOrder.  The operation itself runs on and settles when it likes.       *)
(*                                                                         *)
(* The panel numbers its status calls and compares a reply's number only   *)
(* with the latest revision; a call carries here whether the two are still *)
(* equal, and ++revision makes the calls in flight stale.                  *)
(*                                                                         *)
(* A set manifest is opened in two calls of its own: the file dialog, which *)
(* a thread of its own answers when the user closes it, and the reading of *)
(* the file.  What it shows is compared with nothing.                      *)
(***************************************************************************)
EXTENDS Integers, Sequences, FiniteSets, SequencesExt

CONSTANTS
  InOrder,     \* BOOLEAN: replies are handled in the order they were sent
  Restored,    \* whether the backend may be busy when the panel is mounted
  MaxRuns,     \* bound: operations the backend accepts
  MaxCalls,    \* bound: calls in flight when the user may press a button
  MaxFailures, \* bound: status, cancel and reading calls that fail
  MaxRefusals  \* bound: starts the backend refuses

ASSUME PanelAssumption == InOrder \in BOOLEAN /\ Restored \subseteq BOOLEAN

VARIABLES
  \* the panel, and the file dialogs it has open
  busy, cancelling, report, timer, disposed, dialogs,
  \* calls on their way to the backend, and replies on their way back
  requests, replies,
  \* the backend's experiment: active, the last accepted run and its report
  active, started, outcome,
  \* history: Cancel was pressed during the run the panel shows, the backend
  \* runs something this panel started, failures and refusals so far
  pressed, mine, failures, refusals

panel == <<busy, cancelling, report, timer, disposed, dialogs>>
backend == <<active, started, outcome>>
history == <<pressed, mine, failures, refusals>>
vars == <<panel, requests, replies, backend, history>>

\* The report on display is 0 (none), the number of the operation it is of, or a
\* set manifest the user opened.
Opened == -1

InFlight == Len(requests) + Len(replies) + dialogs

Call(name) == [call |-> name, fresh |-> TRUE]
Reply(c, ok) ==
  [call |-> c.call, fresh |-> c.fresh, ok |-> ok,
   active |-> active, report |-> outcome]

Stale(calls) == [i \in DOMAIN calls |-> [calls[i] EXCEPT !.fresh = FALSE]]

\* The panel is mounted and has sent its first status call; an operation of an
\* earlier panel may still run or have left its report.
Init ==
  /\ busy = FALSE /\ cancelling = FALSE /\ report = 0
  /\ timer = FALSE /\ disposed = FALSE /\ dialogs = 0
  /\ requests = <<Call("status")>>
  /\ replies = <<>>
  /\ active \in Restored
  /\ started \in {0, 1}
  /\ active => started = 1
  /\ outcome \in {0, started}
  /\ active => outcome = 0
  /\ pressed = FALSE /\ mine = FALSE /\ failures = 0 /\ refusals = 0

-----------------------------------------------------------------------------
(* The panel *)

\* ++revision and a call to the backend.
Send(name, answers) ==
  /\ requests' = Append(Stale(requests), Call(name))
  /\ replies' = Stale(answers)

\* run(action): the panel is busy before the backend knows.
Run ==
  /\ ~disposed /\ ~busy
  /\ InFlight < MaxCalls
  /\ started < MaxRuns
  /\ timer' = FALSE
  /\ busy' = TRUE
  /\ report' = 0
  /\ Send("manage", replies)
  /\ pressed' = FALSE
  /\ UNCHANGED <<cancelling, disposed, dialogs, backend, mine, failures, refusals>>

\* The Cancel button is there while busy and enabled unless cancelling.
Cancel ==
  /\ ~disposed /\ busy /\ ~cancelling
  /\ InFlight < MaxCalls
  /\ requests' = Append(requests, Call("cancel"))
  /\ pressed' = TRUE
  /\ UNCHANGED <<panel, replies, backend, mine, failures, refusals>>

\* The timer set by an earlier reply calls refresh().
Poll ==
  /\ timer
  /\ timer' = FALSE
  /\ Send("status", replies)
  /\ UNCHANGED <<busy, cancelling, report, disposed, dialogs, backend, history>>

\* The dialog and its tabs are locked while the panel is busy.
Dispose ==
  /\ ~disposed /\ ~busy
  /\ disposed' = TRUE
  /\ timer' = FALSE
  /\ UNCHANGED <<busy, cancelling, report, dialogs, requests, replies, backend, history>>

\* reopen(): the button is there unless the panel is busy; it opens a file
\* dialog, and may be pressed again, or an operation started, before it closes.
Reopen ==
  /\ ~disposed /\ ~busy
  /\ InFlight < MaxCalls
  /\ dialogs' = dialogs + 1
  /\ UNCHANGED <<busy, cancelling, report, timer, disposed, requests, replies, backend, history>>

\* The rest of reopen() once bridge.choose has answered: with a path, which is
\* read, or with none.
Choose ==
  /\ dialogs > 0
  /\ dialogs' = dialogs - 1
  /\ \/ requests' = Append(requests, Call("readReport"))
     \/ UNCHANGED requests
  /\ UNCHANGED <<busy, cancelling, report, timer, disposed, replies, backend, history>>

AcceptsAny(r) == ~disposed
\* A status reply counts only if no later refresh or run replaced it.
Current(r) == ~disposed /\ r.fresh

GivesUp == FALSE
\* After a failed status call a busy panel tries again.
RetriesIfBusy == busy

StatusReply(r, others) ==
  /\ IF ~Current(r) THEN UNCHANGED panel
     ELSE /\ UNCHANGED <<disposed, dialogs>>
          /\ IF r.ok
               THEN /\ busy' = r.active
                    /\ report' = r.report
                    /\ timer' = r.active
                    /\ cancelling' = (cancelling /\ r.active)
               ELSE /\ timer' = RetriesIfBusy
                    /\ UNCHANGED <<busy, report, cancelling>>
  /\ replies' = others
  /\ UNCHANGED requests

\* The rest of run() once bridge.manage has answered: refresh(), or the error.
ManageReply(r, others) ==
  \/ /\ ~disposed /\ r.ok
     /\ Send("status", others)
     /\ UNCHANGED panel
  \/ /\ ~disposed /\ ~r.ok
     /\ busy' = FALSE
     /\ replies' = others
     /\ UNCHANGED <<cancelling, report, timer, disposed, dialogs, requests>>
  \/ /\ disposed
     /\ replies' = others
     /\ UNCHANGED <<panel, requests>>

\* The rest of cancel(): nothing tells which run the call was for.
CancelReply(r, others) ==
  /\ cancelling' = (cancelling \/ r.ok)
  /\ replies' = others
  /\ UNCHANGED <<busy, report, timer, disposed, dialogs, requests>>

\* The rest of reopen() once the file was read, or could not be, or is no set
\* manifest: the panel may be busy by now, or the operation another one.
ReadReply(r, others) ==
  /\ report' = IF r.ok THEN Opened ELSE report
  /\ replies' = others
  /\ UNCHANGED <<busy, cancelling, timer, disposed, dialogs, requests>>

Deliver(i) ==
  LET r == replies[i]
      others == RemoveAt(replies, i)
  IN
  /\ \/ r.call = "status" /\ StatusReply(r, others)
     \/ r.call = "manage" /\ ManageReply(r, others)
     \/ r.call = "cancel" /\ CancelReply(r, others)
     \/ r.call = "readReport" /\ ReadReply(r, others)
  /\ UNCHANGED <<backend, history>>

-----------------------------------------------------------------------------
(* The backend *)

ReportKept == outcome
\* A new experiment snapshot has no report.
NoReport == 0

\* Desktop::operation: refused while anything is active or closing, or if the
\* thread cannot be created.
Manage(c) ==
  \/ /\ ~active
     /\ active' = TRUE
     /\ started' = started + 1
     /\ outcome' = NoReport
     /\ mine' = TRUE
     /\ replies' = Append(replies, Reply(c, TRUE))
     /\ UNCHANGED <<failures, refusals>>
  \/ /\ active \/ refusals < MaxRefusals
     /\ replies' = Append(replies, Reply(c, FALSE))
     /\ refusals' = IF active THEN refusals ELSE refusals + 1
     /\ UNCHANGED <<backend, mine, failures>>

\* training_status, cancel_training and read_report; a cancellation that finds
\* nothing active is answered like any other.
Answer(c) ==
  /\ \E ok \in BOOLEAN :
       /\ ok \/ failures < MaxFailures
       /\ failures' = IF ok THEN failures ELSE failures + 1
       /\ replies' = Append(replies, Reply(c, ok))
  /\ UNCHANGED <<backend, mine, refusals>>

Handle ==
  /\ requests # <<>>
  /\ requests' = Tail(requests)
  /\ LET c == Head(requests) IN
       IF c.call = "manage" THEN Manage(c) ELSE Answer(c)
  /\ UNCHANGED <<panel, pressed>>

\* The worker ends: with a report, or with an error.
Settle ==
  /\ active
  /\ active' = FALSE
  /\ outcome' \in {0, started}
  /\ UNCHANGED <<panel, requests, replies, started, history>>

-----------------------------------------------------------------------------
Next ==
  \/ Run \/ Cancel \/ Poll \/ Dispose \/ Reopen \/ Choose
  \/ \E i \in DOMAIN replies : (InOrder => i = 1) /\ Deliver(i)
  \/ Handle \/ Settle

\* Timers fire, calls are taken and answered, operations end (they have a
\* deadline).  Replies are handled oldest first at the latest.  A file dialog may
\* stay open.
Fairness ==
  /\ WF_vars(Poll) /\ WF_vars(Handle) /\ WF_vars(Settle)
  /\ WF_vars(replies # <<>> /\ Deliver(1))

Spec == Init /\ [][Next]_vars
FairSpec == Spec /\ Fairness
-----------------------------------------------------------------------------
(* Properties *)

\* While an operation this panel started is active the panel is busy: the
\* settings stay locked and Cancel stays visible, however late and in whatever
\* order older status replies are handled.
LockedWhileRunning == active /\ mine => busy /\ ~disposed

\* Of all operations it is the latest whose report is on display, never an older
\* one; the only other report the panel shows is a manifest the user opened.
ReportIsLatest == report \in {0, started, Opened}

\* There is one polling chain: a timer and a status call whose answer counts
\* never exist together, nor two such calls.
Counting(calls) == {i \in DOMAIN calls : calls[i].call = "status" /\ calls[i].fresh}
StatusCalls == Cardinality(Counting(requests)) + Cardinality(Counting(replies))

OnePollingChain ==
  /\ StatusCalls <= 1
  /\ timer => StatusCalls = 0 /\ busy

\* Whatever the delays and the order of answers, the panel shows the operation
\* that is under way: it is locked while that runs, polls it once at a time and
\* displays its report and no older operation's (Management.svelte:10-25).
PanelFollowsTheOperation == LockedWhileRunning /\ ReportIsLatest /\ OnePollingChain

\* A busy panel becomes usable again: polling survives failed calls, refused
\* starts and cancellations.
PanelRecovers == busy ~> ~busy

\* Management.svelte:42 says that cancellation stays available during a
\* preparation: Cancel is disabled only after it was pressed in this very run.
CancelStaysAvailable == busy /\ cancelling => pressed
=============================================================================
