--------------------------- MODULE MCDesktopJobs ---------------------------
(***************************************************************************)
(* DesktopJobs for TLC: two callers and two runs, so that a call can meet  *)
(* the run before, the run of now and another call.  The liveness          *)
(* properties are checked too, so the callers are told apart.              *)
(***************************************************************************)
EXTENDS DesktopJobsRefinement
=============================================================================
