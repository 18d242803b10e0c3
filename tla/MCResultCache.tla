---------------------------- MODULE MCResultCache ----------------------------
(***************************************************************************)
(* ResultCache for TLC: two configurations of the limits, one smaller than *)
(* the other in both dimensions, so that each evicts what the other put.   *)
(***************************************************************************)
EXTENDS ResultCacheRefinement

MCLimits == {[entries |-> 1, bytes |-> 2], [entries |-> 2, bytes |-> 4]}
=============================================================================
