-------------------------- MODULE MCParallelRanking --------------------------
(***************************************************************************)
(* ParallelRanking for TLC: more rows than workers, and for each row one   *)
(* count in flight before its final one.                                   *)
(***************************************************************************)
EXTENDS ParallelRanking

MCOrders == [t \in 1..NumTasks |-> 1]
=============================================================================
