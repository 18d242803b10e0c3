--------------------------- MODULE MCReferenceRuns ---------------------------
(* Two processes and two runs, over a cold or a warm directory and two        *)
(* versions of the dictionary: the second run is beside the first or after it *)
(* and meets what that one, a stop, a refresh or a damaged file left.  What a *)
(* third run would take is asserted of the files themselves.                  *)
EXTENDS ReferenceRuns, TLC

CONSTANTS p1, p2

MCRequests ==
    {[options |-> "plain", top |-> 1, rebuild |-> FALSE],
     [options |-> "plain", top |-> 2, rebuild |-> TRUE],
     [options |-> "wide", top |-> 2, rebuild |-> FALSE]}
MCVersions == <<"v1", "v2">>
MCStarts ==
    {[dictionary |-> "none", archive |-> FALSE, bigrams |-> FALSE],
     [dictionary |-> "v1", archive |-> TRUE, bigrams |-> TRUE]}
Symmetry == Permutations(Processes)
=============================================================================
