------------------------- MODULE MC_ServiceRequests -------------------------
(* Instances of ServiceRequests for TLC. *)
EXTENDS ServiceRequests, TLC

Symmetry == Permutations(Requests) \cup Permutations(Procs \ Monitors)
=============================================================================
