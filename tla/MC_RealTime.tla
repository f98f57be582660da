----------------------------- MODULE MC_RealTime -----------------------------
(* Instances of RealTime for TLC. *)
EXTENDS RealTime, TLC

CONSTANTS w1, w2, s1, s2

\* A socket on each worker.
SocketOnEach == [s \in Sockets |-> IF s = s1 THEN w1 ELSE w2]

OneChannel == [m \in Messages |-> CHOOSE c \in Channels : TRUE]

Symmetry == Permutations(Messages)
=============================================================================
