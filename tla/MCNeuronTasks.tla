--------------------------- MODULE MCNeuronTasks ---------------------------
(* A task over one harmless and one HIGH-risk action, about which three requests are made. *)
EXTENDS NeuronTasks, TLC

CONSTANTS r1, r2, r3, search, pay

MCActions == {search, pay}
MCHighRisk == {pay}
MCRequests == {r1, r2, r3}
Symmetry == Permutations(MCRequests)
=============================================================================
