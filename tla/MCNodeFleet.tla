----------------------------- MODULE MCNodeFleet -----------------------------
(* NodeFleet with interchangeable walks and background tasks.              *)
EXTENDS NodeFleet, TLC
Symmetry == Permutations(Walks) \cup Permutations(Jobs)
=============================================================================
