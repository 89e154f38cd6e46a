--------------------------- MODULE MCCommandQueue ---------------------------
(* The queue with a few files and values. *)
EXTENDS CommandQueue, TLC

Symmetry == Permutations(Files) \cup Permutations(Values)
=============================================================================
