--------------------------- MODULE MCProfileStore ----------------------------
(* The profiles' files with a few names, executables and settings. *)
EXTENDS ProfileStore, TLC

Symmetry == Permutations(Names) \cup Permutations(Exes)
=============================================================================
