----------------------------- MODULE MCSession -----------------------------
EXTENDS Session, TLC

\* Profiles other than the global one and executables are interchangeable.
Symmetry == Permutations(Names \ {Global}) \cup Permutations(Exes)
=============================================================================
