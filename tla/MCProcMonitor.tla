---------------------------- MODULE MCProcMonitor ----------------------------
(* The monitor with a few processes and executables. *)
EXTENDS ProcMonitor, TLC

Symmetry == Permutations(Pids) \cup Permutations(Exes)
=============================================================================
