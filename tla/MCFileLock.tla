------------------------------ MODULE MCFileLock ------------------------------
(* FileLock for TLC.                                                       *)
EXTENDS FileLock, TLC

\* Safety only: processes are interchangeable.
Symmetry == Permutations(Processes)
=============================================================================
