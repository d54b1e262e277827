----------------------------- MODULE MCFileLock -----------------------------
(* Callers and processes of FileLock; every placement of the callers in      *)
(* processes is an initial state.                                            *)
EXTENDS FileLock

CONSTANTS c1, c2, c3, p1, p2, p3

=============================================================================
