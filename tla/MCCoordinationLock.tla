------------------------- MODULE MCCoordinationLock -------------------------
(* Callers and processes of the file lock, every placement of the callers in *)
(* processes being an initial state, and three calls of the Redis lock: the  *)
(* second may be granted the key after the first has outlived it, the third  *)
(* while the second works.                                                   *)
EXTENDS CoordinationLock

CONSTANTS c1, c2, c3, p1, p2, p3, a1, a2, a3

=============================================================================
