------------------------- MODULE MCCommandOutcomes --------------------------
(* Two commands for one device, one of them of a scene, one of them of a     *)
(* user with a binding; both may complete or fail, one after the other or    *)
(* close together.                                                           *)
EXTENDS CommandOutcomes

CONSTANTS c1, c2, d1

OneDevice == [c \in Command |-> d1]

=============================================================================
