----------------------------- MODULE MCResends ------------------------------
(***************************************************************************)
(* The instance of Resends for TLC: the command of one device, and the     *)
(* symmetry of the ticks.                                                  *)
(***************************************************************************)
EXTENDS Resends, TLC

CONSTANTS c1, d1

OneDevice == [c \in Cmd |-> d1]

\* The ticks are interchangeable: no action and no safety property names one.
TickSymmetry == Permutations(Tick)
=============================================================================
