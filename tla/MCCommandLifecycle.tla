------------------------- MODULE MCCommandLifecycle -------------------------
(***************************************************************************)
(* Instances of CommandLifecycle for TLC: commands and devices as model    *)
(* values, and the device of each command.                                 *)
(***************************************************************************)
EXTENDS CommandLifecycle

CONSTANTS c1, c2, d1

\* The commands compete for one device.
OneDevice == [c \in Cmd |-> d1]
=============================================================================
