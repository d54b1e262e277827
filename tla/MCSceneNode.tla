---------------------------- MODULE MCSceneNode -----------------------------
(* Two channels; every value of the counter is an initial one, so that a     *)
(* pulse may start at any distance from the wrap.                            *)
EXTENDS SceneNode

CONSTANTS ventLeft, fan01

=============================================================================
