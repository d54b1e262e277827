---------------------------- MODULE MCConfigSync ----------------------------
(* The calls of ensureNodeConfigReady that overlap: the router's and the     *)
(* watcher's.                                                                *)
EXTENDS ConfigSync

CONSTANTS router, watcher

=============================================================================
