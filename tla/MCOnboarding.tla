---------------------------- MODULE MCOnboarding ----------------------------
(* Codes and tokens for Onboarding: a code the node is given while another   *)
(* is still good, and the tokens of the node, of the platform and of a post. *)
EXTENDS Onboarding

CONSTANTS d1, d2, t1, t2, t3

=============================================================================
