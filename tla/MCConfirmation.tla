--------------------------- MODULE MCConfirmation ---------------------------
(* Processes, messages and conversations for Confirmation; which process has *)
(* which name matters to nothing.                                            *)
EXTENDS Confirmation, TLC

CONSTANTS r1, r2, m1, m2, m3, c1, c2, s1

Symmetry == Permutations(Replicas) \union Permutations(Messages)
            \union Permutations({c1, c2})

=============================================================================
