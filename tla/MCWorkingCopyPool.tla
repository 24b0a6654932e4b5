-------------------------- MODULE MCWorkingCopyPool --------------------------
(* WorkingCopyPool for TLC, with requests, directories and evictions symmetric. *)
EXTENDS WorkingCopyPool, TLC

Symmetry == Permutations(Borrowers) \cup Permutations(Copies) \cup Permutations(Evictions)

=============================================================================
