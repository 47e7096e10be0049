----------------------------- MODULE MCMoveFile -----------------------------
(* Handles, branches and blocks are alike, so all may be permuted.          *)
EXTENDS MoveFile, TLC

Symmetry == Permutations(Handles) \cup Permutations(Branches) \cup Permutations(Blocks)

=============================================================================
