----------------------------- MODULE MCOpenCache -----------------------------
(* Two threads, two paths, two branches: alike, so all may be permuted.     *)
EXTENDS OpenCache, TLC

Symmetry == Permutations(Threads) \cup Permutations(Paths) \cup Permutations(Branches)

=============================================================================
