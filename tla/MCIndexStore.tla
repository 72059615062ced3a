---------------------------- MODULE MCIndexStore ----------------------------
(* Instances of IndexStore for TLC: writers are interchangeable. *)
EXTENDS IndexStore, TLC

Symmetry == Permutations(Writers)

=============================================================================
