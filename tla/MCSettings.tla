----------------------------- MODULE MCSettings -----------------------------
(* Settings for TLC: interchangeable threads and values. *)
EXTENDS Settings, TLC

Symmetry == Permutations(Readers) \cup Permutations(Reloads) \cup Permutations(Values)
ThreadSymmetry == Permutations(Readers) \cup Permutations(Reloads)

=============================================================================
