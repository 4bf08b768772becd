---------------------------- MODULE MCDiscovery ----------------------------
(* Discovery for TLC: interchangeable handles and threads. *)
EXTENDS Discovery, TLC

Symmetry == Permutations(Handles) \cup Permutations(Validators) \cup Permutations(Crawlers)

=============================================================================
