----------------------------- MODULE MCSeeding -----------------------------
(* Seeding for TLC, with interchangeable workers.                          *)
EXTENDS Seeding, TLC

WorkerSymmetry == Permutations(Workers)

=============================================================================
