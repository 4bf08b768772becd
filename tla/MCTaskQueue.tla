---------------------------- MODULE MCTaskQueue ----------------------------
(* TaskQueue and its ledger for TLC: interchangeable workers and channels. *)
EXTENDS TaskQueueLedger, TLC

Symmetry == Permutations(Workers) \cup Permutations(Targets)

=============================================================================
