------------------------ MODULE MCCommitmentLedger ---------------------------
(* The ledger on small instances. Requests are interchangeable.            *)
EXTENDS CommitmentLedger, TLC
Symmetry == Permutations(Requests)
=============================================================================
