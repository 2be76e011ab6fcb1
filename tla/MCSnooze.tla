------------------------------ MODULE MCSnooze ------------------------------
(* Two processes and one message: the smallest race for its row.           *)
EXTENDS Snooze, TLC

Symmetry == Permutations(Workers)
=============================================================================
