-------------------------- MODULE MCScheduledSend --------------------------
(* Two messages, two API processes. *)
EXTENDS ScheduledSend, TLC

Symmetry == Permutations(Msgs) \cup Permutations(Workers)
=============================================================================
