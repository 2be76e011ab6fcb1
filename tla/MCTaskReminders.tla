-------------------------- MODULE MCTaskReminders --------------------------
(* A series of two tasks, two overlapping ticks, an edit, a deletion. *)
EXTENDS TaskReminders
=============================================================================
