-------------------------- MODULE MCOfflineOutbox --------------------------
(* One tab, two moves of one message. *)
EXTENDS OfflineOutbox
=============================================================================
