----------------------------- MODULE MCSessions -----------------------------
(* Two sign-ins and two requests: each can overtake the other.             *)
EXTENDS Sessions
=============================================================================
