----------------------- MODULE MCConnectionSupervisor -----------------------
(* A small connection: a subscription, two calls (one more than the queue  *)
(* holds), one entry of another actor, one reconnect.                      *)
EXTENDS ConnectionSupervisor
=============================================================================
