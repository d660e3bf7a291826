------------------------ MODULE MCSessionBoostQueue ------------------------
(* Instances of SessionBoostQueue for TLC. *)
EXTENDS SessionBoostQueue
=============================================================================
