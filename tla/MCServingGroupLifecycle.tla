---------------------- MODULE MCServingGroupLifecycle ----------------------
(* ServingGroupLifecycle for TLC. *)
EXTENDS ServingGroupLifecycle
============================================================================
