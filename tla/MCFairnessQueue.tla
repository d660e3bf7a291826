--------------------------- MODULE MCFairnessQueue ---------------------------
(* Instances of FairnessQueue for TLC. *)
EXTENDS FairnessQueue
=============================================================================
