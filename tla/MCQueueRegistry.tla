--------------------------- MODULE MCQueueRegistry ---------------------------
(* Instances of QueueRegistry for TLC. *)
EXTENDS QueueRegistry
=============================================================================
