----------------------- MODULE MCMultipleQueueFairness -----------------------
(* Small instances of MultipleQueueFairness for TLC. *)
EXTENDS MultipleQueueFairness
=============================================================================
