---------------------------- MODULE MC_FusionWorker ----------------------------
(* Instances of FusionWorker for TLC. *)
EXTENDS FusionWorker

CONSTANTS d1, d2  \* streams
===============================================================================
