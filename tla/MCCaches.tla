------------------------------ MODULE MCCaches ------------------------------
(* Callers that share one copy. *)
EXTENDS Caches
=============================================================================
