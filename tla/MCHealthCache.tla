--------------------------- MODULE MCHealthCache ---------------------------
(* Values for HealthCache.                                                 *)
EXTENDS HealthCache
============================================================================
