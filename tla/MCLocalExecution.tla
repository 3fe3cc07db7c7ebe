-------------------------- MODULE MCLocalExecution --------------------------
(* Two calls, two routes, room for one record.                             *)
EXTENDS LocalExecution

CONSTANTS c1, c2
=============================================================================
