---------------------------- MODULE MCLocalServer ----------------------------
(* Three connections compete for two slots. *)
EXTENDS LocalServer, TLC

CONSTANTS c1, c2, c3
MCConns == {c1, c2, c3}
=============================================================================
