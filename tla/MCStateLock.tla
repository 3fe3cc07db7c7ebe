---------------------------- MODULE MCStateLock ----------------------------
(* Model values for StateLock.                                             *)
EXTENDS StateLock
============================================================================
