-------------------------- MODULE MCProfileSwitch --------------------------
(* Model values for ProfileSwitch.                                         *)
EXTENDS ProfileSwitch
============================================================================
