------------------------ MODULE MCCallerKeyRotation ------------------------
(* Two clients, two rotations, two crashes, two exceptions.                *)
EXTENDS CallerKeyRotation, TLC
CONSTANTS c1, c2
MCTargets == {c1, c2}
===========================================================================
