------------------------ MODULE MCOverlayPublication ------------------------
(* Values for OverlayPublication.                                          *)
EXTENDS OverlayPublication
=============================================================================
