-------------------------- MODULE MCSummaryMarker --------------------------
(* Values for SummaryMarker.                                               *)
EXTENDS SummaryMarker
=============================================================================
