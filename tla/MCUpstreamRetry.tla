-------------------------- MODULE MCUpstreamRetry --------------------------
(* Values for UpstreamRetry.                                               *)
EXTENDS UpstreamRetry
============================================================================
