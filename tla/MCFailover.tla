----------------------------- MODULE MCFailover -----------------------------
(* Model values for Failover: two models of each provider, ranked as they  *)
(* are listed, in a chain that goes round twice.                           *)
EXTENDS Failover
CONSTANTS a, b, a1, a2, b1, b2
MCScopeOf == (a1 :> a) @@ (a2 :> a) @@ (b1 :> b) @@ (b2 :> b)
MCRanked == [S \in SUBSET Models |-> SetToSeq(S) \o SetToSeq(S)]
=============================================================================
