---------------------------- MODULE StreamRelay ----------------------------
(***************************************************************************)
(* What a relay of a stream owes its caller: the events that were taken,   *)
(* all of them, once and in order, at most one of them held back.          *)
(***************************************************************************)
EXTENDS Naturals, Sequences

VARIABLES taken,    \* events of the upstream taken in full
          given,    \* the numbers of those that the caller has been given
          over      \* "relay"; "ended"; "broken", by either side of it

relay == <<taken, given, over>>
UpTo(k) == [j \in 1..k |-> j]

Init == taken = 0 /\ given = <<>> /\ over = "relay"

Give ==
    /\ over = "relay" /\ over' \in {"relay", "ended"}
    /\ taken' \in {taken, taken + 1}
    /\ \E k \in Len(given)..taken' :
         /\ taken' - k <= 1
         /\ over' = "ended" => k = taken'
         /\ given' = UpTo(k)
Break == over = "relay" /\ over' = "broken" /\ UNCHANGED <<taken, given>>

Spec == Init /\ [][Give \/ Break]_relay
=============================================================================
