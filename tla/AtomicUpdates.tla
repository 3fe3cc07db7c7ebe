--------------------------- MODULE AtomicUpdates ---------------------------
(***************************************************************************)
(* What a state lock promises its users: every change of the shared        *)
(* document is one step, a later change keeps the earlier ones, and a call *)
(* that has returned has its change in the document.                       *)
(***************************************************************************)
CONSTANT Procs
VARIABLES store, returned
vars == <<store, returned>>

Init == store = {} /\ returned = {}
Update(p) == p \notin store /\ store' = store \cup {p} /\ UNCHANGED returned
Return(p) == p \in store /\ returned' = returned \cup {p} /\ UNCHANGED store
Next == \E p \in Procs : Update(p) \/ Return(p)
Spec == Init /\ [][Next]_vars
============================================================================
