----------------------------- MODULE LocalServer -----------------------------
(***************************************************************************)
(* The connection admission of the loopback service, LocalServer in        *)
(* server/local_runtime.py: one accept loop, one daemon thread per admitted *)
(* connection, and a bounded semaphore of slots.  A finished response is   *)
(* drained (shutdown_request waits for the peer to close first) before the *)
(* socket is closed and the slot is given back.                            *)
(*                                                                         *)
(* External: socketserver's accept loop, which calls process_request and,  *)
(* when that raises, shutdown_request on the accept thread itself.         *)
(***************************************************************************)
EXTENDS Integers, FiniteSets

CONSTANTS
    Conns,           \* the connections that may be open at one time
    MaxConnections,  \* max_connections of __init__ (32 in production)
    SendBudget,      \* bound: chunks a peer sends while it is being drained
    EndlessPeers     \* TRUE: a peer may keep sending, its budget is not spent

ASSUME SlotAssumption ==
    /\ IsFiniteSet(Conns)
    /\ MaxConnections \in Nat \ {0}
    /\ SendBudget \in Nat
    /\ EndlessPeers \in BOOLEAN

VARIABLES
    conn,      \* conn[c]: where connection c is in its life
    slots,     \* value of the BoundedSemaphore _slots
    inbox,     \* inbox[c]: TRUE when unread bytes of the peer wait in the socket
    open,      \* open[c]: the peer has not closed its end
    budget     \* budget[c]: chunks the peer may still send

vars == <<conn, slots, inbox, open, budget>>

\* absent    no such connection
\* backlog   connected, waiting for accept()
\* admitted  slot acquired, the thread is being started
\* serving   the handler runs (finish_request)
\* draining  the worker thread waits for the peer in shutdown_request
\* closing   socket closed, the slot is still held by the worker thread
\* shedding  the thread could not start: the accept loop itself drains it
Stage == {"absent", "backlog", "admitted", "serving", "draining", "closing",
          "shedding"}

\* The connections whose admission holds a slot.
Holders == {c \in Conns : conn[c] \in {"admitted", "serving", "draining", "closing"}}

\* The accept loop is inside process_request or its shutdown_request.
AcceptLoopBusy == \E c \in Conns : conn[c] \in {"admitted", "shedding"}

TypeOK ==
    /\ conn \in [Conns -> Stage]
    /\ slots \in 0 .. MaxConnections
    /\ inbox \in [Conns -> BOOLEAN]
    /\ open \in [Conns -> BOOLEAN]
    /\ budget \in [Conns -> 0 .. SendBudget]

Init ==
    /\ conn = [c \in Conns |-> "absent"]
    /\ slots = MaxConnections
    /\ inbox = [c \in Conns |-> FALSE]
    /\ open = [c \in Conns |-> FALSE]
    /\ budget = [c \in Conns |-> 0]

-----------------------------------------------------------------------------
(* The peers. *)

Connect(c) ==
    /\ conn[c] = "absent"
    /\ conn' = [conn EXCEPT ![c] = "backlog"]
    /\ open' = [open EXCEPT ![c] = TRUE]
    /\ budget' = [budget EXCEPT ![c] = SendBudget]
    /\ inbox' = [inbox EXCEPT ![c] = FALSE]
    /\ UNCHANGED slots

PeerSend(c) ==
    /\ open[c] /\ ~inbox[c] /\ budget[c] > 0
    /\ conn[c] \in {"draining", "shedding"}
    /\ inbox' = [inbox EXCEPT ![c] = TRUE]
    /\ budget' = [budget EXCEPT ![c] = IF EndlessPeers THEN @ ELSE @ - 1]
    /\ UNCHANGED <<conn, slots, open>>

PeerClose(c) ==
    /\ open[c]
    /\ open' = [open EXCEPT ![c] = FALSE]
    /\ UNCHANGED <<conn, slots, inbox, budget>>

-----------------------------------------------------------------------------
(* process_request, on the accept loop. *)

\* No slot is free: close_request and nothing else.
Refuse(c) ==
    /\ conn[c] = "backlog" /\ ~AcceptLoopBusy
    /\ slots = 0
    /\ conn' = [conn EXCEPT ![c] = "absent"]
    /\ open' = [open EXCEPT ![c] = FALSE]
    /\ UNCHANGED <<slots, inbox, budget>>

Admit(c) ==
    /\ conn[c] = "backlog" /\ ~AcceptLoopBusy
    /\ slots > 0
    /\ slots' = slots - 1
    /\ conn' = [conn EXCEPT ![c] = "admitted"]
    /\ UNCHANGED <<inbox, open, budget>>

ThreadStarts(c) ==
    /\ conn[c] = "admitted"
    /\ conn' = [conn EXCEPT ![c] = "serving"]
    /\ UNCHANGED <<slots, inbox, open, budget>>

\* Mutant: the except branch forgets to release the slot.
ThreadStartFailsLeaks(c) ==
    /\ conn[c] = "admitted"
    /\ conn' = [conn EXCEPT ![c] = "shedding"]
    /\ UNCHANGED <<slots, inbox, open, budget>>

\* super().process_request raised: release, re-raise; the accept loop then
\* calls shutdown_request on this connection itself.
ThreadStartFails(c) ==
    /\ conn[c] = "admitted"
    /\ slots' = slots + 1
    /\ conn' = [conn EXCEPT ![c] = "shedding"]
    /\ UNCHANGED <<inbox, open, budget>>

-----------------------------------------------------------------------------
(* process_request_thread and shutdown_request. *)

\* finish_request returned or raised; either way shutdown_request runs.
HandlerReturns(c) ==
    /\ conn[c] = "serving"
    /\ conn' = [conn EXCEPT ![c] = "draining"]
    /\ UNCHANGED <<slots, inbox, open, budget>>

\* recv returned bytes: the loop goes round, its timeout starts anew.
DrainRecv(c) ==
    /\ conn[c] \in {"draining", "shedding"}
    /\ inbox[c]
    /\ inbox' = [inbox EXCEPT ![c] = FALSE]
    /\ UNCHANGED <<conn, slots, open, budget>>

\* Mutant: no settimeout, the loop ends only when the peer has closed.
DrainEndsOnlyOnClose(c) ==
    /\ conn[c] \in {"draining", "shedding"}
    /\ ~inbox[c] /\ ~open[c]
    /\ conn' = [conn EXCEPT ![c] = IF @ = "draining" THEN "closing" ELSE "absent"]
    /\ UNCHANGED <<slots, inbox, open, budget>>

\* recv returned b"" (the peer closed) or timed out after close_grace without
\* a byte; close_request follows.
DrainEnds(c) ==
    /\ conn[c] \in {"draining", "shedding"}
    /\ ~inbox[c]
    /\ conn' = [conn EXCEPT ![c] = IF @ = "draining" THEN "closing" ELSE "absent"]
    /\ open' = [open EXCEPT ![c] = FALSE]
    /\ UNCHANGED <<slots, inbox, budget>>

\* The outermost finally of process_request_thread.
ReleaseSlot(c) ==
    /\ conn[c] = "closing"
    /\ slots' = slots + 1
    /\ conn' = [conn EXCEPT ![c] = "absent"]
    /\ UNCHANGED <<inbox, open, budget>>

-----------------------------------------------------------------------------

ServerStep(c) ==
    \/ Refuse(c) \/ Admit(c) \/ ThreadStarts(c) \/ ThreadStartFails(c)
    \/ HandlerReturns(c) \/ DrainRecv(c) \/ DrainEnds(c) \/ ReleaseSlot(c)

Next ==
    \E c \in Conns :
        \/ Connect(c) \/ PeerSend(c) \/ PeerClose(c)
        \/ Refuse(c) \/ Admit(c) \/ ThreadStarts(c) \/ ThreadStartFails(c)
        \/ HandlerReturns(c) \/ DrainRecv(c) \/ DrainEnds(c) \/ ReleaseSlot(c)

\* Each connection's thread keeps running: every handler ends by its own
\* deadlines (READ_TIMEOUT, the 900 s upstream timeout), recv by close_grace.
\* Peers promise nothing.
Fairness == \A c \in Conns : WF_vars(ServerStep(c))

Spec == Init /\ [][Next]_vars /\ Fairness

-----------------------------------------------------------------------------
(* Properties. *)

\* Slots are conserved on every path, the failed thread start included: what
\* the semaphore has left is what no live connection holds, so it neither
\* leaks a slot nor is released above its bound (BoundedSemaphore would raise).
SlotsConserved == slots + Cardinality(Holders) = MaxConnections

\* A connection is turned away only while every slot is held by a connection
\* that is still being started, served, drained or closed.
RefusedOnlyWhenFull ==
    [][\A c \in Conns :
          conn[c] = "backlog" /\ conn'[c] = "absent"
              => Cardinality(Holders) = MaxConnections]_vars

\* An admitted connection is over at some point: no peer that at some point
\* stops sending, closed or not, keeps its slot for ever, or the accept loop
\* that drains it because its thread could not be started.
SlotComesBack ==
    \A c \in Conns : conn[c] = "admitted" ~> conn[c] = "absent"

=============================================================================
