--------------------------- MODULE LocalExecution ---------------------------
(***************************************************************************)
(* A call executed on the workstation: server/local-client.mjs asks the    *)
(* central service for a route (or registers a fixed one), runs the call   *)
(* with the local account and reports how it ended.  The central side is   *)
(* /v1/route and /v1/outcome of server/jev_server.py with the decision     *)
(* records of server/dashboard.py.  The two meet only in HTTP exchanges    *)
(* that the client gives up after 4 s while the handler runs on.           *)
(*                                                                         *)
(* A route is a model with its effort.  Requests the checks at the top     *)
(* refuse (403, 404, 401, 413, 400) change nothing and are left out.  A    *)
(* record's outcome is what the client reported, without the timings that  *)
(* the route handler notes under the same key.  The record table's lock makes *)
(* record and get_record atomic, each by itself; any write may fail.       *)
(* External: Jev, the OpenAI backend, and the gateway in between, which    *)
(* closes one side when the other one goes.                                *)
(***************************************************************************)
EXTENDS Integers, FiniteSets

CONSTANTS
    Calls,        \* the calls of the workstations
    Routes,       \* model and effort pairs, the fallback among them
    Fallback,     \* Sol with the requested effort
    Backend,      \* statuses the OpenAI backend answers with
    KeepRecords,  \* unreviewed records kept (10000 in production)
    None          \* no route, no record, no selection, no outcome

Status == {200, 429, 502}
Terminal == {"completed", "failed", "disconnected"}
Phase == Terminal \cup {"received", "decided", "selected"}
Record == [started : Nat, phase : Phase, selected : Routes \cup {None},
           outcome : [route : Routes, status : Status] \cup {None}]

ASSUME ExecutionAssumption ==
    /\ IsFiniteSet(Calls)
    /\ Fallback \in Routes
    /\ Backend \subseteq Status
    /\ KeepRecords \in Nat \ {0}
    /\ None \notin Routes \cup Record \cup [route : Routes, status : Status]

VARIABLES
    client,    \* client[c]: how far the client process is with call c
    route,     \* route[c]: what it executes
    receipt,   \* receipt[c]: whether it holds the id of a central record
    http,      \* http[c]: status of the backend's response while it is relayed
    terminal,  \* terminal[c]: last terminal event it parsed
    status,    \* status[c]: what it reports
    central,   \* central[c]: how far the /v1/route handler is
    chosen,    \* chosen[c]: the route that handler answers with
    outcome,   \* outcome[c]: how far the /v1/outcome handler is
    records,   \* records[c]: the record of call c in the table
    clock      \* time of the newest record

clientVars == <<client, route, receipt, http, terminal, status>>
centralVars == <<central, chosen, outcome, records, clock>>
vars == <<clientVars, centralVars>>

\* Every piece of state keeps its type, and a call that is executed has a route.
TypeOK ==
    /\ client \in [Calls -> {"idle", "routing", "executing", "streaming",
                             "reporting", "posting", "done"}]
    /\ route \in [Calls -> Routes \cup {None}]
    /\ receipt \in [Calls -> {"none", "pending", "held"}]
    /\ http \in [Calls -> Status \cup {0}]
    /\ terminal \in [Calls -> {"none", "completed", "other"}]
    /\ status \in [Calls -> Status \cup {0}]
    /\ central \in [Calls -> {"none", "sent", "judging", "decided", "replying",
                              "answered", "gone"}]
    /\ chosen \in [Calls -> Routes \cup {None}]
    /\ outcome \in [Calls -> {"none", "sent", "accepted", "over"}]
    /\ records \in [Calls -> Record \cup {None}]
    /\ clock \in Nat
    /\ \A c \in Calls : client[c] \notin {"idle", "routing"} => route[c] # None

Init ==
    /\ client = [c \in Calls |-> "idle"]
    /\ route = [c \in Calls |-> None]
    /\ receipt = [c \in Calls |-> "none"]
    /\ http = [c \in Calls |-> 0]
    /\ terminal = [c \in Calls |-> "none"]
    /\ status = [c \in Calls |-> 0]
    /\ central = [c \in Calls |-> "none"]
    /\ chosen = [c \in Calls |-> None]
    /\ outcome = [c \in Calls |-> "none"]
    /\ records = [c \in Calls |-> None]
    /\ clock = 0

-----------------------------------------------------------------------------
(* dashboard.record. *)

\* The table after the event (phase, selected, result) was merged into the
\* record of c, which is made when it is not there.
Merged(c, phase, selected, result) ==
    LET old == records[c]
    IN  [records EXCEPT ![c] =
          [started |-> IF old = None THEN clock + 1 ELSE old.started,
           phase |-> phase,
           selected |-> IF selected # None \/ old = None THEN selected ELSE old.selected,
           outcome |-> IF result # None \/ old = None THEN result ELSE old.outcome]]

\* Only the newest KeepRecords stay, whatever their phase.
Pruned(table) ==
    [c \in Calls |->
        IF /\ table[c] # None
           /\ Cardinality({d \in Calls : table[d] # None
                              /\ table[d].started > table[c].started}) >= KeepRecords
        THEN None ELSE table[c]]

\* The event is written, with the retention when it is a terminal one, or
\* storage fails and the handler goes on all the same.
Trace(c, phase, selected, result) ==
    \/ /\ records' = LET table == Merged(c, phase, selected, result)
                     IN  IF phase \in Terminal THEN Pruned(table) ELSE table
       /\ clock' = IF records[c] = None THEN clock + 1 ELSE clock
    \/ UNCHANGED <<records, clock>>

-----------------------------------------------------------------------------
(* The client: deciding what to execute. *)

\* jev/auto: the request waits for the central answer.
BeginAutomatic(c) ==
    /\ client[c] = "idle"
    /\ client' = [client EXCEPT ![c] = "routing"]
    /\ central' = [central EXCEPT ![c] = "sent"]
    /\ UNCHANGED <<route, receipt, http, terminal, status, chosen, outcome, records,
                   clock>>

\* A fixed model: executed at once, registered on the side.
BeginFixed(c, r) ==
    /\ client[c] = "idle"
    /\ client' = [client EXCEPT ![c] = "executing"]
    /\ route' = [route EXCEPT ![c] = r]
    /\ receipt' = [receipt EXCEPT ![c] = "pending"]
    /\ central' = [central EXCEPT ![c] = "sent"]
    /\ chosen' = [chosen EXCEPT ![c] = r]
    /\ UNCHANGED <<http, terminal, status, outcome, records, clock>>

RouteArrives(c) ==
    /\ client[c] = "routing" /\ central[c] = "answered"
    /\ client' = [client EXCEPT ![c] = "executing"]
    /\ route' = [route EXCEPT ![c] = chosen[c]]
    /\ receipt' = [receipt EXCEPT ![c] = "held"]
    /\ UNCHANGED <<http, terminal, status, centralVars>>

\* Mutant: the timeout is left out, only an error of the service ends the wait.
RouteFailsOnErrorOnly(c) ==
    /\ client[c] = "routing" /\ central[c] = "gone"
    /\ client' = [client EXCEPT ![c] = "executing"]
    /\ route' = [route EXCEPT ![c] = Fallback]
    /\ UNCHANGED <<receipt, http, terminal, status, centralVars>>

\* An error, an unusable answer, or 4 s without one, whatever the handler does.
RouteFails(c) ==
    /\ client[c] = "routing"
    /\ client' = [client EXCEPT ![c] = "executing"]
    /\ route' = [route EXCEPT ![c] = Fallback]
    /\ UNCHANGED <<receipt, http, terminal, status, centralVars>>

\* The registration promise of a fixed route settles: with an id, or with null
\* after an error or 4 s.
RegistrationSettles(c) ==
    /\ receipt[c] = "pending"
    /\ \E r \in {"held", "none"} :
         /\ r = "held" => central[c] = "answered"
         /\ receipt' = [receipt EXCEPT ![c] = r]
    /\ UNCHANGED <<client, route, http, terminal, status, centralVars>>

-----------------------------------------------------------------------------
(* The client: executing. *)

BackendResponds(c, s) ==
    /\ client[c] = "executing"
    /\ client' = [client EXCEPT ![c] = "streaming"]
    /\ http' = [http EXCEPT ![c] = s]
    /\ UNCHANGED <<route, receipt, terminal, status, centralVars>>

\* response.completed, or response.failed or response.incomplete.  The body of an
\* error status carries no events.
TerminalEvent(c, t) ==
    /\ client[c] = "streaming" /\ http[c] = 200
    /\ terminal' = [terminal EXCEPT ![c] = t]
    /\ UNCHANGED <<client, route, receipt, http, status, centralVars>>

\* The call is over and report is called with s.
Ended(c, s) ==
    /\ client' = [client EXCEPT ![c] = "reporting"]
    /\ status' = [status EXCEPT ![c] = s]
    /\ http' = [http EXCEPT ![c] = 0]
    /\ UNCHANGED <<route, receipt, terminal, centralVars>>

\* Mutant: the status of the response is reported as it is.
StreamEndsByStatus(c) ==
    /\ client[c] = "streaming"
    /\ Ended(c, http[c])

\* The body ended: a 200 without response.completed is reported as a 502.
StreamEnds(c) ==
    /\ client[c] = "streaming"
    /\ Ended(c, IF http[c] = 200 /\ terminal[c] # "completed" THEN 502 ELSE http[c])

\* fetch failed, the body broke off, or Codex hung up and the call was aborted.
ExecutionFails(c) ==
    /\ client[c] \in {"executing", "streaming"}
    /\ Ended(c, IF terminal[c] = "completed" THEN 200 ELSE 502)

\* report: waits for a pending registration; without an id there is nothing to
\* report to.
Report(c) ==
    /\ client[c] = "reporting" /\ receipt[c] # "pending"
    /\ client' = [client EXCEPT ![c] = IF receipt[c] = "held" THEN "posting" ELSE "done"]
    /\ outcome' = [outcome EXCEPT ![c] = IF receipt[c] = "held" THEN "sent" ELSE @]
    /\ UNCHANGED <<route, receipt, http, terminal, status, central, chosen, records,
                   clock>>

\* The post of the outcome returned, failed or was given up after 4 s.
ReportReturns(c) ==
    /\ client[c] = "posting"
    /\ client' = [client EXCEPT ![c] = "done"]
    /\ UNCHANGED <<route, receipt, http, terminal, status, centralVars>>

-----------------------------------------------------------------------------
(* The /v1/route handler. *)

\* Handler step: it moves to stage s and traces an event.
RouteStep(c, s, phase, selected) ==
    /\ central' = [central EXCEPT ![c] = s]
    /\ Trace(c, phase, selected, None)
    /\ UNCHANGED <<clientVars, outcome>>

\* chosen[c] is set already when the route is a fixed one.
RouteReceived(c) ==
    /\ central[c] = "sent"
    /\ RouteStep(c, IF chosen[c] = None THEN "judging" ELSE "decided", "received", None)
    /\ UNCHANGED chosen

\* The request never reaches the service, or no Jev key is configured.
RouteRefused(c) ==
    /\ \/ central[c] = "sent" \/ central[c] = "judging"
    /\ central' = [central EXCEPT ![c] = "gone"]
    /\ UNCHANGED <<clientVars, chosen, outcome, records, clock>>

JevDecides(c, r) ==
    /\ central[c] = "judging"
    /\ chosen' = [chosen EXCEPT ![c] = r]
    /\ RouteStep(c, "decided", "decided", None)

\* The exception reaches do_POST; a reset by Jev is taken for the client's.
JevFails(c) ==
    /\ central[c] = "judging"
    /\ \E phase \in {"failed", "disconnected"} : RouteStep(c, "gone", phase, None)
    /\ UNCHANGED chosen

RouteSelected(c) ==
    /\ central[c] = "decided"
    /\ RouteStep(c, "replying", "selected", chosen[c])
    /\ UNCHANGED chosen

\* The answer is on its way, whether or not the client still waits for it.
RouteAnswered(c) ==
    /\ central[c] = "replying"
    /\ central' = [central EXCEPT ![c] = "answered"]
    /\ UNCHANGED <<clientVars, chosen, outcome, records, clock>>

\* Mutant: the answer had been sent when the connection broke.
AnswerUndeliveredLate(c) ==
    /\ central[c] \in {"replying", "answered"}
    /\ RouteStep(c, "answered", "disconnected", None)
    /\ UNCHANGED chosen

\* The connection is gone before the answer could be sent.
AnswerUndelivered(c) ==
    /\ central[c] = "replying"
    /\ RouteStep(c, "gone", "disconnected", None)
    /\ UNCHANGED chosen

-----------------------------------------------------------------------------
(* The /v1/outcome handler. *)

\* get_record finds a client-executed selection of the reported model.
OutcomeAccepted(c) ==
    /\ outcome[c] = "sent"
    /\ records[c] # None /\ records[c].selected = route[c]
    /\ outcome' = [outcome EXCEPT ![c] = "accepted"]
    /\ UNCHANGED <<clientVars, central, chosen, records, clock>>

\* No such record, an unreadable table, or the post never arrived.
OutcomeRejected(c) ==
    /\ outcome[c] = "sent"
    /\ outcome' = [outcome EXCEPT ![c] = "over"]
    /\ UNCHANGED <<clientVars, central, chosen, records, clock>>

OutcomeRecorded(c) ==
    /\ outcome[c] = "accepted"
    /\ outcome' = [outcome EXCEPT ![c] = "over"]
    /\ Trace(c, IF status[c] = 200 THEN "completed" ELSE "failed", None,
             [route |-> route[c], status |-> status[c]])
    /\ UNCHANGED <<clientVars, central, chosen>>

-----------------------------------------------------------------------------

ClientStep(c) ==
    \/ RouteArrives(c) \/ RouteFails(c) \/ RegistrationSettles(c)
    \/ Report(c) \/ ReportReturns(c)

Next ==
    \E c \in Calls :
        \/ BeginAutomatic(c) \/ \E r \in Routes : BeginFixed(c, r)
        \/ RouteArrives(c) \/ RouteFails(c) \/ RegistrationSettles(c)
        \/ \E s \in Backend : BackendResponds(c, s)
        \/ \E t \in {"completed", "other"} : TerminalEvent(c, t)
        \/ StreamEnds(c) \/ ExecutionFails(c) \/ Report(c) \/ ReportReturns(c)
        \/ RouteReceived(c) \/ RouteRefused(c) \/ \E r \in Routes : JevDecides(c, r)
        \/ JevFails(c) \/ RouteSelected(c) \/ RouteAnswered(c) \/ AnswerUndelivered(c)
        \/ OutcomeAccepted(c) \/ OutcomeRejected(c) \/ OutcomeRecorded(c)

\* The client's own steps, its 4 s timers among them.  Nothing is assumed of
\* the central service, of Jev or of the backend.
Fairness == \A c \in Calls : WF_vars(ClientStep(c))

Spec == Init /\ [][Next]_vars /\ Fairness

-----------------------------------------------------------------------------
(* Properties. *)

\* What the dashboard shows as the outcome of a call is what the workstation
\* did: the route it executed, not one that Jev chose too late, and a success
\* exactly when response.completed was the last word of the backend.  Timeouts
\* of either exchange, lost writes and retention do not change that.
OutcomeIsTheExecution ==
    \A c \in Calls :
        records[c] # None /\ records[c].outcome # None =>
            /\ records[c].outcome.route = route[c]
            /\ records[c].selected \in {route[c], None}
            /\ records[c].outcome.status = 200 <=> terminal[c] = "completed"
            /\ records[c].phase = "completed" <=> terminal[c] = "completed"

\* A record that is completed, failed or disconnected never changes its phase
\* again: no late answer, retry or second report reopens it.
TerminalRecordIsFinal ==
    [][\A c \in Calls :
          records[c] # None /\ records[c].phase \in Terminal =>
              records'[c] = None \/ records'[c].phase = records[c].phase]_vars

\* The central service never holds up a call: without any answer of it the
\* call is executed, and its report comes to an end.
CentralNeverHoldsACall ==
    \A c \in Calls : client[c] \in {"routing", "reporting", "posting"}
                        ~> client[c] \in {"executing", "done"}
=============================================================================
