----------------------------- MODULE RouteLease -----------------------------
(***************************************************************************)
(* The /v1/responses handler of server/jev_server.py.  Handler threads run *)
(* concurrently; each looks for a route lease, decides on a model (client's*)
(* own choice, OFF file, lease, Jev, technical fallback), relays the call  *)
(* to the local caller edge and then stores or drops the lease.  The table *)
(* _route_leases is shared; its lock covers the lookup and the store, each *)
(* by itself, never the call in between.                                   *)
(*                                                                         *)
(* Two things are one nondeterministic choice each: whether the operator's *)
(* files (jev-router.off, .shadow, sol-baseline) are there when they are   *)
(* read, and whether a lease is past its TTL when it is looked up.         *)
(* External: the Jev API (answers, fails or times out) and the caller edge.*)
(***************************************************************************)
EXTENDS Integers, Sequences, FiniteSets

CONSTANTS
    Handlers,     \* the handler threads
    KeyedScopes,  \* scopes of requests with a prompt_cache_key
    TaskScopes,   \* scopes derived from the task text, no prompt_cache_key
    Turns,        \* fingerprints of user turns
    Tools,        \* names of tools
    Requests,     \* the requests callers may send
    JevModels,    \* the models Jev's answers select
    Modes,        \* the operator's files at selection: <<shadow, all-Sol cohort>>
    MaxCalls,     \* bound: requests received in one behaviour
    None          \* no turn fingerprint, tool name, lease, decision, request

Models == {"luna", "terra", "sol", "astra"}
Rank == [luna |-> 1, terra |-> 2, sol |-> 3, astra |-> 4]
Leases == {"one_call", "tool_chain", "user_turn"}
Scopes == KeyedScopes \cup TaskScopes

\* What the handler reads of a request.  tail says what the last input item is;
\* results is the batch of tool results at the tail, in order; model is "auto"
\* or the client's fixed model.
Request == [scope : Scopes, turn : Turns \cup {None},
            tail : {"result", "user", "other"},
            results : Seq([tool : Tools \cup {None}, error : BOOLEAN]),
            model : Models \cup {"auto"}, stream : BOOLEAN]

\* A decision with, as history, its number and the scope and turn it was taken
\* for.  gate is astra_policy exactly for astra, so it is not kept apart.
Decision == [id : Nat, scope : Scopes, turn : Turns \cup {None},
             model : Models, lease : Leases]

\* An entry of _route_leases.
Entry == [turn : Turns, lease : Leases, tool : Tools \cup {None},
          decision : Decision]

ASSUME LeaseAssumption ==
    /\ KeyedScopes \cap TaskScopes = {}
    /\ None \notin Turns \cup Tools \cup Request \cup Decision \cup Entry
    /\ JevModels \subseteq Models
    /\ Modes \subseteq BOOLEAN \X BOOLEAN
    /\ MaxCalls \in Nat
    /\ Requests \subseteq Request
    /\ \A r \in Requests : r.tail = "result" <=> r.results # <<>>

VARIABLES
    pc,        \* pc[h]: how far handler h is
    req,       \* req[h]: the request it works on
    decision,  \* decision[h]: the leased decision from the lookup on, then the
               \* one the call was decided by
    source,    \* decision_source
    served,    \* the model the call is sent to
    outcome,   \* how the relay ended
    leases,    \* _route_leases: scope -> entry
    received,  \* requests received so far
    decided,   \* decisions taken by Jev so far; it numbers them
    written,   \* history: the decisions a call of which was completed to its caller
    reused,    \* history: <<d, t>> when a call at tool t reused the tool_chain
               \* decision numbered d
    barrier    \* history: when an error, a user turn or a compaction last ended
               \* the lease of s, the number of decisions taken and those that
               \* calls of s under way were decided by

callVars == <<pc, req, decision, source, served, outcome>>
history == <<decided, written, reused, barrier>>
vars == <<callVars, leases, received, history>>

Stage == {"idle", "received", "looked", "judging", "decided", "forwarding",
          "streaming", "unwritten", "relayed"}
Source == {"none", "client_model", "off", "lease", "jev", "technical_fallback"}
\* refused: an error status, or none at all; completed and cut: status 200 with
\* and without response.completed.
Outcome == {"none", "refused", "completed", "cut"}

\* Every piece of state keeps its type.
TypeOK ==
    /\ pc \in [Handlers -> Stage]
    /\ req \in [Handlers -> Requests \cup {None}]
    /\ decision \in [Handlers -> Decision \cup {None}]
    /\ source \in [Handlers -> Source]
    /\ served \in [Handlers -> Models \cup {"none"}]
    /\ outcome \in [Handlers -> Outcome]
    /\ leases \in [Scopes -> Entry \cup {None}]
    /\ received \in 0 .. MaxCalls
    /\ decided \in Nat
    /\ written \subseteq Nat
    /\ reused \subseteq Nat \X Tools
    /\ barrier \in [Scopes -> [at : Nat, flying : SUBSET Nat]]

Init ==
    /\ pc = [h \in Handlers |-> "idle"]
    /\ req = [h \in Handlers |-> None]
    /\ decision = [h \in Handlers |-> None]
    /\ source = [h \in Handlers |-> "none"]
    /\ served = [h \in Handlers |-> "none"]
    /\ outcome = [h \in Handlers |-> "none"]
    /\ leases = [s \in Scopes |-> None]
    /\ received = 0
    /\ decided = 0
    /\ written = {}
    /\ reused = {}
    /\ barrier = [s \in Scopes |-> [at |-> 0, flying |-> {}]]

-----------------------------------------------------------------------------
(* classify: what the call is for, read off the tail of the input. *)

Step(r) == CASE r.tail = "result" -> "tool_step"
             [] r.tail = "user" -> "user_turn"
             [] OTHER -> "other"

\* The tool of the last result only, whatever else the batch holds.
Tool(r) == IF r.results = <<>> THEN None ELSE r.results[Len(r.results)].tool

\* Any error of the batch counts.
Errored(r) == \E i \in DOMAIN r.results : r.results[i].error

Keyed(r) == r.scope \in KeyedScopes

-----------------------------------------------------------------------------
(* Receiving, and the lease lookup. *)

\* do_POST and the checks at the top of the branch passed.
Receive(h, r) ==
    /\ pc[h] = "idle" /\ received < MaxCalls
    /\ received' = received + 1
    /\ pc' = [pc EXCEPT ![h] = "received"]
    /\ req' = [req EXCEPT ![h] = r]
    /\ UNCHANGED <<decision, source, served, outcome, leases, history>>

\* Mutant: the turn of the entry is not compared.
ReusableAnyTurn(e, r) ==
    /\ Step(r) = "tool_step" /\ ~Errored(r)
    /\ r.turn # None
    /\ e.lease # "one_call"
    /\ e.lease = "tool_chain" =>
         /\ Tool(r) # None
         /\ e.tool # None => Tool(r) = e.tool

\* route_lease's conditions on the entry e of r's scope.
Reusable(e, r) ==
    /\ Step(r) = "tool_step" /\ ~Errored(r)
    /\ r.turn # None /\ e.turn = r.turn
    /\ e.lease # "one_call"
    /\ e.lease = "tool_chain" =>
         /\ Tool(r) # None
         /\ e.tool # None => Tool(r) = e.tool

\* Mutant: the tool of the chain is not pinned at its first reuse.
Unpinned(e, r) == e

\* The entry after its reuse by r: the first tool of a chain is pinned.
Pinned(e, r) ==
    [turn |-> e.turn, lease |-> e.lease,
     tool |-> IF e.lease = "tool_chain" THEN Tool(r) ELSE e.tool,
     decision |-> e.decision]

\* route_lease finds an entry it may reuse: the entry's time moves on, the
\* decision is copied out.
LookupHit(h) ==
    LET r == req[h]
        e == leases[r.scope]
    IN  /\ pc[h] = "received"
        /\ e # None
        /\ Reusable(e, r)
        /\ leases' = [leases EXCEPT ![r.scope] = Pinned(e, r)]
        /\ pc' = [pc EXCEPT ![h] = "looked"]
        /\ decision' = [decision EXCEPT ![h] = e.decision]
        /\ reused' = IF e.lease = "tool_chain"
                     THEN reused \cup {<<e.decision.id, Tool(r)>>} ELSE reused
        /\ UNCHANGED <<req, source, served, outcome, received, decided, written,
                       barrier>>

EndsEveryLease(r) == Step(r) # "tool_step" \/ Errored(r)

\* The decisions of the calls of scope s that are under way.
Flying(s) == {decision[g].id : g \in {g \in Handlers : decision[g] # None /\ req[g].scope = s}}
Ended(s) == [barrier EXCEPT ![s] = [at |-> decided, flying |-> Flying(s)]]

\* Mutant: an entry that may not be reused is left in the table.
LookupMissKeeps(h) ==
    LET r == req[h]
    IN  /\ pc[h] = "received"
        /\ pc' = [pc EXCEPT ![h] = "looked"]
        /\ barrier' = IF EndsEveryLease(r) THEN Ended(r.scope) ELSE barrier
        /\ UNCHANGED <<req, decision, source, served, outcome, leases, received,
                       decided, written, reused>>

\* route_lease finds no entry, or pops one that it may not reuse or, as any
\* entry may be, that is past its TTL.
LookupMiss(h) ==
    LET r == req[h]
    IN  /\ pc[h] = "received"
        /\ leases' = [leases EXCEPT ![r.scope] = None]
        /\ pc' = [pc EXCEPT ![h] = "looked"]
        /\ barrier' = IF EndsEveryLease(r) THEN Ended(r.scope) ELSE barrier
        /\ UNCHANGED <<req, decision, source, served, outcome, received, decided,
                       written, reused>>

-----------------------------------------------------------------------------
(* The decision. *)

\* The call goes on to be sent, decided by d for the reason s.
Decide(h, s, d) ==
    /\ pc' = [pc EXCEPT ![h] = "decided"]
    /\ source' = [source EXCEPT ![h] = s]
    /\ decision' = [decision EXCEPT ![h] = d]
    /\ UNCHANGED <<req, served, outcome, leases, received, written, reused, barrier>>

\* The caller named its model: no decision, and a lease found is left aside.
UseClientModel(h) ==
    /\ pc[h] = "looked" /\ req[h].model # "auto"
    /\ Decide(h, "client_model", None)
    /\ UNCHANGED decided

\* The OFF file is there: no decision either.
SwitchedOff(h) ==
    /\ pc[h] = "looked" /\ req[h].model = "auto"
    /\ Decide(h, "off", None)
    /\ UNCHANGED decided

UseLease(h) ==
    /\ pc[h] = "looked" /\ req[h].model = "auto"
    /\ decision[h] # None
    /\ Decide(h, "lease", decision[h])
    /\ UNCHANGED decided

AskJev(h) ==
    /\ pc[h] = "looked" /\ req[h].model = "auto"
    /\ decision[h] = None
    /\ pc' = [pc EXCEPT ![h] = "judging"]
    /\ UNCHANGED <<req, decision, source, served, outcome, leases, received, history>>

JevAnswers(h, model, lease) ==
    /\ pc[h] = "judging"
    /\ decided' = decided + 1
    /\ Decide(h, "jev", [id |-> decided + 1, scope |-> req[h].scope,
                         turn |-> req[h].turn, model |-> model, lease |-> lease])

\* Jev fails, times out or answers nonsense; or there was no key or nothing to
\* judge.
TechnicalFallback(h) ==
    /\ \/ pc[h] = "judging"
       \/ pc[h] = "looked" /\ req[h].model = "auto" /\ decision[h] = None
    /\ Decide(h, "technical_fallback", None)
    /\ UNCHANGED decided

\* Mutant: the all-Sol cohort replaces astra_policy decisions too.
ServedAllSol(h, shadow, cohort) ==
    IF source[h] = "client_model" THEN req[h].model
    ELSE IF shadow \/ decision[h] = None THEN "astra"
    ELSE IF Keyed(req[h]) /\ cohort THEN "sol"
    ELSE decision[h].model

\* The model that serves the call.  cohort: the session is in the all-Sol
\* measurement, which never replaces an astra_policy decision.
Served(h, shadow, cohort) ==
    IF source[h] = "client_model" THEN req[h].model
    ELSE IF shadow \/ decision[h] = None THEN "astra"
    ELSE IF Keyed(req[h]) /\ cohort /\ decision[h].model # "astra" THEN "sol"
    ELSE decision[h].model

Select(h) ==
    /\ pc[h] = "decided"
    /\ \E m \in Modes : served' = [served EXCEPT ![h] = Served(h, m[1], m[2])]
    /\ pc' = [pc EXCEPT ![h] = "forwarding"]
    /\ UNCHANGED <<req, decision, source, outcome, leases, received, history>>

-----------------------------------------------------------------------------
(* _forward. *)

\* The edge cannot be reached, breaks off before the response was started, or
\* answers with an error status: nothing is written yet.
UpstreamRefuses(h) ==
    /\ pc[h] = "forwarding"
    /\ pc' = [pc EXCEPT ![h] = "unwritten"]
    /\ UNCHANGED <<req, decision, source, served, outcome, leases, received, history>>

StreamOpens(h) ==
    /\ pc[h] = "forwarding" /\ req[h].stream
    /\ pc' = [pc EXCEPT ![h] = "streaming"]
    /\ UNCHANGED <<req, decision, source, served, outcome, leases, received, history>>

\* The caller has been written all it gets: a refusal that was held back, a
\* stream to its end (with an error event when no terminal event came), or, when
\* caller or edge does not stream, the assembled object or a 502 instead of it.
Relay(h, o) ==
    /\ \/ pc[h] = "unwritten" /\ o = "refused"
       \/ pc[h] = "streaming" /\ o \in {"completed", "cut"}
       \/ pc[h] = "forwarding" /\ o \in {"completed", "cut", "refused"}
    /\ pc' = [pc EXCEPT ![h] = "relayed"]
    /\ outcome' = [outcome EXCEPT ![h] = o]
    /\ written' = IF o = "completed" /\ decision[h] # None
                  THEN written \cup {decision[h].id} ELSE written
    /\ UNCHANGED <<req, decision, source, served, leases, received, decided, reused,
                   barrier>>

\* The handler is done and its thread ends.
Finish(h) ==
    /\ pc' = [pc EXCEPT ![h] = "idle"]
    /\ req' = [req EXCEPT ![h] = None]
    /\ decision' = [decision EXCEPT ![h] = None]
    /\ source' = [source EXCEPT ![h] = "none"]
    /\ served' = [served EXCEPT ![h] = "none"]
    /\ outcome' = [outcome EXCEPT ![h] = "none"]
    /\ UNCHANGED <<received, history>>

\* The caller hung up, or the edge broke off a stream that had been started:
\* the exception leaves _post, and nothing is remembered.
Abandon(h) ==
    /\ pc[h] \in {"forwarding", "streaming", "unwritten"}
    /\ Finish(h)
    /\ UNCHANGED leases

-----------------------------------------------------------------------------
(* remember_route_lease. *)

\* Mutant: the HTTP status alone counts, not the terminal event.
CompletedByStatus(h) == outcome[h] \in {"completed", "cut"}

\* completed_status is 200.
Completed(h) == outcome[h] = "completed"

Leasable(h) ==
    /\ Completed(h) /\ Keyed(req[h])
    /\ decision[h] # None /\ decision[h].lease # "one_call"

\* A failed or unkeyed call, one without a decision, or a one-call decision
\* ends the lease of its scope, whoever stored it.
RememberNothing(h) ==
    /\ pc[h] = "relayed"
    /\ ~Leasable(h)
    /\ leases' = [leases EXCEPT ![req[h].scope] = None]
    /\ Finish(h)

\* The lease call h leaves.
NewEntry(h) ==
    [turn |-> req[h].turn, lease |-> decision[h].lease, tool |-> Tool(req[h]),
     decision |-> decision[h]]

\* The decision of a completed call becomes the lease, over whatever is there.
Remember(h) ==
    /\ pc[h] = "relayed"
    /\ Leasable(h)
    /\ leases' = IF req[h].turn = None THEN leases
                 ELSE [leases EXCEPT ![req[h].scope] = NewEntry(h)]
    /\ Finish(h)

-----------------------------------------------------------------------------

HandlerStep(h) ==
    \/ LookupHit(h) \/ LookupMiss(h)
    \/ UseClientModel(h) \/ SwitchedOff(h) \/ UseLease(h) \/ AskJev(h)
    \/ \E model \in JevModels, lease \in Leases : JevAnswers(h, model, lease)
    \/ TechnicalFallback(h) \/ Select(h)
    \/ UpstreamRefuses(h) \/ StreamOpens(h)
    \/ \E o \in Outcome : Relay(h, o)
    \/ Abandon(h) \/ RememberNothing(h) \/ Remember(h)

Next ==
    \E h \in Handlers :
        \/ \E r \in Requests : Receive(h, r)
        \/ HandlerStep(h)

Spec == Init /\ [][Next]_vars

-----------------------------------------------------------------------------
(* Properties. *)

\* Handler h found a lease and has not left it aside.
Reuses(h) == decision[h] # None /\ source[h] \in {"none", "lease"}

\* A route is reused only where Jev judged the same user turn of the same
\* keyed session, only for a clean tool step and never beyond a one-call lease,
\* however lookups, completions and stores of several handlers interleave.
ReuseIsForTheSameTurn ==
    \A h \in Handlers :
        Reuses(h) =>
            /\ decision[h].scope = req[h].scope /\ Keyed(req[h])
            /\ decision[h].turn = req[h].turn
            /\ Step(req[h]) = "tool_step" /\ ~Errored(req[h])
            /\ decision[h].lease # "one_call"

\* A decision is leased only after a call it routed was completed to its
\* caller: a refused, truncated or abandoned call leaves nothing to reuse.
LeaseNeedsCompletion ==
    \A s \in Scopes : leases[s] # None => leases[s].decision.id \in written

\* All calls that reuse one tool_chain decision end in one and the same tool,
\* also when an overlapping call stores the decision a second time.
ChainKeepsItsTool ==
    \A p, q \in reused : p[1] = q[1] => p[2] = q[2]

\* A call that leaves its model to the router is served below astra only by a
\* judgement of its own session and user turn, and never below what that asked
\* for: whoever took the decision, whatever other handlers leased meanwhile and
\* whatever the operator's files say.  A client's own choice is served as it is.
NeverBelowJudgement ==
    \A h \in Handlers :
        served[h] # "none" =>
            \/ source[h] = "client_model" /\ served[h] = req[h].model
            \/ source[h] # "client_model" /\ served[h] = "astra"
            \/ /\ source[h] # "client_model" /\ decision[h] # None
               /\ decision[h].scope = req[h].scope /\ decision[h].turn = req[h].turn
               /\ Rank[served[h]] >= Rank[decision[h].model]

\* An error, a new user turn or a compaction ends the lease for good: no later
\* call is served by a decision taken before it, unless a call decided by it was
\* still under way, which stores its lease when it completes.  Calls of a session
\* that follow one another leave no such exception.
EndedLeaseStaysEnded ==
    [][\A h \in Handlers :
          ~Reuses(h) /\ Reuses(h)' =>
              LET b == barrier[req[h].scope]
              IN  decision'[h].id > b.at \/ decision'[h].id \in b.flying]_vars
=============================================================================
