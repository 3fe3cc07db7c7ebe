-------------------------- MODULE RouteLeaseProofs --------------------------
(***************************************************************************)
(* Type correctness and the reuse guarantees of the route leases, for any  *)
(* number of handlers, sessions, turns, tools and calls.                   *)
(***************************************************************************)
EXTENDS RouteLease, TLAPS

-----------------------------------------------------------------------------
(* Facts about the operators the actions are built from. *)

\* The last element of a sequence that is not empty.
LEMMA LastElement ==
    ASSUME NEW S, NEW s \in Seq(S), s # <<>>
    PROVE  s[Len(s)] \in S
OBVIOUS

\* The last result of a batch names a tool or none.
LEMMA ToolType == \A r \in Requests : Tool(r) \in Tools \cup {None}
<1> SUFFICES ASSUME NEW r \in Requests PROVE Tool(r) \in Tools \cup {None}
  OBVIOUS
<1>1. r.results \in Seq([tool : Tools \cup {None}, error : BOOLEAN])
  BY LeaseAssumption DEF Request
<1>2. CASE r.results = <<>>
  BY <1>2 DEF Tool
<1>3. CASE r.results # <<>>
  <2>1. r.results[Len(r.results)] \in [tool : Tools \cup {None}, error : BOOLEAN]
    BY <1>1, <1>3, LastElement
  <2> QED BY <1>3, <2>1 DEF Tool
<1> QED BY <1>2, <1>3

\* The fields of a request that the actions use.
LEMMA RequestType ==
    \A r \in Requests : /\ r.scope \in Scopes
                        /\ r.turn \in Turns \cup {None}
                        /\ r.model \in Models \cup {"auto"}
                        /\ r # None
BY LeaseAssumption DEF Request

\* The sentinel is no decision and no entry.
LEMMA NoneApart == None \notin Decision /\ None \notin Entry /\ None \notin Turns
BY LeaseAssumption

-----------------------------------------------------------------------------
(* Type correctness. *)

\* A handler that is past "idle" holds a request; one that goes by the client's
\* model holds a request that names it.
Busy ==
    \A h \in Handlers :
        /\ pc[h] # "idle" => req[h] \in Requests
        /\ pc[h] = "idle" => source[h] = "none"
        /\ source[h] = "client_model" => req[h].model # "auto"

TypeInv == TypeOK /\ Busy

\* The type invariant holds when the server starts.
LEMMA TypeInit == Init => TypeInv
BY LeaseAssumption DEF Init, TypeInv, TypeOK, Busy, Stage, Source, Outcome

\* Every step of a handler keeps the types.
LEMMA TypeStep == TypeInv /\ [Next]_vars => TypeInv'
<1> SUFFICES ASSUME TypeInv, [Next]_vars PROVE TypeInv'
  OBVIOUS
<1> USE DEF TypeInv
<1>1. ASSUME NEW h \in Handlers, NEW r \in Requests, Receive(h, r) PROVE TypeInv'
  BY <1>1, LeaseAssumption DEF Receive, TypeOK, Busy, Stage, history
<1>2. ASSUME NEW h \in Handlers, LookupHit(h) PROVE TypeInv'
  <2> DEFINE r == req[h]
             e == leases[r.scope]
  <2>1. r \in Requests /\ r.scope \in Scopes /\ Tool(r) \in Tools \cup {None}
    BY <1>2, RequestType, ToolType DEF LookupHit, Busy
  <2>2. e \in Entry
    BY <1>2, <2>1 DEF LookupHit, TypeOK
  <2>3. e.decision \in Decision /\ e.decision.id \in Nat
    BY <2>2 DEF Entry, Decision
  <2>4. Pinned(e, r) \in Entry
    BY <2>1, <2>2 DEF Entry, Pinned
  <2>5. reused' \subseteq Nat \X Tools
    BY <1>2, <2>1, <2>3 DEF LookupHit, Reusable, TypeOK
  <2>6. leases' \in [Scopes -> Entry \cup {None}]
    BY <1>2, <2>1, <2>4 DEF LookupHit, TypeOK
  <2>7. decision' \in [Handlers -> Decision \cup {None}]
    BY <1>2, <2>3 DEF LookupHit, TypeOK
  <2>8. pc' \in [Handlers -> Stage] /\ Busy'
    BY <1>2, <2>1 DEF LookupHit, TypeOK, Stage, Busy
  <2> QED BY <1>2, <2>5, <2>6, <2>7, <2>8 DEF LookupHit, TypeOK
<1>3. ASSUME NEW h \in Handlers, LookupMiss(h) PROVE TypeInv'
  <2>1. req[h] \in Requests /\ req[h].scope \in Scopes
    BY <1>3, RequestType DEF LookupMiss, Busy
  <2>2. Flying(req[h].scope) \subseteq Nat
    BY DEF Flying, TypeOK, Decision
  <2>3. barrier' \in [Scopes -> [at : Nat, flying : SUBSET Nat]]
    BY <1>3, <2>1, <2>2 DEF LookupMiss, Ended, TypeOK
  <2> QED BY <1>3, <2>1, <2>3 DEF LookupMiss, TypeOK, Busy, Stage
<1>4. ASSUME NEW h \in Handlers, NEW s \in Source, NEW d \in Decision \cup {None},
             pc[h] # "idle", s = "client_model" => req[h].model # "auto",
             decided' \in Nat, Decide(h, s, d)
      PROVE  TypeInv'
  BY <1>4 DEF Decide, TypeOK, Busy, Stage
<1>5. ASSUME NEW h \in Handlers,
             UseClientModel(h) \/ SwitchedOff(h) \/ UseLease(h) \/ TechnicalFallback(h)
      PROVE  TypeInv'
  <2>1. decided' \in Nat /\ pc[h] # "idle"
    BY <1>5 DEF UseClientModel, SwitchedOff, UseLease, TechnicalFallback, TypeOK
  <2>2. decision[h] \in Decision \cup {None}
    BY DEF TypeOK
  <2> QED BY <1>4, <1>5, <2>1, <2>2
       DEF UseClientModel, SwitchedOff, UseLease, TechnicalFallback, Source
<1>6. ASSUME NEW h \in Handlers, NEW m \in JevModels, NEW l \in Leases, JevAnswers(h, m, l)
      PROVE  TypeInv'
  <2>1. req[h] \in Requests /\ req[h].scope \in Scopes /\ req[h].turn \in Turns \cup {None}
    BY <1>6, RequestType DEF JevAnswers, Busy
  <2>2. decided' \in Nat /\ decided + 1 \in Nat /\ pc[h] # "idle"
    BY <1>6 DEF JevAnswers, TypeOK
  <2>3. [id |-> decided + 1, scope |-> req[h].scope, turn |-> req[h].turn,
         model |-> m, lease |-> l] \in Decision
    BY <2>1, <2>2, LeaseAssumption DEF Decision
  <2> QED BY <1>4, <1>6, <2>2, <2>3 DEF JevAnswers, Source
<1>7. ASSUME NEW h \in Handlers, AskJev(h) \/ UpstreamRefuses(h) \/ StreamOpens(h)
      PROVE  TypeInv'
  BY <1>7 DEF AskJev, UpstreamRefuses, StreamOpens, TypeOK, Busy, Stage, history
<1>8. ASSUME NEW h \in Handlers, Select(h) PROVE TypeInv'
  <2>1. ASSUME NEW m \in Modes PROVE Served(h, m[1], m[2]) \in Models
    <3>1. req[h].model \in Models \cup {"auto"}
      BY <1>8, RequestType DEF Select, Busy
    <3>2. decision[h] # None => decision[h].model \in Models
      BY DEF TypeOK, Decision
    <3>3. "astra" \in Models /\ "sol" \in Models
      BY DEF Models
    <3> QED BY <3>1, <3>2, <3>3 DEF Served, Busy
  <2>2. served' \in [Handlers -> Models \cup {"none"}]
    BY <1>8, <2>1 DEF Select, TypeOK
  <2> QED BY <1>8, <2>2 DEF Select, TypeOK, Busy, Stage, history
<1>9. ASSUME NEW h \in Handlers, NEW o \in Outcome, Relay(h, o) PROVE TypeInv'
  <2>1. written' \subseteq Nat
    BY <1>9 DEF Relay, TypeOK, Decision
  <2> QED BY <1>9, <2>1 DEF Relay, TypeOK, Busy, Stage
<1>10. ASSUME NEW h \in Handlers, Finish(h), leases' \in [Scopes -> Entry \cup {None}]
       PROVE  TypeInv'
  BY <1>10 DEF Finish, TypeOK, Busy, Stage, Source, Outcome, history
<1>11. ASSUME NEW h \in Handlers, Abandon(h) \/ RememberNothing(h) PROVE TypeInv'
  <2>1. leases' \in [Scopes -> Entry \cup {None}]
    BY <1>11 DEF Abandon, RememberNothing, TypeOK
  <2> QED BY <1>10, <1>11, <2>1 DEF Abandon, RememberNothing
<1>12. ASSUME NEW h \in Handlers, Remember(h) PROVE TypeInv'
  <2>1. /\ req[h] \in Requests /\ req[h].scope \in Scopes
        /\ req[h].turn \in Turns \cup {None} /\ Tool(req[h]) \in Tools \cup {None}
    BY <1>12, RequestType, ToolType DEF Remember, Busy
  <2>2. decision[h] \in Decision
    BY <1>12 DEF Remember, Leasable, TypeOK
  <2>3. req[h].turn # None => NewEntry(h) \in Entry
    BY <2>1, <2>2 DEF NewEntry, Entry, Decision
  <2>4. leases' \in [Scopes -> Entry \cup {None}]
    BY <1>12, <2>1, <2>3 DEF Remember, TypeOK
  <2> QED BY <1>10, <1>12, <2>4 DEF Remember
<1>13. CASE UNCHANGED vars
  BY <1>13 DEF vars, callVars, history, TypeOK, Busy
<1> QED
  BY <1>1, <1>2, <1>3, <1>5, <1>6, <1>7, <1>8, <1>9, <1>11, <1>12, <1>13
  DEF Next, HandlerStep

\* The lease table, the calls in flight and the history keep their types.
THEOREM TypeCorrect == Spec => []TypeOK
<1>1. TypeInv => TypeOK
  BY DEF TypeInv
<1> QED BY <1>1, TypeInit, TypeStep, PTL DEF Spec

-----------------------------------------------------------------------------
(* What is reused, and when. *)

\* A stored lease: of a keyed session, of the turn and horizon its decision was
\* taken with, and of a decision some call has been completed by.
EntryOK(s) ==
    leases[s] # None =>
        /\ s \in KeyedScopes
        /\ leases[s].decision.scope = s
        /\ leases[s].decision.turn = leases[s].turn
        /\ leases[s].lease = leases[s].decision.lease
        /\ leases[s].lease # "one_call"
        /\ leases[s].decision.id \in written

\* A call in flight carries a decision of its own scope and turn; a leased one
\* only for a clean tool step of a keyed session.
CallOK(h) ==
    /\ decision[h] # None =>
         /\ source[h] \in {"none", "lease", "jev"}
         /\ decision[h].scope = req[h].scope
         /\ decision[h].turn = req[h].turn
    /\ Reuses(h) =>
         /\ decision[h].id \in written
         /\ Keyed(req[h]) /\ Step(req[h]) = "tool_step" /\ ~Errored(req[h])
         /\ decision[h].lease # "one_call"
    /\ outcome[h] = "completed" /\ decision[h] # None => decision[h].id \in written
    /\ pc[h] # "relayed" => outcome[h] = "none"
    /\ pc[h] \in {"idle", "received", "judging"} => decision[h] = None
    /\ pc[h] \in {"idle", "received", "looked", "judging"} => source[h] = "none"

ReuseInv ==
    /\ TypeInv
    /\ \A s \in Scopes : EntryOK(s)
    /\ \A h \in Handlers : CallOK(h)

\* With an empty lease table there is nothing to reuse.
LEMMA ReuseInit == Init => ReuseInv
BY TypeInit DEF Init, ReuseInv, EntryOK, CallOK, Reuses

\* Lookups, decisions and stores of all handlers keep ReuseInv.
LEMMA ReuseStep == ReuseInv /\ [Next]_vars => ReuseInv'
<1> SUFFICES ASSUME ReuseInv, [Next]_vars PROVE ReuseInv'
  OBVIOUS
<1>0. TypeInv /\ TypeInv'
  BY TypeStep DEF ReuseInv
<1> USE NoneApart
<1>1. ASSUME NEW h \in Handlers, NEW r \in Requests, Receive(h, r)
      PROVE  \A g \in Handlers : CallOK(g)'
  BY <1>0, <1>1 DEF Receive, ReuseInv, CallOK, Reuses, TypeInv, TypeOK, history
<1>2. ASSUME NEW h \in Handlers, LookupHit(h)
      PROVE  /\ \A s \in Scopes : EntryOK(s)'
             /\ \A g \in Handlers : CallOK(g)'
  <2> DEFINE r == req[h]
             e == leases[r.scope]
  <2>1. r \in Requests /\ r.scope \in Scopes
    BY <1>0, <1>2, RequestType DEF LookupHit, TypeInv, Busy
  <2>2. e \in Entry /\ EntryOK(r.scope)
    BY <1>0, <1>2, <2>1 DEF LookupHit, TypeInv, TypeOK, ReuseInv
  <2>3. /\ Pinned(e, r).turn = e.turn /\ Pinned(e, r).lease = e.lease
        /\ Pinned(e, r).decision = e.decision
    BY DEF Pinned
  <2>4. \A s \in Scopes : EntryOK(s)'
    BY <1>0, <1>2, <2>1, <2>2, <2>3 DEF LookupHit, EntryOK, ReuseInv, TypeInv, TypeOK
  <2>5. CallOK(h)'
    BY <1>0, <1>2, <2>1, <2>2
    DEF LookupHit, EntryOK, ReuseInv, TypeInv, TypeOK, CallOK, Reuses, Reusable, Keyed
  <2>6. ASSUME NEW g \in Handlers, g # h PROVE CallOK(g)'
    BY <1>0, <1>2, <2>6 DEF LookupHit, ReuseInv, TypeInv, TypeOK, CallOK, Reuses
  <2> QED BY <2>4, <2>5, <2>6
<1>3. ASSUME NEW h \in Handlers, LookupMiss(h)
      PROVE  /\ \A s \in Scopes : EntryOK(s)'
             /\ \A g \in Handlers : CallOK(g)'
  <2>1. req[h].scope \in Scopes
    BY <1>0, <1>3, RequestType DEF LookupMiss, TypeInv, Busy
  <2> QED BY <1>0, <1>3, <2>1
       DEF LookupMiss, ReuseInv, EntryOK, CallOK, Reuses, TypeInv, TypeOK
<1>4. ASSUME NEW h \in Handlers,
             UseClientModel(h) \/ SwitchedOff(h) \/ UseLease(h) \/ TechnicalFallback(h)
      PROVE  \A g \in Handlers : CallOK(g)'
  <2>1. PICK s \in Source, d \in {None, decision[h]} :
          /\ Decide(h, s, d)
          /\ d # None => s = "lease" /\ pc[h] = "looked"
          /\ pc[h] \in {"looked", "judging"}
    BY <1>4 DEF UseClientModel, SwitchedOff, UseLease, TechnicalFallback, Source
  <2> QED BY <1>0, <2>1 DEF Decide, ReuseInv, CallOK, Reuses, TypeInv, TypeOK
<1>5. ASSUME NEW h \in Handlers, NEW m \in JevModels, NEW l \in Leases, JevAnswers(h, m, l)
      PROVE  \A g \in Handlers : CallOK(g)'
  BY <1>0, <1>5 DEF JevAnswers, Decide, ReuseInv, CallOK, Reuses, TypeInv, TypeOK
<1>6. ASSUME NEW h \in Handlers,
             AskJev(h) \/ Select(h) \/ UpstreamRefuses(h) \/ StreamOpens(h)
      PROVE  \A g \in Handlers : CallOK(g)'
  BY <1>0, <1>6 DEF AskJev, Select, UpstreamRefuses, StreamOpens, ReuseInv, CallOK,
    Reuses, TypeInv, TypeOK, history
<1>7. ASSUME NEW h \in Handlers, NEW o \in Outcome, Relay(h, o)
      PROVE  /\ \A s \in Scopes : EntryOK(s)'
             /\ \A g \in Handlers : CallOK(g)'
  BY <1>0, <1>7 DEF Relay, ReuseInv, EntryOK, CallOK, Reuses, TypeInv, TypeOK
<1>8. ASSUME NEW h \in Handlers, Finish(h) PROVE \A g \in Handlers : CallOK(g)'
  BY <1>0, <1>8 DEF Finish, ReuseInv, CallOK, Reuses, TypeInv, TypeOK, history
<1>9. ASSUME NEW h \in Handlers, Abandon(h) \/ RememberNothing(h) \/ Remember(h)
      PROVE  Finish(h) /\ written' = written
  BY <1>9 DEF Abandon, RememberNothing, Remember, Finish, history
<1>10. ASSUME NEW h \in Handlers, RememberNothing(h) PROVE \A s \in Scopes : EntryOK(s)'
  BY <1>0, <1>9, <1>10 DEF RememberNothing, ReuseInv, EntryOK, TypeInv, TypeOK
<1>11. ASSUME NEW h \in Handlers, Remember(h) PROVE \A s \in Scopes : EntryOK(s)'
  <2>1. req[h].scope \in Scopes
    BY <1>0, <1>11, RequestType DEF Remember, TypeInv, Busy
  <2>2. /\ NewEntry(h).turn = req[h].turn /\ NewEntry(h).lease = decision[h].lease
        /\ NewEntry(h).decision = decision[h]
    BY DEF NewEntry
  <2>3. /\ req[h].scope \in KeyedScopes /\ decision[h].id \in written
        /\ decision[h].scope = req[h].scope /\ decision[h].turn = req[h].turn
        /\ decision[h].lease # "one_call"
    BY <1>11 DEF Remember, Leasable, Completed, Keyed, ReuseInv, CallOK
  <2> QED BY <1>0, <1>9, <1>11, <2>1, <2>2, <2>3
       DEF Remember, ReuseInv, EntryOK, TypeInv, TypeOK
<1>12. ASSUME UNCHANGED <<leases, written>> PROVE \A s \in Scopes : EntryOK(s)'
  BY <1>12 DEF ReuseInv, EntryOK
<1>13. CASE UNCHANGED vars
  BY <1>0, <1>12, <1>13 DEF vars, callVars, history, ReuseInv, CallOK, Reuses
<1>14. ASSUME NEW h \in Handlers, NEW r \in Requests, Receive(h, r)
       PROVE  UNCHANGED <<leases, written>>
  BY <1>14 DEF Receive, history
<1>15. ASSUME NEW h \in Handlers,
              \/ UseClientModel(h) \/ SwitchedOff(h) \/ UseLease(h) \/ AskJev(h)
              \/ \E m \in JevModels, l \in Leases : JevAnswers(h, m, l)
              \/ TechnicalFallback(h) \/ Select(h) \/ UpstreamRefuses(h) \/ StreamOpens(h)
              \/ Abandon(h)
       PROVE  UNCHANGED <<leases, written>>
  BY <1>15 DEF UseClientModel, SwitchedOff, UseLease, AskJev, JevAnswers, TechnicalFallback,
    Select, UpstreamRefuses, StreamOpens, Abandon, Decide, Finish, history
<1>16. CASE \E h \in Handlers, r \in Requests : Receive(h, r)
  BY <1>0, <1>1, <1>12, <1>14, <1>16 DEF ReuseInv
<1>17. CASE \E h \in Handlers : HandlerStep(h)
  BY <1>0, <1>2, <1>3, <1>4, <1>5, <1>6, <1>7, <1>8, <1>9, <1>10, <1>11, <1>12, <1>15, <1>17
  DEF HandlerStep, ReuseInv
<1> QED BY <1>13, <1>16, <1>17 DEF Next

\* Whatever the handlers do concurrently, a reused route was judged for the same
\* session and user turn, and is reused for a clean tool step only.
THEOREM ReuseMatchesTurn == Spec => []ReuseIsForTheSameTurn
<1>1. ReuseInv => ReuseIsForTheSameTurn
  BY DEF ReuseInv, CallOK, ReuseIsForTheSameTurn, Reuses
<1> QED BY <1>1, ReuseInit, ReuseStep, PTL DEF Spec

\* Whatever the handlers do concurrently, a lease is only ever of a decision by
\* which a call was completed to its caller.
THEOREM LeaseAfterCompletion == Spec => []LeaseNeedsCompletion
<1>1. ReuseInv => LeaseNeedsCompletion
  BY DEF ReuseInv, EntryOK, LeaseNeedsCompletion
<1> QED BY <1>1, ReuseInit, ReuseStep, PTL DEF Spec

-----------------------------------------------------------------------------
(* What has ended a lease. *)

\* d was taken after the lease of s was last ended, or a call of s that was under
\* way then had been decided by it.
Kept(s, d) == d.id > barrier[s].at \/ d.id \in barrier[s].flying

\* Entries and calls hold only such decisions, so that none can come back that
\* nobody held when the lease was ended.
EndedInv ==
    /\ \A s \in Scopes : barrier[s].at <= decided
    /\ \A s \in Scopes : leases[s] # None => Kept(s, leases[s].decision)
    /\ \A h \in Handlers : decision[h] # None => Kept(req[h].scope, decision[h])

\* Lookups, decisions and stores of all handlers keep EndedInv.
LEMMA EndedStep == ReuseInv /\ ReuseInv' /\ EndedInv /\ [Next]_vars => EndedInv'
<1> SUFFICES ASSUME ReuseInv, ReuseInv', EndedInv, [Next]_vars PROVE EndedInv'
  OBVIOUS
<1>0. TypeOK /\ TypeOK' /\ Busy
  BY DEF ReuseInv, TypeInv
<1> USE NoneApart
<1>1. ASSUME NEW h \in Handlers, NEW r \in Requests, Receive(h, r) PROVE EndedInv'
  <2>1. decision[h] = None
    BY <1>1 DEF Receive, ReuseInv, CallOK
  <2> QED BY <1>0, <1>1, <2>1 DEF Receive, EndedInv, Kept, TypeOK, history
<1>2. ASSUME NEW h \in Handlers, LookupHit(h) PROVE EndedInv'
  <2>1. req[h].scope \in Scopes
    BY <1>0, <1>2, RequestType DEF LookupHit, Busy
  <2>2. Pinned(leases[req[h].scope], req[h]).decision = leases[req[h].scope].decision
    BY DEF Pinned
  <2> QED BY <1>0, <1>2, <2>1, <2>2 DEF LookupHit, EndedInv, Kept, TypeOK
<1>3. ASSUME NEW h \in Handlers, LookupMiss(h) PROVE EndedInv'
  <2> DEFINE t == req[h].scope
  <2>1. t \in Scopes
    BY <1>0, <1>3, RequestType DEF LookupMiss, Busy
  <2>2. ASSUME NEW g \in Handlers, decision[g] # None, req[g].scope = t
        PROVE  decision[g].id \in Flying(t)
    BY <2>2 DEF Flying
  <2>3. CASE EndsEveryLease(req[h])
    <3>1. /\ barrier'[t].at = decided /\ barrier'[t].flying = Flying(t)
          /\ \A s \in Scopes \ {t} : barrier'[s] = barrier[s]
      BY <1>0, <1>3, <2>1, <2>3 DEF LookupMiss, Ended, TypeOK
    <3>2. ASSUME NEW g \in Handlers, decision[g] # None
          PROVE  req[g].scope \in Scopes
      BY <1>0, <3>2, RequestType DEF Busy, ReuseInv, CallOK
    <3>3. \A s \in Scopes : barrier'[s].at <= decided'
      BY <1>0, <1>3, <3>1 DEF LookupMiss, EndedInv, TypeOK
    <3>4. ASSUME NEW q \in Scopes, leases'[q] # None PROVE Kept(q, leases[q].decision)'
      BY <1>0, <1>3, <2>1, <3>1, <3>4 DEF LookupMiss, EndedInv, Kept, TypeOK
    <3>5. ASSUME NEW g \in Handlers, decision'[g] # None PROVE Kept(req[g].scope, decision[g])'
      BY <1>0, <1>3, <2>1, <2>2, <3>1, <3>2, <3>5 DEF LookupMiss, EndedInv, Kept, TypeOK
    <3> QED BY <3>3, <3>4, <3>5 DEF EndedInv
  <2>4. CASE ~EndsEveryLease(req[h])
    BY <1>0, <1>3, <2>1, <2>4 DEF LookupMiss, EndedInv, Kept, TypeOK
  <2> QED BY <2>3, <2>4
<1>4. ASSUME NEW h \in Handlers,
             UseClientModel(h) \/ SwitchedOff(h) \/ UseLease(h) \/ TechnicalFallback(h)
      PROVE  EndedInv'
  <2>1. PICK s \in Source, d \in {None, decision[h]} : Decide(h, s, d) /\ decided' = decided
    BY <1>4 DEF UseClientModel, SwitchedOff, UseLease, TechnicalFallback, Source
  <2> QED BY <1>0, <2>1 DEF Decide, EndedInv, Kept, TypeOK
<1>5. ASSUME NEW h \in Handlers, NEW m \in JevModels, NEW l \in Leases, JevAnswers(h, m, l)
      PROVE  EndedInv'
  <2>1. req[h].scope \in Scopes
    BY <1>0, <1>5, RequestType DEF JevAnswers, Busy
  <2>2. decided + 1 > barrier[req[h].scope].at
    BY <1>0, <2>1 DEF EndedInv, TypeOK
  <2>3. \A s \in Scopes : barrier[s].at <= decided + 1
    BY <1>0 DEF EndedInv, TypeOK
  <2> QED BY <1>0, <1>5, <2>2, <2>3 DEF JevAnswers, Decide, EndedInv, Kept, TypeOK
<1>6. ASSUME NEW h \in Handlers,
             \/ AskJev(h) \/ Select(h) \/ UpstreamRefuses(h) \/ StreamOpens(h)
             \/ \E o \in Outcome : Relay(h, o)
      PROVE  EndedInv'
  BY <1>6 DEF AskJev, Select, UpstreamRefuses, StreamOpens, Relay, EndedInv, Kept, history
<1>7. ASSUME NEW h \in Handlers, Abandon(h) \/ RememberNothing(h) \/ Remember(h)
      PROVE  EndedInv'
  <2>1. req[h].scope \in Scopes
    BY <1>0, <1>7, RequestType DEF Abandon, RememberNothing, Remember, Busy
  <2>2. Remember(h) => decision[h] # None
    BY DEF Remember, Leasable
  <2>3. NewEntry(h).decision = decision[h]
    BY DEF NewEntry
  <2>4. \A s \in Scopes : leases'[s] # None => Kept(s, leases'[s].decision)
    BY <1>0, <1>7, <2>1, <2>2, <2>3
    DEF Abandon, RememberNothing, Remember, EndedInv, TypeOK
  <2>5. Finish(h)
    BY <1>7 DEF Abandon, RememberNothing, Remember
  <2> QED BY <1>0, <2>4, <2>5 DEF Finish, EndedInv, Kept, TypeOK, history
<1>8. CASE UNCHANGED vars
  BY <1>8 DEF vars, callVars, history, EndedInv, Kept
<1> QED
  BY <1>1, <1>2, <1>3, <1>4, <1>5, <1>6, <1>7, <1>8 DEF Next, HandlerStep

\* With any number of handlers, what an error, a user turn or a compaction has
\* ended is reused only if a call decided by it was under way at that time.
THEOREM EndedStaysEnded == Spec => EndedLeaseStaysEnded
<1>1. Init => EndedInv
  BY DEF Init, EndedInv
<1>2. ASSUME ReuseInv, EndedInv, [Next]_vars,
             NEW h \in Handlers, ~Reuses(h), Reuses(h)'
      PROVE  Kept(req[h].scope, decision'[h])
  <2>0. TypeOK /\ Busy
    BY <1>2 DEF ReuseInv, TypeInv
  <2>1. LookupHit(h)
    <3>1. pc[h] \in {"idle", "received", "judging"} => decision[h] = None
      BY <1>2 DEF ReuseInv, CallOK
    <3>2. decision[h] = None \/ source[h] \notin {"none", "lease"}
      BY <1>2 DEF Reuses
    <3>3. source[h] = "none" \/ pc[h] \notin {"idle", "received", "looked", "judging"}
      BY <1>2 DEF ReuseInv, CallOK
    <3>4. decision'[h] # None /\ source'[h] \in {"none", "lease"}
      BY <1>2 DEF Reuses
    <3>5. ASSUME NEW g \in Handlers, HandlerStep(g) PROVE LookupHit(h)
      BY <2>0, <3>1, <3>2, <3>3, <3>4, <3>5
      DEF HandlerStep, LookupHit, LookupMiss, UseClientModel, SwitchedOff, UseLease, AskJev,
        JevAnswers, TechnicalFallback, Select, UpstreamRefuses, StreamOpens, Relay, Abandon,
        RememberNothing, Remember, Decide, Finish, TypeOK, history
    <3>6. ASSUME NEW g \in Handlers, NEW r \in Requests, Receive(g, r) PROVE LookupHit(h)
      BY <3>2, <3>4, <3>6 DEF Receive
    <3>7. ~UNCHANGED vars
      BY <3>2, <3>4 DEF vars, callVars
    <3> QED BY <1>2, <3>5, <3>6, <3>7 DEF Next
  <2>2. req[h].scope \in Scopes
    BY <2>0, <2>1, RequestType DEF LookupHit, Busy
  <2> QED BY <1>2, <2>0, <2>1, <2>2 DEF LookupHit, EndedInv, TypeOK
<1>3. ASSUME ReuseInv, EndedInv, [Next]_vars
      PROVE  [\A h \in Handlers :
                 ~Reuses(h) /\ Reuses(h)' =>
                     LET b == barrier[req[h].scope]
                     IN  decision'[h].id > b.at \/ decision'[h].id \in b.flying]_vars
  BY <1>2, <1>3 DEF Kept
<1> QED BY <1>1, <1>3, ReuseInit, ReuseStep, EndedStep, PTL DEF Spec, EndedLeaseStaysEnded

-----------------------------------------------------------------------------
(* One tool per chain. *)

\* Decisions are told apart by their numbers, and a decision that Jev has just
\* taken for call h is known to nobody else yet.
NumbersOK ==
    /\ \A h \in Handlers : decision[h] # None => decision[h].id <= decided
    /\ \A s \in Scopes : leases[s] # None => leases[s].decision.id <= decided
    /\ \A p \in reused : p[1] <= decided
    /\ \A g, h \in Handlers :
         decision[g] # None /\ decision[h] # None /\ decision[g].id = decision[h].id =>
             decision[g] = decision[h] /\ (source[h] = "jev" => g = h)
    /\ \A h \in Handlers, s \in Scopes :
         decision[h] # None /\ leases[s] # None
           /\ decision[h].id = leases[s].decision.id =>
             decision[h] = leases[s].decision /\ source[h] # "jev"
    /\ \A s, t \in Scopes :
         leases[s] # None /\ leases[t] # None
           /\ leases[s].decision.id = leases[t].decision.id =>
             leases[s].decision = leases[t].decision
    /\ \A h \in Handlers : decision[h] # None /\ source[h] = "jev" =>
         \A p \in reused : p[1] # decision[h].id

\* The pinned tool of an entry is the only tool its chain was reused for, and the
\* tool of a call in flight that reuses a chain is one of them.
ToolsOK ==
    /\ \A s \in Scopes : leases[s] # None /\ leases[s].lease = "tool_chain" =>
         \A p \in reused : p[1] = leases[s].decision.id => p[2] = leases[s].tool
    /\ \A h \in Handlers : Reuses(h) /\ decision[h].lease = "tool_chain" =>
         <<decision[h].id, Tool(req[h])>> \in reused

ChainInv == ReuseInv /\ NumbersOK /\ ToolsOK /\ ChainKeepsItsTool

\* No decision is numbered yet and no tool is pinned.
LEMMA ChainInit == Init => ChainInv
BY ReuseInit DEF Init, ChainInv, NumbersOK, ToolsOK, ChainKeepsItsTool, Reuses

\* A step that adds no decision, entry or reuse, and drops or keeps the others.
LEMMA ChainFrame ==
    ASSUME ChainInv, TypeOK', decided' = decided, reused' = reused,
           \A s \in Scopes : leases'[s] \in {None, leases[s]},
           \A h \in Handlers :
             \/ decision'[h] = None
             \/ /\ decision'[h] = decision[h] /\ req'[h] = req[h]
                /\ source'[h] = "jev" <=> source[h] = "jev"
                /\ source'[h] \in {"none", "lease"} <=> source[h] \in {"none", "lease"}
    PROVE  NumbersOK' /\ ToolsOK' /\ ChainKeepsItsTool'
<1> USE DEF ChainInv
<1>1. NumbersOK'
  BY DEF NumbersOK
<1>2. ToolsOK'
  BY DEF ToolsOK, Reuses
<1>3. ChainKeepsItsTool'
  BY DEF ChainKeepsItsTool
<1> QED BY <1>1, <1>2, <1>3

\* Reusing a lease: either the chain had no reuse before, or it is the same tool.
LEMMA ChainLookupHit ==
    ASSUME ChainInv, TypeOK', NEW h \in Handlers, LookupHit(h)
    PROVE  NumbersOK' /\ ToolsOK' /\ ChainKeepsItsTool'
<1> DEFINE r == req[h]
           e == leases[r.scope]
           d == e.decision
<1>1. /\ TypeOK /\ TypeOK' /\ r.scope \in Scopes /\ e \in Entry /\ d \in Decision
      /\ EntryOK(r.scope) /\ Tool(r) \in Tools \cup {None} /\ CallOK(h)
  BY RequestType, ToolType DEF ChainInv, ReuseInv, TypeInv, Busy, TypeOK, LookupHit, Entry
<1>2. /\ Pinned(e, r).lease = e.lease /\ Pinned(e, r).decision = d
      /\ e.lease = "tool_chain" => Pinned(e, r).tool = Tool(r)
      /\ e.lease # "tool_chain" => Pinned(e, r).tool = e.tool
  BY DEF Pinned
<1>3. /\ leases' = [leases EXCEPT ![r.scope] = Pinned(e, r)]
      /\ decision' = [decision EXCEPT ![h] = d]
      /\ source' = source /\ req' = req /\ decided' = decided
      /\ source[h] = "none" /\ e # None
  BY <1>1 DEF LookupHit, CallOK
<1>4. \A p \in reused : p[2] \in Tools /\ p[2] # None
  BY <1>1, LeaseAssumption DEF TypeOK
<1>5. e.lease = "tool_chain" => \A p \in reused : p[1] = d.id => p[2] = Tool(r)
  BY <1>1, <1>3, <1>4 DEF LookupHit, Reusable, ChainInv, ToolsOK
<1>6. \A p \in reused' : p \in reused \/ (e.lease = "tool_chain" /\ p = <<d.id, Tool(r)>>)
  BY DEF LookupHit
<1>7. /\ leases'[r.scope] = Pinned(e, r) /\ decision'[h] = d
      /\ \A s \in Scopes : s # r.scope => leases'[s] = leases[s]
      /\ \A g \in Handlers : g # h => decision'[g] = decision[g]
  BY <1>1, <1>3 DEF TypeOK
<1>8. ChainKeepsItsTool'
  BY <1>5, <1>6 DEF ChainInv, ChainKeepsItsTool
<1>9. NumbersOK'
  <2>1. d.id <= decided
    BY <1>1, <1>3 DEF ChainInv, NumbersOK
  <2>2. \A g \in Handlers : decision[g] # None /\ decision[g].id = d.id =>
          decision[g] = d /\ source[g] # "jev"
    BY <1>1, <1>3 DEF ChainInv, NumbersOK
  <2>3. \A s \in Scopes : leases'[s] # None =>
          leases[s] # None /\ leases'[s].decision = leases[s].decision
    BY <1>2, <1>3, <1>7
  <2>4. \A s \in Scopes : leases[s] # None /\ leases[s].decision.id = d.id =>
          leases[s].decision = d
    BY <1>1, <1>3 DEF ChainInv, NumbersOK
  <2> QED BY <1>3, <1>6, <1>7, <2>1, <2>2, <2>3, <2>4 DEF ChainInv, NumbersOK
<1>10. ToolsOK'
  <2>1. ASSUME NEW s \in Scopes, leases'[s] # None, leases'[s].lease = "tool_chain",
               NEW p \in reused', p[1] = leases'[s].decision.id
        PROVE  p[2] = leases'[s].tool
    <3>1. CASE s = r.scope
      BY <1>2, <1>5, <1>6, <1>7, <2>1, <3>1
    <3>2. CASE s # r.scope
      <4>1. leases'[s] = leases[s] /\ leases[s].decision.scope = s /\ d.scope = r.scope
        BY <1>1, <1>3, <1>7, <2>1, <3>2 DEF EntryOK, ChainInv, ReuseInv
      <4>2. leases[s].decision.id # d.id
        BY <1>1, <1>3, <2>1, <3>2, <4>1 DEF ChainInv, NumbersOK
      <4>3. p \in reused
        BY <1>6, <2>1, <4>1, <4>2
      <4> QED BY <2>1, <4>1, <4>3 DEF ChainInv, ToolsOK
    <3> QED BY <3>1, <3>2
  <2>2. ASSUME NEW g \in Handlers, Reuses(g)', decision'[g].lease = "tool_chain"
        PROVE  <<decision'[g].id, Tool(req'[g])>> \in reused'
    <3>1. CASE g = h
      BY <1>1, <1>3, <1>7, <2>2, <3>1 DEF LookupHit, EntryOK
    <3>2. CASE g # h
      BY <1>3, <1>7, <2>2, <3>2 DEF LookupHit, ChainInv, ToolsOK, Reuses
    <3> QED BY <3>1, <3>2
  <2> QED BY <2>1, <2>2 DEF ToolsOK
<1> QED BY <1>8, <1>9, <1>10

\* Storing a decision: one Jev took for this call was never reused, a leased one
\* was only ever reused for this call's tool.
LEMMA ChainRemember ==
    ASSUME ChainInv, TypeOK', NEW h \in Handlers, Remember(h)
    PROVE  NumbersOK' /\ ToolsOK' /\ ChainKeepsItsTool'
<1> DEFINE s0 == req[h].scope
<1>1. /\ TypeOK /\ s0 \in Scopes /\ CallOK(h) /\ decision[h] # None /\ decision[h] \in Decision
  BY RequestType DEF ChainInv, ReuseInv, TypeInv, Busy, TypeOK, Remember, Leasable
<1>2. /\ decided' = decided /\ reused' = reused
      /\ decision' = [decision EXCEPT ![h] = None] /\ source' = [source EXCEPT ![h] = "none"]
      /\ req' = [req EXCEPT ![h] = None]
  BY DEF Remember, Finish, history
<1>3. /\ decision'[h] = None
      /\ \A g \in Handlers : g # h =>
           decision'[g] = decision[g] /\ source'[g] = source[g] /\ req'[g] = req[g]
  BY <1>1, <1>2 DEF TypeOK
<1>4. CASE leases' = leases
  <2>1. \A s \in Scopes : leases'[s] \in {None, leases[s]}
    BY <1>4
  <2> QED BY <1>2, <1>3, <2>1, ChainFrame
<1>5. CASE leases' # leases
  <2>1. /\ leases' = [leases EXCEPT ![s0] = NewEntry(h)]
        /\ NewEntry(h).decision = decision[h] /\ NewEntry(h).tool = Tool(req[h])
        /\ NewEntry(h).lease = decision[h].lease
    BY <1>5 DEF Remember, NewEntry
  <2>2. /\ leases'[s0] = NewEntry(h)
        /\ \A s \in Scopes : s # s0 => leases'[s] = leases[s]
    BY <1>1, <2>1 DEF TypeOK
  <2>3. decision[h].lease = "tool_chain" =>
          \A p \in reused : p[1] = decision[h].id => p[2] = Tool(req[h])
    <3>1. CASE source[h] = "jev"
      BY <1>1, <3>1 DEF ChainInv, NumbersOK
    <3>2. CASE source[h] # "jev"
      <4>1. Reuses(h)
        BY <1>1, <3>2 DEF CallOK, Reuses
      <4> QED BY <4>1 DEF ChainInv, ToolsOK, ChainKeepsItsTool
    <3> QED BY <3>1, <3>2
  <2>4. NumbersOK'
    BY <1>1, <1>2, <1>3, <2>1, <2>2 DEF ChainInv, NumbersOK
  <2>5. ToolsOK'
    BY <1>2, <1>3, <2>1, <2>2, <2>3 DEF ChainInv, ToolsOK, Reuses
  <2>6. ChainKeepsItsTool'
    BY <1>2 DEF ChainInv, ChainKeepsItsTool
  <2> QED BY <2>4, <2>5, <2>6
<1> QED BY <1>4, <1>5

\* Jev's new decision has a number nobody has seen.
LEMMA ChainJevAnswers ==
    ASSUME ChainInv, TypeOK', NEW h \in Handlers, NEW m \in JevModels, NEW l \in Leases,
           JevAnswers(h, m, l)
    PROVE  NumbersOK' /\ ToolsOK' /\ ChainKeepsItsTool'
<1> DEFINE d == [id |-> decided + 1, scope |-> req[h].scope, turn |-> req[h].turn,
                 model |-> m, lease |-> l]
<1>1. TypeOK /\ decided \in Nat
  BY DEF ChainInv, ReuseInv, TypeInv, TypeOK
<1>2. /\ leases' = leases /\ reused' = reused /\ req' = req /\ decided' = decided + 1
      /\ decision'[h] = d /\ source'[h] = "jev"
      /\ \A g \in Handlers : g # h => decision'[g] = decision[g] /\ source'[g] = source[g]
  BY <1>1 DEF JevAnswers, Decide, TypeOK
<1>3. /\ d.id = decided + 1
      /\ \A g \in Handlers : decision[g] # None => decision[g].id \in Nat
      /\ \A s \in Scopes : leases[s] # None => leases[s].decision.id \in Nat
      /\ \A p \in reused : p[1] \in Nat
  BY <1>1 DEF TypeOK, Decision, Entry
<1>4. NumbersOK'
  BY <1>1, <1>2, <1>3 DEF ChainInv, NumbersOK
<1>5. ToolsOK'
  BY <1>2 DEF ChainInv, ToolsOK, Reuses
<1>6. ChainKeepsItsTool'
  BY <1>2 DEF ChainInv, ChainKeepsItsTool
<1> QED BY <1>4, <1>5, <1>6

\* Lookups, decisions and stores of all handlers keep ChainInv.
LEMMA ChainStep == ChainInv /\ [Next]_vars => ChainInv'
<1> SUFFICES ASSUME ChainInv, [Next]_vars PROVE ChainInv'
  OBVIOUS
<1> DEFINE Goal == NumbersOK' /\ ToolsOK' /\ ChainKeepsItsTool'
<1>0. ReuseInv /\ ReuseInv' /\ TypeOK /\ TypeOK'
  BY ReuseStep DEF ChainInv, ReuseInv, TypeInv
<1>1. ASSUME NEW h \in Handlers, NEW r \in Requests, Receive(h, r) PROVE Goal
  <2>1. decision[h] = None
    BY <1>0, <1>1 DEF Receive, ReuseInv, CallOK
  <2> QED BY <1>0, <1>1, <2>1, ChainFrame DEF Receive, TypeOK, history
<1>2. ASSUME NEW h \in Handlers, LookupHit(h) PROVE Goal
  BY <1>0, <1>2, ChainLookupHit
<1>3. ASSUME NEW h \in Handlers, LookupMiss(h) PROVE Goal
  BY <1>0, <1>3, ChainFrame DEF LookupMiss, TypeOK
<1>4. ASSUME NEW h \in Handlers,
             UseClientModel(h) \/ SwitchedOff(h) \/ UseLease(h) \/ TechnicalFallback(h)
      PROVE  Goal
  <2>1. PICK s \in Source, d \in {None, decision[h]} :
          /\ Decide(h, s, d)
          /\ d # None => s = "lease" /\ pc[h] = "looked"
          /\ decided' = decided
    BY <1>4 DEF UseClientModel, SwitchedOff, UseLease, TechnicalFallback, Source
  <2>2. d # None => source[h] = "none"
    BY <1>0, <2>1 DEF ReuseInv, CallOK
  <2> QED BY <1>0, <2>1, <2>2, ChainFrame DEF Decide, TypeOK
<1>5. ASSUME NEW h \in Handlers, NEW m \in JevModels, NEW l \in Leases, JevAnswers(h, m, l)
      PROVE  Goal
  BY <1>0, <1>5, ChainJevAnswers
<1>6. ASSUME NEW h \in Handlers,
             AskJev(h) \/ Select(h) \/ UpstreamRefuses(h) \/ StreamOpens(h)
      PROVE  Goal
  BY <1>0, <1>6, ChainFrame DEF AskJev, Select, UpstreamRefuses, StreamOpens, history
<1>7. ASSUME NEW h \in Handlers, NEW o \in Outcome, Relay(h, o) PROVE Goal
  BY <1>0, <1>7, ChainFrame DEF Relay
<1>8. ASSUME NEW h \in Handlers, Abandon(h) \/ RememberNothing(h) PROVE Goal
  BY <1>0, <1>8, ChainFrame DEF Abandon, RememberNothing, Finish, TypeOK, history
<1>9. ASSUME NEW h \in Handlers, Remember(h) PROVE Goal
  BY <1>0, <1>9, ChainRemember
<1>10. ASSUME UNCHANGED vars PROVE Goal
  <2>1. /\ decided' = decided /\ reused' = reused /\ leases' = leases
        /\ decision' = decision /\ req' = req /\ source' = source
    BY <1>10 DEF vars, callVars, history
  <2> QED BY <1>0, <2>1, ChainFrame
<1> HIDE DEF Goal
<1>11. Goal
  <2>1. CASE \E h \in Handlers, r \in Requests : Receive(h, r)
    BY <1>1, <2>1
  <2>2. CASE \E h \in Handlers : HandlerStep(h)
    BY <1>2, <1>3, <1>4, <1>5, <1>6, <1>7, <1>8, <1>9, <2>2 DEF HandlerStep
  <2> QED BY <1>10, <2>1, <2>2 DEF Next
<1> USE DEF Goal
<1> QED BY <1>0, <1>11 DEF ChainInv

\* Whatever the handlers do concurrently, all reuses of one tool_chain decision
\* are for one tool, stored twice or not.
THEOREM ChainHasOneTool == Spec => []ChainKeepsItsTool
<1>1. ChainInv => ChainKeepsItsTool
  BY DEF ChainInv
<1> QED BY <1>1, ChainInit, ChainStep, PTL DEF Spec

-----------------------------------------------------------------------------
(* The model that serves a call. *)

\* No model is chosen before the call is decided, and a call that nobody judged
\* has no decision.
ServedOK(h) ==
    /\ pc[h] \in {"idle", "received", "looked", "judging", "decided"} => served[h] = "none"
    /\ pc[h] = "decided" /\ source[h] \in {"off", "technical_fallback", "client_model"}
         => decision[h] = None
\* What a handler's model owes to its decision.
Worthy(h) ==
    served[h] # "none" =>
        /\ decision[h] # None => Rank[served[h]] >= Rank[decision[h].model]
        /\ source[h] # "client_model" /\ decision[h] = None => served[h] = "astra"
        /\ source[h] = "client_model" => served[h] = req[h].model
JudgementInv == TypeInv /\ (\A h \in Handlers : ServedOK(h) /\ Worthy(h))

\* What selection makes of a decided call.
LEMMA ServedSuffices ==
    ASSUME TypeInv, NEW h \in Handlers, ServedOK(h), pc[h] = "decided", NEW m \in Modes
    PROVE  LET model == Served(h, m[1], m[2])
           IN  /\ decision[h] # None => Rank[model] >= Rank[decision[h].model]
               /\ source[h] # "client_model" /\ decision[h] = None => model = "astra"
               /\ source[h] = "client_model" => model = req[h].model
<1>1. decision[h] # None => decision[h].model \in Models
  BY DEF TypeInv, TypeOK, Decision
<1> QED BY <1>1 DEF Served, ServedOK, Models, Rank

\* No call is served before it is decided.
LEMMA JudgementInit == Init => JudgementInv
BY TypeInit DEF Init, JudgementInv, ServedOK, Worthy

\* Only Select gives a call its model, and nothing changes its decision after.
LEMMA JudgementStep == JudgementInv /\ [Next]_vars => JudgementInv'
<1> SUFFICES ASSUME JudgementInv, [Next]_vars PROVE JudgementInv'
  OBVIOUS
<1>0. TypeInv /\ TypeInv' /\ TypeOK
  BY TypeStep DEF JudgementInv, TypeInv
<1> DEFINE Goal == \A g \in Handlers : ServedOK(g)' /\ Worthy(g)'
<1>1. ASSUME NEW h \in Handlers, NEW r \in Requests, Receive(h, r) PROVE Goal
  BY <1>0, <1>1 DEF Receive, TypeOK, JudgementInv, ServedOK, Worthy
<1>2. ASSUME NEW h \in Handlers, LookupHit(h) \/ LookupMiss(h) PROVE Goal
  BY <1>0, <1>2 DEF LookupHit, LookupMiss, TypeOK, JudgementInv, ServedOK, Worthy
<1>3. ASSUME NEW h \in Handlers, NEW s, NEW d, pc[h] \in {"looked", "judging"}, Decide(h, s, d),
             s \in {"off", "technical_fallback", "client_model"} => d = None
      PROVE  Goal
  BY <1>0, <1>3 DEF Decide, TypeOK, JudgementInv, ServedOK, Worthy
<1>4. ASSUME NEW h \in Handlers,
             UseClientModel(h) \/ SwitchedOff(h) \/ UseLease(h) \/ TechnicalFallback(h)
      PROVE  Goal
  BY <1>3, <1>4 DEF UseClientModel, SwitchedOff, UseLease, TechnicalFallback
<1>5. ASSUME NEW h \in Handlers, NEW m \in JevModels, NEW l \in Leases, JevAnswers(h, m, l)
      PROVE  Goal
  BY <1>3, <1>5 DEF JevAnswers
<1>6. ASSUME NEW h \in Handlers, Select(h) PROVE Goal
  <2>1. PICK m \in Modes : served' = [served EXCEPT ![h] = Served(h, m[1], m[2])]
    BY <1>6 DEF Select
  <2>2. ServedOK(h) /\ pc[h] = "decided"
    BY <1>6 DEF Select, JudgementInv
  <2>3. served'[h] = Served(h, m[1], m[2])
    BY <1>0, <2>1 DEF TypeOK
  <2>4. ServedOK(h)' /\ Worthy(h)'
    BY <1>0, <1>6, <2>2, <2>3, ServedSuffices DEF Select, TypeOK, ServedOK, Worthy
  <2>5. ASSUME NEW g \in Handlers, g # h PROVE ServedOK(g)' /\ Worthy(g)'
    BY <1>0, <1>6, <2>1, <2>5 DEF Select, TypeOK, JudgementInv, ServedOK, Worthy
  <2> QED BY <2>4, <2>5
<1>7. ASSUME NEW h \in Handlers, AskJev(h) \/ UpstreamRefuses(h) \/ StreamOpens(h) PROVE Goal
  BY <1>0, <1>7 DEF AskJev, UpstreamRefuses, StreamOpens, TypeOK, JudgementInv, ServedOK, Worthy
<1>8. ASSUME NEW h \in Handlers, NEW o \in Outcome, Relay(h, o) PROVE Goal
  BY <1>0, <1>8 DEF Relay, TypeOK, JudgementInv, ServedOK, Worthy
<1>9. ASSUME NEW h \in Handlers, Finish(h) PROVE Goal
  BY <1>0, <1>9 DEF Finish, TypeOK, JudgementInv, ServedOK, Worthy
<1>10. ASSUME NEW h \in Handlers, Abandon(h) \/ RememberNothing(h) \/ Remember(h) PROVE Goal
  BY <1>9, <1>10 DEF Abandon, RememberNothing, Remember
<1>11. ASSUME UNCHANGED vars PROVE Goal
  BY <1>11 DEF vars, callVars, JudgementInv, ServedOK, Worthy
<1> HIDE DEF Goal
<1>12. Goal
  <2>1. CASE \E h \in Handlers, r \in Requests : Receive(h, r)
    BY <1>1, <2>1
  <2>2. CASE \E h \in Handlers : HandlerStep(h)
    BY <1>2, <1>4, <1>5, <1>6, <1>7, <1>8, <1>10, <2>2 DEF HandlerStep
  <2> QED BY <1>11, <2>1, <2>2 DEF Next
<1> USE DEF Goal
<1> QED BY <1>0, <1>12 DEF JudgementInv

\* Whatever Jev selects, whatever the other handlers lease and whatever files the
\* operator has put there, only a judgement of its own session and user turn gets
\* a call a cheaper model than astra, and never one below what it asked for.
THEOREM ServedAsJudged == Spec => []NeverBelowJudgement
<1>1. JudgementInv /\ ReuseInv => NeverBelowJudgement
  BY DEF JudgementInv, Worthy, ReuseInv, CallOK, NeverBelowJudgement
<1> QED BY <1>1, JudgementInit, JudgementStep, ReuseInit, ReuseStep, PTL DEF Spec
=============================================================================
