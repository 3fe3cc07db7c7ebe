------------------------------ MODULE Failover ------------------------------
(***************************************************************************)
(* Turns that move to another provider, and the windows that make the next *)
(* turn skip an exhausted one.                                             *)
(*   src/router/src/router.mjs         handleResponses, attemptModelFailover*)
(*   src/router/src/model-failover.mjs the document of cooldown windows    *)
(*   src/router/src/api-forwarder.mjs  recordUpstreamLimits                *)
(*                                                                         *)
(* The router and the forwarder are two processes that read, change and    *)
(* write the document back without a lock.  A router action is what runs   *)
(* between two awaits; only its read and its write of the document are     *)
(* apart, because the other process may come in between.                   *)
(* A provider stands for its cooldown scope and may have several models.   *)
(***************************************************************************)
EXTENDS Naturals, Sequences, SequencesExt

CONSTANTS Turns, Scopes, Models, None,
          ScopeOf,      \* cooldownScope of each model's provider
          Ranked,       \* Ranked[S]: the models S in the order of rankFailoverCandidates
          Enabled,      \* failover is switched on
          ClearsAll,    \* the operator clears the windows by hand
          Harvest,      \* the forwarder sees windows the gateway does not relay
          MaxHops,      \* MAX_FAILOVER_HOPS
          Cap,          \* MAX_COOLDOWN_MS in ticks
          MaxNamed,     \* the longest window a provider names
          MaxChanges    \* how often quotas run out, refill or are cleared by hand

(* An entry is absent, expired, or has entry - 1 ticks left.               *)
Absent == 0
Expired == 1
Docs == [Scopes -> 0..Cap + 1]

(* A window that an answer names is a date, or so long from its reading.   *)
Places == {"idle", "cooled", "send", "sent", "answered", "hop", "hopSent", "hopAnswered", "writing",
           "served", "resent", "done", "failed", "gone"}
Answering == {"answered", "hopAnswered"}
Outcomes == {"ok", "empty", "refused", "transport", "quota", "threw"}
TurnStates == [at : Places, route : Models \cup {None}, hops : Seq(Models),
               outcome : Outcomes \cup {None}, told : Nat, dated : BOOLEAN, retried : BOOLEAN,
               kind : Outcomes \cup {None}, tried : Seq(Models)]
Writes == [doc : Docs, turn : Turns, next : TurnStates]

(* A chain that the operator has set may name a model twice.               *)
ASSUME FailoverAssumption ==
    /\ None \notin Turns \cup Docs \cup Writes
    /\ Enabled \in BOOLEAN /\ ClearsAll \in BOOLEAN /\ Harvest \in BOOLEAN
    /\ MaxHops \in Nat /\ Cap \in Nat \ {0} /\ MaxNamed \in Nat /\ MaxChanges \in Nat
    /\ ScopeOf \in [Models -> Scopes]
    /\ \A S \in SUBSET Models : Ranked[S] \in Seq(S)

VARIABLES doc,      \* the windows on disk; see Absent, Expired
          empty,    \* the providers that are out of usage
          named,    \* the longest window each provider has named (history)
          turn,
          rmw,      \* the router's read of the document waiting to be written
          fwd,      \* the windows the forwarder has still to record
          fcopy,    \* the forwarder's document waiting to be written
          changes

vars == <<doc, empty, named, turn, rmw, fwd, fcopy, changes>>
disk == <<doc, rmw, fwd, fcopy>>

Open(d, s) == d[s] > Expired
Smaller(a, b) == IF a < b THEN a ELSE b
Larger(a, b) == IF a < b THEN b ELSE a
Less(n) == IF n > 0 THEN n - 1 ELSE 0

Idle == [at |-> "idle", route |-> None, hops |-> <<>>, outcome |-> None, told |-> 0, dated |-> FALSE,
         retried |-> FALSE, kind |-> None, tried |-> <<>>]
Ended(how) == [Idle EXCEPT !.at = how]
(* The document is what earlier processes left on the disk.                *)
Init ==
    /\ doc \in Docs /\ empty = {} /\ named = [s \in Scopes |-> Less(doc[s])]
    /\ turn = [t \in Turns |-> Idle]
    /\ rmw = None /\ fwd = {} /\ fcopy = None /\ changes = 0

---------------------------------------------------------------------------
(* recordProviderCooldown: a window of n ticks, or, with n = 0, only a     *)
(* sharper reason for a window that is open; the reason is left out.       *)

Record(d, s, n) == IF n > 0 THEN [d EXCEPT ![s] = Smaller(n, Cap) + 1] ELSE d
Records(d, s, n) == n > 0 \/ Open(d, s)

(* rankFailoverCandidates, cut to MaxHops.                                 *)
FirstHops(q) == SubSeq(q, 1, Smaller(Len(q), MaxHops))
(* Mutant: the failed route is among its own candidates.                   *)
CandidatesAll(d, r) == FirstHops(Ranked[{m \in Models : ~Open(d, ScopeOf[m])}])
Candidates(d, r) ==
    FirstHops(Ranked[{m \in Models : ScopeOf[m] # ScopeOf[r] /\ ~Open(d, ScopeOf[m])}])

Set(t, r) == turn' = [turn EXCEPT ![t] = r]
Quiet == UNCHANGED <<doc, empty, named, rmw, fwd, fcopy, changes>>
(* The turn goes on at once, or with the write of document d before.       *)
Then(t, r) == Set(t, r) /\ UNCHANGED rmw
Writing(t, d, r) ==
    /\ rmw' = [doc |-> d, turn |-> t, next |-> r]
    /\ Set(t, [r EXCEPT !.at = "writing"])
Free == rmw = None

---------------------------------------------------------------------------
(* handleResponses                                                         *)

Begin(t) ==
    /\ Free /\ turn[t].at = "idle" /\ Quiet
    /\ \E r \in Models :
         IF Enabled /\ Open(doc, ScopeOf[r])
         THEN Set(t, [Idle EXCEPT !.at = "cooled", !.route = r, !.hops = Candidates(doc, r)])
         ELSE Set(t, [Idle EXCEPT !.at = "send", !.route = r])
(* A candidate is taken, or does not fit; with none left the route itself. *)
Cooled(t) ==
    /\ Free /\ turn[t].at = "cooled" /\ Quiet
    /\ LET u == turn[t]
       IN  \/ u.hops = <<>> /\ Set(t, [u EXCEPT !.at = "send"])
           \/ u.hops # <<>> /\ Set(t, [u EXCEPT !.hops = Tail(@)])
           \/ u.hops # <<>> /\ Set(t, [u EXCEPT !.at = "send", !.route = Head(u.hops), !.hops = <<>>])
Send(t) ==
    /\ Free /\ turn[t].at = "send" /\ Quiet
    /\ Set(t, [turn[t] EXCEPT !.at = "sent", !.tried = Append(@, turn[t].route)])

(* The clear of the window of the provider that answered, if it has one.   *)
(* The response is relayed; an empty one that nothing was relayed of is    *)
(* still to be asked for again.                                            *)
Served(t, m) ==
    LET u == turn[t]
        r == IF u.outcome = "empty" THEN [u EXCEPT !.at = "served", !.hops = <<>>] ELSE Ended("done")
    IN  IF doc[ScopeOf[m]] = Absent THEN Then(t, r)
        ELSE Writing(t, [doc EXCEPT ![ScopeOf[m]] = Absent], r)
(* Mutant: a failure that names no window gets one all the same.           *)
BelievedGuess(t, m, r) ==
    Writing(t, Record(doc, ScopeOf[m], IF turn[t].told = 0 THEN Cap ELSE turn[t].told), r)
(* The failure of m is recorded and the turn goes on as r.                 *)
Believed(t, m, r) ==
    \/ Records(doc, ScopeOf[m], turn[t].told) /\ Writing(t, Record(doc, ScopeOf[m], turn[t].told), r)
    \/ turn[t].told = 0 /\ Then(t, r)
(* A child turn whose transport failed goes to proven routes, of the same  *)
(* provider too; another one that did has none.                            *)
Plan(t, d) ==
    LET u == turn[t]
    IN  IF u.outcome = "quota" THEN {Candidates(d, u.route)}
        ELSE {h \in SeqOf(Models \ {u.route}, MaxHops) : IsInjective(h)}
Hopping(u, h) == [u EXCEPT !.at = "hop", !.hops = h, !.told = 0, !.dated = FALSE]
Handle(t) ==
    /\ Free /\ turn[t].at = "answered"
    /\ LET u == turn[t]
       IN  \/ u.outcome \in {"ok", "empty"} /\ Served(t, u.route)
           \/ u.outcome \in {"refused", "threw"} /\ Then(t, Ended("failed"))
           \/ u.outcome = "transport" /\ ~u.retried /\ Then(t, [u EXCEPT !.at = "send", !.retried = TRUE])
           \/ /\ u.outcome = "quota" \/ (u.outcome = "transport" /\ u.retried)
              /\ \E h \in Plan(t, Record(doc, ScopeOf[u.route], u.told)) :
                   Believed(t, u.route, IF Enabled THEN [Hopping(u, h) EXCEPT !.kind = u.outcome]
                                                   ELSE Ended("failed"))
    /\ UNCHANGED <<doc, empty, named, fwd, fcopy, changes>>

(* Once the empty response has been read: the search contract no longer    *)
(* holds, or the same request goes to the same model again.                *)
Resend(t) ==
    /\ Free /\ turn[t].at = "served" /\ Quiet
    /\ LET u == turn[t]
       IN  \/ Set(t, Ended("failed"))
           \/ Set(t, [u EXCEPT !.at = "resent", !.tried = Append(@, Last(@))])

---------------------------------------------------------------------------
(* attemptModelFailover                                                    *)

(* Mutant: the loop does not end with its candidates.                      *)
HopOn(t) ==
    /\ Free /\ turn[t].at = "hop" /\ Quiet
    /\ LET u == turn[t]
       IN  \/ u.hops # <<>> /\ Set(t, [u EXCEPT !.hops = Tail(@)])
           \/ u.hops # <<>> /\ Set(t, [u EXCEPT !.at = "hopSent", !.tried = Append(@, Head(u.hops))])
(* No candidate is left or the budget is spent; the next one does not fit; *)
(* it is asked.                                                            *)
Hop(t) ==
    /\ Free /\ turn[t].at = "hop" /\ Quiet
    /\ LET u == turn[t]
       IN  \/ Set(t, Ended("failed"))
           \/ u.hops # <<>> /\ Set(t, [u EXCEPT !.hops = Tail(@)])
           \/ u.hops # <<>> /\ Set(t, [u EXCEPT !.at = "hopSent", !.tried = Append(@, Head(u.hops))])
HopHandle(t) ==
    /\ Free /\ turn[t].at = "hopAnswered"
    /\ LET u == turn[t]
           c == Head(u.hops)
           on == Hopping(u, Tail(u.hops))
       IN  \/ u.outcome \in {"ok", "empty"} /\ Served(t, c)
           \/ u.outcome = "threw" /\ Then(t, on)
           \/ /\ u.kind = "transport" /\ u.outcome \in {"refused", "quota"}
              /\ Then(t, Ended("failed"))
           \/ u.kind = "quota" /\ u.outcome = "refused" /\ Then(t, on)
           \/ /\ u.outcome = "transport" \/ (u.kind = "quota" /\ u.outcome = "quota")
              /\ Believed(t, c, on)
    /\ UNCHANGED <<doc, empty, named, fwd, fcopy, changes>>

(* The router's write of the document.                                     *)
RouterWrite ==
    /\ rmw # None /\ doc' = rmw.doc /\ rmw' = None /\ Set(rmw.turn, rmw.next)
    /\ UNCHANGED <<empty, named, fwd, fcopy, changes>>

(* The caller leaves during an await.                                      *)
Abort(t) ==
    /\ Free /\ turn[t].at \in {"cooled", "sent", "hopSent", "served", "resent"} /\ Quiet
    /\ Set(t, Ended("gone"))

---------------------------------------------------------------------------
(* The provider's answer, through the forwarder.  A refusal may name a     *)
(* window, to the router, to the forwarder or to both, as a date or as a   *)
(* delay; one of a minute or less does not move the turn.  The forwarder   *)
(* records what it was told after it has passed the response on.  Nothing  *)
(* is recorded of the answer to an empty completion's resend.              *)

Answered(t, o, b, dated) ==
    LET u == turn[t]
        how == IF u.at = "sent" THEN "answered" ELSE "hopAnswered"
    IN  Set(t, IF u.at = "resent" THEN Ended(IF o = "ok" THEN "done" ELSE "failed")
               ELSE [u EXCEPT !.at = how, !.outcome = o, !.told = b, !.dated = dated])
Upstream(t) ==
    /\ turn[t].at \in {"sent", "hopSent", "resent"}
    /\ LET s == ScopeOf[Last(turn[t].tried)]
       IN  \/ /\ s \notin empty /\ \E o \in Outcomes \ {"quota"} : Answered(t, o, 0, FALSE)
              /\ UNCHANGED <<named, fwd>>
           \/ /\ s \in empty
              /\ \E n \in 0..MaxNamed, x, y \in BOOLEAN : \E o \in {"quota", "refused"}, b, h \in {0, n} :
                   /\ (h > 0 => Harvest) /\ (o = "refused" => b = 0) /\ (x => b > 0) /\ (y => h > 0)
                   /\ Answered(t, o, b, x)
                   /\ named' = [named EXCEPT ![s] = Larger(@, n)]
                   /\ fwd' = IF h = 0 THEN fwd ELSE fwd \cup {[scope |-> s, left |-> h, dated |-> y]}
    /\ UNCHANGED <<doc, empty, rmw, fcopy, changes>>

ForwarderRead ==
    /\ fcopy = None
    /\ \E f \in fwd :
         /\ fwd' = fwd \ {f}
         /\ fcopy' = IF f.left > 0 THEN Record(doc, f.scope, f.left) ELSE None
    /\ UNCHANGED <<doc, empty, named, turn, rmw, changes>>
ForwarderWrite ==
    /\ fcopy # None /\ doc' = fcopy /\ fcopy' = None
    /\ UNCHANGED <<empty, named, turn, rmw, fwd, changes>>

---------------------------------------------------------------------------
(* Quotas, the operator's clearAllProviderCooldowns, and time.  The        *)
(* windows of the documents in memory are instants.  So is one that an     *)
(* answer names by its date, while a delay runs from when the router or    *)
(* the forwarder reads the headers, after the body: until then it does not *)
(* shrink, and what its provider named is counted from there.              *)

Exhaust(s) ==
    /\ s \notin empty /\ empty' = empty \cup {s} /\ changes' = changes + 1
    /\ UNCHANGED <<named, turn, disk>>
Refill(s) ==
    /\ s \in empty /\ empty' = empty \ {s} /\ changes' = changes + 1
    /\ UNCHANGED <<named, turn, disk>>
clearAll ==
    /\ ClearsAll /\ doc' = [s \in Scopes |-> Absent] /\ doc' # doc /\ changes' = changes + 1
    /\ UNCHANGED <<empty, named, turn, rmw, fwd, fcopy>>

Older(d) == [s \in Scopes |-> IF d[s] > Expired THEN d[s] - 1 ELSE d[s]]
Unread(s) ==
    \/ \E f \in fwd : f.scope = s /\ ~f.dated
    \/ \E t \in Turns : /\ turn[t].at \in Answering /\ turn[t].told > 0 /\ ~turn[t].dated
                        /\ ScopeOf[Last(turn[t].tried)] = s
Tick ==
    /\ doc' = Older(doc)
    /\ named' = [s \in Scopes |-> IF Unread(s) THEN named[s] ELSE Less(named[s])]
    /\ turn' = [t \in Turns |-> IF turn[t].dated THEN [turn[t] EXCEPT !.told = Less(@)] ELSE turn[t]]
    /\ rmw' = (IF rmw = None THEN None ELSE [rmw EXCEPT !.doc = Older(@)])
    /\ fcopy' = (IF fcopy = None THEN None ELSE Older(fcopy))
    /\ fwd' = {IF f.dated THEN [f EXCEPT !.left = Less(@)] ELSE f : f \in fwd}
    /\ UNCHANGED <<empty, changes>>

---------------------------------------------------------------------------
Run(t) == Begin(t) \/ Cooled(t) \/ Send(t) \/ Handle(t) \/ Resend(t) \/ Hop(t) \/ HopHandle(t) \/ Upstream(t)
Change == changes < MaxChanges /\ (clearAll \/ \E s \in Scopes : Exhaust(s) \/ Refill(s))
Next ==
    \/ RouterWrite \/ ForwarderRead \/ ForwarderWrite \/ Change \/ Tick
    \/ \E t \in Turns : Run(t) \/ Abort(t)
Fairness ==
    /\ WF_vars(RouterWrite) /\ WF_vars(ForwarderRead) /\ WF_vars(ForwarderWrite) /\ WF_vars(Tick)
    /\ \A t \in Turns : WF_vars(Run(t))
Spec == Init /\ [][Next]_vars /\ Fairness

---------------------------------------------------------------------------
(* Every variable stays within its type.                                   *)
TypeOK ==
    /\ doc \in Docs /\ empty \subseteq Scopes /\ named \in [Scopes -> Nat]
    /\ turn \in [Turns -> TurnStates] /\ rmw \in Writes \cup {None}
    /\ fcopy \in Docs \cup {None} /\ fwd \subseteq [scope : Scopes, left : Nat, dated : BOOLEAN]
    /\ changes \in Nat

(* No window outlasts what the provider itself has said, a date or a delay *)
(* from when its answer is read, whatever is written over what:            *)
(* recordProviderCooldown never invents one.                               *)
WindowsAreNamed == \A s \in Scopes : Open(doc, s) => doc[s] - 1 <= named[s]

(* A turn costs at most MaxHops extra round trips, the one retry of a      *)
(* transport failure and the one resend of an empty completion; once it    *)
(* has moved it never returns to the model that failed, nor, out of usage, *)
(* to any model of the same provider.                                      *)
Own(u) == IF u.retried THEN 2 ELSE 1
Away(u, m) == m # u.route /\ (u.kind = "quota" => ScopeOf[m] # ScopeOf[u.route])
RoundTripsBounded ==
    \A t \in Turns :
        LET u == turn[t]
        IN  /\ Len(u.tried) <= Own(u) + MaxHops + (IF u.at = "resent" THEN 1 ELSE 0)
            /\ u.kind # None => \A i \in Own(u) + 1..Len(u.tried) : Away(u, u.tried[i])

(* Every turn ends.                                                        *)
Over == {"done", "failed", "gone"}
TurnsEnd == \A t \in Turns : <>(turn[t].at \in Over)

=============================================================================
