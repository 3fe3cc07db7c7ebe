--------------------------- MODULE FailoverProofs ---------------------------
(***************************************************************************)
(* What stands between the router and a provider, for any number of        *)
(* turns, providers, retries and callers: the failover and its cooldown    *)
(* windows, the retry of one upstream call, and the cache in front of the  *)
(* health probes.                                                          *)
(***************************************************************************)
EXTENDS Failover, UpstreamRetry, HealthCache, TLAPS

---------------------------------------------------------------------------
(* Failover.  A window on its way to the document, in the router's copy,   *)
(* in the forwarder's or in an answer, is already one that the provider    *)
(* named; a turn that hops has only candidates it may still ask.           *)

(* Every open window of document d is within what was named.               *)
Windows(d) == \A s \in Scopes : Open(d, s) => d[s] - 1 <= named[s]
Within(u) == u.at \in Answering => u.told <= named[ScopeOf[Last(u.tried)]]

Bounded(u) ==
    /\ Len(u.tried) <= Own(u) + MaxHops + (IF u.at = "resent" THEN 1 ELSE 0)
    /\ u.kind # None => \A i \in Own(u) + 1..Len(u.tried) : Away(u, u.tried[i])
(* The candidates h can all be asked by u.                                 *)
Moves(u, h) ==
    /\ Len(u.tried) >= Own(u) /\ Len(u.tried) + Len(h) <= Own(u) + MaxHops
    /\ \A i \in 1..Len(h) : Away(u, h[i])
OnlyOwn(u) == u.kind = None /\ u.route \in Models /\ \A i \in 1..Len(u.tried) : u.tried[i] = u.route
(* What a turn at each place has tried.                                    *)
Trips(u) ==
    /\ Bounded(u)
    /\ u.at \in {"idle", "cooled"} => u.tried = <<>> /\ ~u.retried
    /\ u.at \in {"cooled", "send", "sent", "answered"} => OnlyOwn(u)
    /\ u.at = "send" => Len(u.tried) + 1 = Own(u)
    /\ u.at \in {"sent", "answered"} => Len(u.tried) = Own(u)
    /\ u.at = "hop" => Moves(u, u.hops)
    /\ u.at \in {"hopSent", "hopAnswered"} =>
         /\ Len(u.tried) > Own(u) /\ u.hops # <<>> /\ Last(u.tried) = Head(u.hops)
         /\ Moves(u, Tail(u.hops))
    /\ u.at = "served" => Len(u.tried) >= Own(u) /\ (u.kind # None => Len(u.tried) > Own(u))
    /\ u.at = "resent" => u.tried # <<>>

(* Where the router's write takes a turn.                                  *)
Landing(u) == u \in TurnStates /\ Trips(u) /\ u.at \notin Answering
WriteOK(w) == w \in Writes /\ Windows(w.doc) /\ Landing(w.next)

FailoverInv ==
    /\ TypeOK /\ Windows(doc)
    /\ rmw # None => WriteOK(rmw)
    /\ fcopy # None => Windows(fcopy)
    /\ \A f \in fwd : f.left <= named[f.scope]
    /\ \A t \in Turns : Trips(turn[t]) /\ Within(turn[t])

---------------------------------------------------------------------------
LEMMA Limits ==
    /\ MaxHops \in Nat /\ Cap \in Nat /\ Cap > 0 /\ MaxNamed \in Nat
    /\ ScopeOf \in [Models -> Scopes] /\ \A m \in Models : ScopeOf[m] \in Scopes
  BY FailoverAssumption

LEMMA SeqFacts ==
    /\ \A h \in Seq(Models) : h # <<>> => /\ Head(h) \in Models /\ Tail(h) \in Seq(Models)
                                          /\ Len(Tail(h)) = Len(h) - 1 /\ Len(h) > 0 /\ Head(h) = h[1]
                                          /\ \A i \in 1..Len(Tail(h)) : Tail(h)[i] = h[i + 1]
    /\ \A q \in Seq(Models) : Len(q) \in Nat /\ (Len(q) > 0 => q # <<>> /\ Last(q) \in Models)
    /\ \A q \in Seq(Models), m \in Models :
         /\ Append(q, m) \in Seq(Models)
         /\ Len(Append(q, m)) = Len(q) + 1 /\ Append(q, m)[Len(q) + 1] = m
         /\ Last(Append(q, m)) = m
         /\ \A i \in 1..Len(q) : Append(q, m)[i] = q[i]
<1>1. ASSUME NEW h \in Seq(Models), h # <<>>
      PROVE  /\ Head(h) \in Models /\ Tail(h) \in Seq(Models)
             /\ Len(Tail(h)) = Len(h) - 1 /\ Len(h) > 0 /\ Head(h) = h[1]
             /\ \A i \in 1..Len(Tail(h)) : Tail(h)[i] = h[i + 1]
  BY <1>1
<1>2. ASSUME NEW q \in Seq(Models)
      PROVE  Len(q) \in Nat /\ (Len(q) > 0 => q # <<>> /\ Last(q) \in Models)
  BY DEF Last
<1>3. ASSUME NEW q \in Seq(Models), NEW m \in Models
      PROVE  /\ Append(q, m) \in Seq(Models)
             /\ Len(Append(q, m)) = Len(q) + 1 /\ Append(q, m)[Len(q) + 1] = m
             /\ Last(Append(q, m)) = m
             /\ \A i \in 1..Len(q) : Append(q, m)[i] = q[i]
  BY DEF Last
<1> QED BY <1>1, <1>2, <1>3

LEMMA OwnFacts == \A u \in TurnStates : Own(u) \in Nat /\ Own(u) \in {1, 2}
  BY DEF Own

(* The candidates of a turn: at most MaxHops, from S.                      *)
LEMMA HopsFacts ==
    ASSUME NEW S \in SUBSET Models
    PROVE  LET h == FirstHops(Ranked[S])
           IN  /\ h \in Seq(Models) /\ Len(h) <= MaxHops
               /\ \A i \in 1..Len(h) : h[i] \in S
<1> DEFINE q == Ranked[S]
           n == Smaller(Len(q), MaxHops)
<1>1. q \in Seq(S)
  BY FailoverAssumption
<1>2. n \in Nat /\ n <= Len(q) /\ n <= MaxHops
  BY <1>1, FailoverAssumption DEF Smaller
<1> HIDE DEF q, n
<1>3. /\ SubSeq(q, 1, n) \in Seq(Models) /\ Len(SubSeq(q, 1, n)) = n
      /\ \A i \in 1..n : SubSeq(q, 1, n)[i] = q[i] /\ q[i] \in S
  BY <1>1, <1>2
<1>4. FirstHops(q) = SubSeq(q, 1, n)
  BY DEF FirstHops, n
<1> QED BY <1>2, <1>3, <1>4 DEF q

(* Where a turn may go once its own route has failed.                      *)
LEMMA PlanFacts ==
    ASSUME NEW t \in Turns, NEW d, turn[t].outcome \in {"quota", "transport"}, NEW h \in Plan(t, d)
    PROVE  /\ h \in Seq(Models) /\ Len(h) <= MaxHops
           /\ \A i \in 1..Len(h) :
                /\ h[i] # turn[t].route
                /\ turn[t].outcome = "quota" => ScopeOf[h[i]] # ScopeOf[turn[t].route]
<1> DEFINE r == turn[t].route
<1>1. CASE turn[t].outcome = "quota"
  <2> DEFINE S == {m \in Models : ScopeOf[m] # ScopeOf[r] /\ ~Open(d, ScopeOf[m])}
  <2>1. h = FirstHops(Ranked[S])
    BY <1>1 DEF Plan, Candidates
  <2>2. h \in Seq(Models) /\ Len(h) <= MaxHops /\ \A i \in 1..Len(h) : h[i] \in S
    BY <2>1, HopsFacts
  <2> QED BY <2>2
<1>2. CASE turn[t].outcome = "transport"
  <2>1. h \in SeqOf(Models \ {r}, MaxHops)
    BY <1>2 DEF Plan
  <2>2. PICK n \in 0..MaxHops : h \in [1..n -> Models \ {r}]
    BY <2>1 DEF SeqOf
  <2>3. h \in Seq(Models) /\ Len(h) = n /\ \A i \in 1..n : h[i] # r
    BY <2>2, Limits
  <2> QED BY <1>2, <2>2, <2>3, Limits
<1> QED BY <1>1, <1>2

---------------------------------------------------------------------------
(* recordProviderCooldown writes no longer window than the one it is given.*)
LEMMA RecordKeeps ==
    ASSUME TypeOK, NEW d \in Docs, Windows(d), NEW s \in Scopes, NEW n \in Nat, n <= named[s]
    PROVE  Record(d, s, n) \in Docs /\ Windows(Record(d, s, n))
<1>1. CASE n = 0
  BY <1>1 DEF Record
<1>2. CASE n # 0
  <2> DEFINE m == Smaller(n, Cap) + 1
  <2>1. m \in 0..Cap + 1 /\ m - 1 <= n /\ m \in Nat
    BY <1>2, Limits DEF Smaller
  <2>2. Record(d, s, n) = [d EXCEPT ![s] = m]
    BY <1>2 DEF Record
  <2> HIDE DEF m
  <2>3. Record(d, s, n) \in Docs
    BY <2>1, <2>2 DEF Docs
  <2>4. ASSUME NEW r \in Scopes, Open(Record(d, s, n), r)
        PROVE  Record(d, s, n)[r] - 1 <= named[r]
    <3>1. CASE r = s
      BY <2>1, <2>2, <3>1 DEF Docs, TypeOK
    <3>2. CASE r # s
      BY <2>2, <2>4, <3>2 DEF Docs, Open, Windows
    <3> QED BY <3>1, <3>2
  <2> QED BY <2>3, <2>4 DEF Windows
<1> QED BY <1>1, <1>2

(* A cleared window is no window.                                          *)
LEMMA ClearKeeps ==
    ASSUME NEW d \in Docs, Windows(d), NEW s \in Scopes
    PROVE  [d EXCEPT ![s] = Absent] \in Docs /\ Windows([d EXCEPT ![s] = Absent])
  BY Limits DEF Docs, Windows, Open, Absent, Expired

(* A step that moves one turn, and may leave a write of the document.      *)
LEMMA MoveKeeps ==
    ASSUME FailoverInv, NEW t \in Turns, NEW r \in TurnStates, Trips(r), Within(r),
           turn' = [turn EXCEPT ![t] = r],
           UNCHANGED <<doc, empty, named, fwd, fcopy, changes>>,
           rmw' = rmw \/ (WriteOK(rmw') /\ rmw' # None)
    PROVE  FailoverInv'
<1>1. TypeOK'
  BY DEF FailoverInv, TypeOK, WriteOK
<1>2. rmw' # None => WriteOK(rmw)'
  BY DEF FailoverInv, WriteOK, Windows
<1>3. ASSUME NEW v \in Turns PROVE (Trips(turn[v]) /\ Within(turn[v]))'
  <2>1. turn'[v] = IF v = t THEN r ELSE turn[v]
    BY DEF FailoverInv, TypeOK
  <2> QED BY <2>1 DEF FailoverInv, Within
<1> QED BY <1>1, <1>2, <1>3 DEF FailoverInv, Windows

LEMMA LandingKeeps ==
    ASSUME FailoverInv, NEW t \in Turns, NEW r, Landing(r), Then(t, r),
           UNCHANGED <<doc, empty, named, fwd, fcopy, changes>>
    PROVE  FailoverInv'
<1>1. r \in TurnStates /\ Trips(r) /\ Within(r)
  BY DEF Landing, Within
<1> QED BY <1>1, MoveKeeps DEF Then, Set

LEMMA WritingKeeps ==
    ASSUME FailoverInv, NEW t \in Turns, NEW d \in Docs, Windows(d), NEW r, Landing(r),
           r.at # "resent", Writing(t, d, r),
           UNCHANGED <<doc, empty, named, fwd, fcopy, changes>>
    PROVE  FailoverInv'
<1> DEFINE w == [r EXCEPT !.at = "writing"]
<1>1. r \in TurnStates /\ Bounded(r)
  BY DEF Landing, Trips
<1>2. /\ w \in TurnStates /\ w.at = "writing" /\ w.tried = r.tried /\ w.kind = r.kind
      /\ w.route = r.route /\ w.retried = r.retried
  BY <1>1 DEF TurnStates, Places
<1>4. rmw' = [doc |-> d, turn |-> t, next |-> r] /\ turn' = [turn EXCEPT ![t] = w]
  BY DEF Writing, Set
<1> HIDE DEF w
<1>3. Trips(w) /\ Within(w)
  <2>1. Bounded(w)
    BY <1>1, <1>2 DEF Bounded, Own, Away
  <2> QED BY <1>2, <2>1 DEF Trips, Within, Answering
<1>5. rmw' \in Writes /\ rmw'.doc = d /\ rmw'.next = r
  BY <1>1, <1>4 DEF Writes
<1>6. WriteOK(rmw') /\ rmw' # None
  BY <1>5, FailoverAssumption DEF WriteOK
<1> QED BY <1>2, <1>3, <1>4, <1>6, MoveKeeps

LEMMA IdleFacts ==
    /\ Idle \in TurnStates /\ Idle.at = "idle" /\ Idle.tried = <<>> /\ Idle.retried = FALSE
    /\ Idle.told = 0 /\ Idle.kind = None
<1>1. /\ <<>> \in Seq(Models) /\ "idle" \in Places /\ 0 \in Nat /\ FALSE \in BOOLEAN
  BY DEF Places
<1> QED BY <1>1 DEF Idle, TurnStates

(* A turn that has asked nobody.                                           *)
LEMMA FreshIsBounded == \A u \in TurnStates : u.tried = <<>> => Bounded(u)
<1> SUFFICES ASSUME NEW u \in TurnStates, u.tried = <<>> PROVE Bounded(u)
  OBVIOUS
<1>1. Len(u.tried) = 0 /\ Own(u) \in {1, 2}
  BY OwnFacts
<1> QED BY <1>1, Limits DEF Bounded

(* The end of a turn.                                                      *)
LEMMA EndedLands ==
    \A how \in {"done", "failed", "gone"} : Landing(Ended(how)) /\ Ended(how).at # "resent"
<1> TAKE how \in {"done", "failed", "gone"}
<1>1. Ended(how) \in TurnStates /\ Ended(how).at = how /\ Ended(how).tried = <<>>
  BY IdleFacts DEF Ended, TurnStates, Places
<1> QED BY <1>1, FreshIsBounded DEF Landing, Trips, Answering

---------------------------------------------------------------------------
(* A turn begins at its own route, or among the candidates for it.         *)
LEMMA BeginKeeps == ASSUME FailoverInv, NEW t \in Turns, Begin(t) PROVE FailoverInv'
<1>1. PICK r \in Models :
        \/ Set(t, [Idle EXCEPT !.at = "cooled", !.route = r, !.hops = Candidates(doc, r)])
        \/ Set(t, [Idle EXCEPT !.at = "send", !.route = r])
  BY DEF Begin
<1>2. CASE Set(t, [Idle EXCEPT !.at = "cooled", !.route = r, !.hops = Candidates(doc, r)])
  <2> DEFINE u == [Idle EXCEPT !.at = "cooled", !.route = r, !.hops = Candidates(doc, r)]
  <2>1. Candidates(doc, r) \in Seq(Models)
    BY HopsFacts DEF Candidates
  <2>2. /\ u \in TurnStates /\ u.at = "cooled" /\ u.route = r /\ u.tried = <<>>
        /\ u.retried = FALSE /\ u.kind = None
    <3> HIDE DEF Idle
    <3> QED BY <2>1, IdleFacts DEF TurnStates, Places
  <2>3. Landing(u)
    <3> HIDE DEF u
    <3> QED BY <2>2, FreshIsBounded DEF Landing, Trips, Answering, OnlyOwn
  <2> QED BY <1>2, <2>3, LandingKeeps DEF Begin, Quiet, Then
<1>3. CASE Set(t, [Idle EXCEPT !.at = "send", !.route = r])
  <2> DEFINE u == [Idle EXCEPT !.at = "send", !.route = r]
  <2>1. /\ u \in TurnStates /\ u.at = "send" /\ u.route = r /\ u.tried = <<>>
        /\ u.retried = FALSE /\ u.kind = None
    <3> HIDE DEF Idle
    <3> QED BY IdleFacts DEF TurnStates, Places
  <2>2. Landing(u)
    <3> HIDE DEF u
    <3> QED BY <2>1, FreshIsBounded DEF Landing, Trips, Answering, OnlyOwn, Own
  <2> QED BY <1>3, <2>2, LandingKeeps DEF Begin, Quiet, Then
<1> QED BY <1>1, <1>2, <1>3

(* A change of a turn's place, candidates or route, before it asks.        *)
LEMMA CooledKeeps == ASSUME FailoverInv, NEW t \in Turns, Cooled(t) PROVE FailoverInv'
<1> DEFINE u == turn[t]
<1>1. /\ u \in TurnStates /\ u.at = "cooled" /\ u.route \in Models /\ u.tried = <<>>
      /\ ~u.retried /\ u.kind = None
  BY DEF FailoverInv, TypeOK, Trips, OnlyOwn, Cooled
<1>2. PICK r : /\ Set(t, r)
               /\ \/ r = [u EXCEPT !.at = "send"]
                  \/ u.hops # <<>> /\ r = [u EXCEPT !.hops = Tail(@)]
                  \/ /\ u.hops # <<>>
                     /\ r = [u EXCEPT !.at = "send", !.route = Head(u.hops), !.hops = <<>>]
  BY DEF Cooled
<1> HIDE DEF u
<1>3. /\ r \in TurnStates /\ r.at \in {"cooled", "send"} /\ r.route \in Models
      /\ r.tried = <<>> /\ ~r.retried /\ r.kind = None
  <2>1. CASE r = [u EXCEPT !.at = "send"]
    BY <1>1, <2>1 DEF TurnStates, Places
  <2>2. CASE u.hops # <<>> /\ r = [u EXCEPT !.hops = Tail(@)]
    <3>1. Tail(u.hops) \in Seq(Models)
      BY <1>1, <2>2, SeqFacts DEF TurnStates
    <3> QED BY <1>1, <2>2, <3>1 DEF TurnStates, Places
  <2>3. CASE /\ u.hops # <<>>
             /\ r = [u EXCEPT !.at = "send", !.route = Head(u.hops), !.hops = <<>>]
    <3>1. Head(u.hops) \in Models /\ <<>> \in Seq(Models)
      BY <1>1, <2>3 DEF TurnStates
    <3> QED BY <1>1, <2>3, <3>1 DEF TurnStates, Places
  <2> QED BY <1>2, <2>1, <2>2, <2>3
<1>4. Landing(r)
  BY <1>3, FreshIsBounded DEF Landing, Trips, Answering, OnlyOwn, Own
<1> QED BY <1>2, <1>4, LandingKeeps DEF Cooled, Quiet, Then

(* The turn's own route is asked, for the first or the second time.        *)
LEMMA SendKeeps == ASSUME FailoverInv, NEW t \in Turns, Send(t) PROVE FailoverInv'
<1> DEFINE u == turn[t]
           q == Append(u.tried, u.route)
           r == [u EXCEPT !.at = "sent", !.tried = q]
<1>1. /\ u \in TurnStates /\ u.tried \in Seq(Models) /\ OnlyOwn(u) /\ u.route \in Models
      /\ Len(u.tried) + 1 = Own(u)
  BY DEF FailoverInv, TypeOK, Trips, Send, TurnStates, OnlyOwn
<1>2. /\ q \in Seq(Models) /\ Len(q) = Own(u)
      /\ \A i \in 1..Len(q) : q[i] = u.route
  <2> HIDE DEF u
  <2> QED BY <1>1, SeqFacts DEF OnlyOwn
<1>3. Then(t, r)
  BY DEF Send, Quiet, Then
<1> HIDE DEF u, q
<1>4. /\ r \in TurnStates /\ r.at = "sent" /\ r.route = u.route /\ r.retried = u.retried
      /\ r.tried = q /\ r.kind = u.kind
  BY <1>1, <1>2 DEF TurnStates, Places
<1> HIDE DEF r
<1>5. OnlyOwn(r) /\ Len(r.tried) = Own(r) /\ Own(r) \in Nat
  BY <1>1, <1>2, <1>4, OwnFacts DEF OnlyOwn, Own
<1>6. Bounded(r)
  BY <1>4, <1>5, Limits DEF Bounded, OnlyOwn
<1>7. Landing(r)
  BY <1>4, <1>5, <1>6 DEF Landing, Trips, Answering
<1> QED BY <1>3, <1>7, LandingKeeps DEF Send, Quiet

(* The provider that answered has its window cleared; an empty response    *)
(* is one to ask for again.                                                *)
LEMMA ServedKeeps ==
    ASSUME FailoverInv, NEW t \in Turns, NEW m \in Models, Served(t, m),
           turn[t].at \in Answering,
           UNCHANGED <<doc, empty, named, fwd, fcopy, changes>>
    PROVE  FailoverInv'
<1> DEFINE u == turn[t]
           e == [u EXCEPT !.at = "served", !.hops = <<>>]
           r == IF u.outcome = "empty" THEN e ELSE Ended("done")
           s == ScopeOf[m]
<1>1. /\ doc \in Docs /\ Windows(doc) /\ u \in TurnStates /\ Trips(u) /\ u.at \in Answering
      /\ s \in Scopes
  BY Limits DEF FailoverInv, TypeOK
<1>2. [doc EXCEPT ![s] = Absent] \in Docs /\ Windows([doc EXCEPT ![s] = Absent])
  BY <1>1, ClearKeeps
<1>3. CASE Then(t, r) \/ Writing(t, [doc EXCEPT ![s] = Absent], r)
  <2> HIDE DEF u, s
  <2>1. /\ e \in TurnStates /\ e.at = "served" /\ e.tried = u.tried /\ e.kind = u.kind
        /\ e.route = u.route /\ e.retried = u.retried
    <3>1. <<>> \in Seq(Models)
      OBVIOUS
    <3> QED BY <1>1, <3>1 DEF TurnStates, Places
  <2> HIDE DEF e
  <2>2. Len(e.tried) >= Own(e) /\ (e.kind # None => Len(e.tried) > Own(e))
    <3>1. CASE u.at = "answered"
      BY <1>1, <2>1, <3>1, OwnFacts DEF Trips, OnlyOwn, Own
    <3>2. CASE u.at = "hopAnswered"
      <4>1. Len(u.tried) > Own(u) /\ Len(u.tried) \in Nat /\ Own(u) \in Nat
        BY <1>1, <3>2, OwnFacts, SeqFacts DEF Trips, TurnStates
      <4>2. Own(e) = Own(u)
        BY <2>1 DEF Own
      <4> QED BY <2>1, <4>1, <4>2
    <3> QED BY <1>1, <3>1, <3>2 DEF Answering
  <2>3. Bounded(e)
    BY <1>1, <2>1 DEF Trips, Bounded, Own, Away, Answering
  <2>4. Landing(e)
    BY <2>1, <2>2, <2>3 DEF Landing, Trips, Answering
  <2>5. Landing(r) /\ r.at # "resent"
    BY <2>1, <2>4, EndedLands
  <2> HIDE DEF r
  <2> QED BY <1>1, <1>2, <1>3, <2>5, LandingKeeps, WritingKeeps
<1> QED BY <1>3 DEF Served

(* The one that refused has the window recorded that it named, if any.     *)
LEMMA BelievedKeeps ==
    ASSUME FailoverInv, NEW t \in Turns, NEW m \in Models, NEW r, Landing(r), r.at # "resent",
           turn[t].told <= named[ScopeOf[m]], Believed(t, m, r),
           UNCHANGED <<doc, empty, named, fwd, fcopy, changes>>
    PROVE  FailoverInv'
<1> DEFINE s == ScopeOf[m]
<1>1. TypeOK /\ doc \in Docs /\ Windows(doc) /\ turn[t].told \in Nat /\ s \in Scopes
  BY Limits DEF FailoverInv, TypeOK, TurnStates
<1>2. Record(doc, s, turn[t].told) \in Docs /\ Windows(Record(doc, s, turn[t].told))
  BY <1>1, RecordKeeps
<1>3. CASE Writing(t, Record(doc, s, turn[t].told), r)
  BY <1>2, <1>3, WritingKeeps
<1>4. CASE Then(t, r)
  BY <1>4, LandingKeeps
<1> QED BY <1>3, <1>4 DEF Believed

(* The answer of the turn's own route.                                     *)
LEMMA HandleKeeps == ASSUME FailoverInv, NEW t \in Turns, Handle(t) PROVE FailoverInv'
<1> DEFINE u == turn[t]
<1>0. UNCHANGED <<doc, empty, named, fwd, fcopy, changes>>
  BY DEF Handle
<1>1. /\ u \in TurnStates /\ u.at = "answered" /\ u.route \in Models /\ Trips(u) /\ OnlyOwn(u)
      /\ u.tried \in Seq(Models) /\ u.told <= named[ScopeOf[Last(u.tried)]]
      /\ Len(u.tried) = Own(u) /\ Own(u) \in {1, 2} /\ Own(u) \in Nat
  BY OwnFacts DEF FailoverInv, TypeOK, TurnStates, Trips, Handle, Within, Answering, OnlyOwn
<1>2. u.told <= named[ScopeOf[u.route]]
  <2>1. Last(u.tried) = u.route
    <3> DEFINE n == Len(u.tried)
    <3>1. n \in {1, 2} /\ \A i \in 1..n : u.tried[i] = u.route
      BY <1>1 DEF OnlyOwn
    <3> HIDE DEF n
    <3>2. u.tried[n] = u.route
      BY <3>1
    <3> QED BY <3>2 DEF Last, n
  <2> QED BY <1>1, <2>1
<1>3. CASE Served(t, u.route)
  BY <1>0, <1>1, <1>3, ServedKeeps DEF Answering
<1>4. CASE Then(t, Ended("failed"))
  BY <1>0, <1>4, EndedLands, LandingKeeps
<1>5. CASE ~u.retried /\ Then(t, [u EXCEPT !.at = "send", !.retried = TRUE])
  <2> DEFINE r == [u EXCEPT !.at = "send", !.retried = TRUE]
  <2>1. Then(t, r)
    BY <1>5
  <2> HIDE DEF u
  <2>2. /\ r \in TurnStates /\ r.at = "send" /\ r.route = u.route /\ r.tried = u.tried
        /\ r.retried = TRUE /\ r.kind = u.kind
    BY <1>1 DEF TurnStates, Places
  <2> HIDE DEF r
  <2>3. Own(r) = 2 /\ Own(u) = 1 /\ OnlyOwn(r) /\ Len(r.tried) = 1
    BY <1>1, <1>5, <2>2 DEF Own, OnlyOwn
  <2>4. Bounded(r)
    BY <2>2, <2>3, Limits DEF Bounded, OnlyOwn
  <2>5. Landing(r)
    BY <2>2, <2>3, <2>4 DEF Landing, Trips, Answering
  <2> QED BY <1>0, <2>1, <2>5, LandingKeeps
<1>6. ASSUME NEW d, NEW h \in Plan(t, d), u.outcome \in {"quota", "transport"},
             Believed(t, u.route, IF Enabled THEN [Hopping(u, h) EXCEPT !.kind = u.outcome]
                                             ELSE Ended("failed"))
      PROVE  FailoverInv'
  <2> DEFINE r == [Hopping(u, h) EXCEPT !.kind = u.outcome]
  <2>1. /\ h \in Seq(Models) /\ Len(h) <= MaxHops
        /\ \A i \in 1..Len(h) : /\ h[i] # u.route
                                /\ u.outcome = "quota" => ScopeOf[h[i]] # ScopeOf[u.route]
    BY <1>6, PlanFacts
  <2>2. /\ r \in TurnStates /\ r.at = "hop" /\ r.hops = h /\ r.tried = u.tried
        /\ r.route = u.route /\ r.retried = u.retried /\ r.kind = u.outcome
    <3> HIDE DEF u
    <3> QED BY <1>1, <1>6, <2>1 DEF TurnStates, Places, Outcomes, Hopping
  <2>3. Landing(r)
    <3> HIDE DEF r, u
    <3>1. Own(r) = Own(u) /\ Len(r.tried) = Own(r) /\ Own(r) \in Nat /\ Len(h) \in Nat
      BY <1>1, <2>1, <2>2 DEF Own
    <3>2. Moves(r, r.hops)
      BY <2>1, <2>2, <3>1, Limits DEF Moves, Away
    <3>3. Bounded(r)
      BY <2>2, <3>1, Limits DEF Bounded
    <3> QED BY <2>2, <3>2, <3>3 DEF Landing, Trips, Answering
  <2>4. /\ Landing(IF Enabled THEN r ELSE Ended("failed"))
        /\ (IF Enabled THEN r ELSE Ended("failed")).at # "resent"
    BY <2>2, <2>3, EndedLands
  <2> QED BY <1>0, <1>1, <1>2, <1>6, <2>4, BelievedKeeps
<1> QED BY <1>3, <1>4, <1>5, <1>6 DEF Handle

(* The same model is asked once more.                                      *)
LEMMA ResendKeeps == ASSUME FailoverInv, NEW t \in Turns, Resend(t) PROVE FailoverInv'
<1> DEFINE u == turn[t]
           q == Append(u.tried, Last(u.tried))
           r == [u EXCEPT !.at = "resent", !.tried = q]
<1>0. UNCHANGED <<doc, empty, named, fwd, fcopy, changes>> /\ UNCHANGED rmw
  BY DEF Resend, Quiet
<1>1. /\ u \in TurnStates /\ u.at = "served" /\ u.tried \in Seq(Models) /\ Len(u.tried) \in Nat
      /\ Own(u) \in {1, 2} /\ Own(u) \in Nat /\ Bounded(u)
      /\ Len(u.tried) >= Own(u) /\ (u.kind # None => Len(u.tried) > Own(u))
  BY OwnFacts, SeqFacts DEF FailoverInv, TypeOK, TurnStates, Trips, Resend
<1>2. CASE Set(t, Ended("failed"))
  BY <1>0, <1>2, EndedLands, LandingKeeps DEF Then
<1>3. CASE Set(t, r)
  <2>1. Then(t, r)
    BY <1>0, <1>3 DEF Then
  <2> HIDE DEF u
  <2>2. /\ Last(u.tried) \in Models /\ q \in Seq(Models) /\ Len(q) = Len(u.tried) + 1 /\ q # <<>>
        /\ q[Len(u.tried) + 1] = u.tried[Len(u.tried)]
        /\ \A i \in 1..Len(u.tried) : q[i] = u.tried[i]
    <3>1. Len(u.tried) > 0
      BY <1>1
    <3>2. Last(u.tried) \in Models
      BY <1>1, <3>1, SeqFacts
    <3> QED BY <1>1, <3>2, SeqFacts DEF Last
  <2> HIDE DEF q
  <2>3. /\ r \in TurnStates /\ r.at = "resent" /\ r.tried = q /\ r.kind = u.kind
        /\ r.route = u.route /\ r.retried = u.retried
    BY <1>1, <2>2 DEF TurnStates, Places
  <2> HIDE DEF r
  <2>4. Own(r) = Own(u) /\ \A m : Away(r, m) <=> Away(u, m)
    BY <2>3 DEF Own, Away
  <2>5. Len(u.tried) <= Own(u) + MaxHops
    BY <1>1, Limits DEF Bounded
  <2>6. ASSUME r.kind # None, NEW i \in Own(r) + 1..Len(q) PROVE Away(r, q[i])
    <3>1. CASE i \in Own(u) + 1..Len(u.tried)
      BY <1>1, <2>2, <2>3, <2>4, <2>6, <3>1 DEF Bounded
    <3>2. CASE i = Len(u.tried) + 1
      <4>1. Len(u.tried) \in Own(u) + 1..Len(u.tried)
        BY <1>1, <2>3, <2>6
      <4> QED BY <1>1, <2>2, <2>3, <2>4, <2>6, <3>2, <4>1 DEF Bounded
    <3> QED BY <1>1, <2>2, <2>4, <3>1, <3>2
  <2>7. Bounded(r)
    BY <1>1, <2>2, <2>3, <2>4, <2>5, <2>6, Limits DEF Bounded
  <2>8. Landing(r)
    BY <2>2, <2>3, <2>7 DEF Landing, Trips, Answering
  <2> QED BY <1>0, <2>1, <2>8, LandingKeeps
<1> QED BY <1>2, <1>3 DEF Resend

(* A turn at a candidate that does not fit, or has failed, may go on to    *)
(* the next ones.                                                          *)
LEMMA MovesOn ==
    ASSUME NEW u \in TurnStates, NEW h \in Seq(Models), h # <<>>, Moves(u, h)
    PROVE  Moves(u, Tail(h)) /\ Tail(h) \in Seq(Models) /\ Head(h) \in Models /\ Away(u, Head(h))
<1>1. /\ Tail(h) \in Seq(Models) /\ Len(Tail(h)) = Len(h) - 1 /\ Len(h) > 0 /\ Len(h) \in Nat
      /\ \A i \in 1..Len(Tail(h)) : Tail(h)[i] = h[i + 1]
      /\ Head(h) \in Models /\ Head(h) = h[1]
  BY SeqFacts
<1>2. Len(u.tried) \in Nat /\ Own(u) \in Nat
  BY OwnFacts, SeqFacts DEF TurnStates
<1> DEFINE g == Tail(h)
<1> HIDE DEF g
<1>3. \A i \in 1..Len(g) : Away(u, g[i])
  BY <1>1 DEF Moves, g
<1> QED BY <1>1, <1>2, <1>3, Limits DEF Moves, g

(* The next candidate of a hop, or its end.                                *)
LEMMA HopKeeps == ASSUME FailoverInv, NEW t \in Turns, Hop(t) PROVE FailoverInv'
<1> DEFINE u == turn[t]
<1>0. UNCHANGED <<doc, empty, named, fwd, fcopy, changes>> /\ UNCHANGED rmw
  BY DEF Hop, Quiet
<1>1. /\ u \in TurnStates /\ u.at = "hop" /\ u.tried \in Seq(Models) /\ u.hops \in Seq(Models)
      /\ Moves(u, u.hops) /\ Bounded(u) /\ Len(u.tried) \in Nat /\ Own(u) \in Nat
      /\ Len(u.tried) >= Own(u)
  BY OwnFacts, SeqFacts DEF FailoverInv, TypeOK, TurnStates, Trips, Hop, Moves
<1>2. CASE Set(t, Ended("failed"))
  BY <1>0, <1>2, EndedLands, LandingKeeps DEF Then
<1>3. CASE u.hops # <<>> /\ Set(t, [u EXCEPT !.hops = Tail(@)])
  <2> DEFINE r == [u EXCEPT !.hops = Tail(@)]
  <2>1. Moves(u, Tail(u.hops)) /\ Tail(u.hops) \in Seq(Models)
    BY <1>1, <1>3, MovesOn
  <2>2. Then(t, r)
    BY <1>0, <1>3 DEF Then
  <2> HIDE DEF u
  <2>3. /\ r \in TurnStates /\ r.at = "hop" /\ r.hops = Tail(u.hops) /\ r.tried = u.tried
        /\ r.kind = u.kind /\ r.route = u.route /\ r.retried = u.retried
    BY <1>1, <2>1 DEF TurnStates
  <2> HIDE DEF r
  <2>4. Moves(r, r.hops) /\ Bounded(r)
    BY <1>1, <2>1, <2>3 DEF Moves, Bounded, Own, Away
  <2>5. Landing(r)
    BY <2>3, <2>4 DEF Landing, Trips, Answering
  <2> QED BY <1>0, <2>2, <2>5, LandingKeeps
<1>4. CASE u.hops # <<>> /\ Set(t, [u EXCEPT !.at = "hopSent", !.tried = Append(@, Head(u.hops))])
  <2> DEFINE q == Append(u.tried, Head(u.hops))
             r == [u EXCEPT !.at = "hopSent", !.tried = q]
  <2>1. /\ Moves(u, Tail(u.hops)) /\ Tail(u.hops) \in Seq(Models) /\ Head(u.hops) \in Models
        /\ Away(u, Head(u.hops))
    BY <1>1, <1>4, MovesOn
  <2>2. Then(t, r) /\ u.hops # <<>>
    BY <1>0, <1>4 DEF Then
  <2> HIDE DEF u
  <2>3. /\ q \in Seq(Models) /\ Len(q) = Len(u.tried) + 1 /\ q[Len(u.tried) + 1] = Head(u.hops)
        /\ Last(q) = Head(u.hops) /\ \A i \in 1..Len(u.tried) : q[i] = u.tried[i]
    BY <1>1, <2>1, SeqFacts
  <2> HIDE DEF q
  <2>4. /\ r \in TurnStates /\ r.at = "hopSent" /\ r.hops = u.hops /\ r.tried = q
        /\ r.kind = u.kind /\ r.route = u.route /\ r.retried = u.retried
    BY <1>1, <2>3 DEF TurnStates, Places
  <2> HIDE DEF r
  <2>5. Own(r) = Own(u) /\ \A m : Away(r, m) <=> Away(u, m)
    BY <2>4 DEF Own, Away
  <2>6. /\ Len(u.hops) > 0 /\ Len(u.hops) \in Nat /\ Len(Tail(u.hops)) = Len(u.hops) - 1
        /\ Len(u.tried) + Len(u.hops) <= Own(u) + MaxHops
    BY <1>1, <2>2, SeqFacts DEF Moves
  <2>7. /\ Len(q) <= Own(r) + MaxHops /\ Len(q) + Len(Tail(u.hops)) <= Own(r) + MaxHops
        /\ Len(q) > Own(r)
    <3> DEFINE n == Len(u.tried)
               k == Len(u.hops)
               o == Own(u)
    <3>1. n \in Nat /\ k \in Nat /\ o \in Nat /\ k > 0 /\ n + k <= o + MaxHops /\ n >= o
      BY <1>1, <2>6
    <3> HIDE DEF n, k, o
    <3>2. n + 1 <= o + MaxHops /\ (n + 1) + (k - 1) <= o + MaxHops /\ n + 1 > o
      BY <3>1, Limits
    <3>3. Len(q) = n + 1 /\ Len(Tail(u.hops)) = k - 1 /\ Own(r) = o
      BY <2>3, <2>5, <2>6 DEF n, k, o
    <3> QED BY <3>2, <3>3
  <2>8. ASSUME r.kind # None, NEW i \in Own(r) + 1..Len(q) PROVE Away(r, q[i])
    <3>1. CASE i \in Own(u) + 1..Len(u.tried)
      BY <1>1, <2>3, <2>4, <2>5, <2>8, <3>1 DEF Bounded
    <3>2. CASE i = Len(u.tried) + 1
      BY <2>1, <2>3, <2>5, <3>2
    <3> QED BY <1>1, <2>3, <2>5, <3>1, <3>2
  <2>9. Bounded(r)
    BY <2>4, <2>7, <2>8, <1>1, <2>3, <2>5, Limits DEF Bounded
  <2>10. Moves(r, Tail(u.hops)) /\ Len(r.tried) > Own(r)
    <3>1. Len(q) >= Own(r)
      BY <1>1, <2>3, <2>5, <2>7
    <3>2. \A i \in 1..Len(Tail(u.hops)) : Away(r, Tail(u.hops)[i])
      BY <2>1, <2>5 DEF Moves
    <3> QED BY <2>4, <2>7, <3>1, <3>2 DEF Moves
  <2>11. Landing(r)
    BY <2>2, <2>3, <2>4, <2>9, <2>10 DEF Landing, Trips, Answering
  <2> QED BY <1>0, <2>2, <2>11, LandingKeeps
<1> QED BY <1>2, <1>3, <1>4 DEF Hop

(* The answer of a candidate.                                              *)
LEMMA HopHandleKeeps == ASSUME FailoverInv, NEW t \in Turns, HopHandle(t) PROVE FailoverInv'
<1> DEFINE u == turn[t]
           c == Head(u.hops)
           on == Hopping(u, Tail(u.hops))
<1>0. UNCHANGED <<doc, empty, named, fwd, fcopy, changes>>
  BY DEF HopHandle
<1>1. /\ u \in TurnStates /\ u.at = "hopAnswered" /\ u.hops \in Seq(Models) /\ u.hops # <<>>
      /\ Moves(u, Tail(u.hops)) /\ Bounded(u) /\ u.told <= named[ScopeOf[c]]
  BY DEF FailoverInv, TypeOK, TurnStates, Trips, HopHandle, Within, Answering
<1>2. c \in Models /\ Tail(u.hops) \in Seq(Models)
  BY <1>1, SeqFacts
<1>3. Landing(on) /\ on.at # "resent"
  <2> HIDE DEF u
  <2>1. /\ on \in TurnStates /\ on.at = "hop" /\ on.hops = Tail(u.hops) /\ on.tried = u.tried
        /\ on.kind = u.kind /\ on.route = u.route /\ on.retried = u.retried
    BY <1>1, <1>2 DEF TurnStates, Places, Hopping
  <2> HIDE DEF on
  <2>2. Moves(on, on.hops) /\ Bounded(on)
    BY <1>1, <2>1 DEF Moves, Bounded, Own, Away
  <2> QED BY <2>1, <2>2 DEF Landing, Trips, Answering
<1>4. CASE Served(t, c)
  BY <1>0, <1>1, <1>2, <1>4, ServedKeeps DEF Answering
<1>5. CASE Then(t, on)
  BY <1>0, <1>3, <1>5, LandingKeeps
<1>6. CASE Then(t, Ended("failed"))
  BY <1>0, <1>6, EndedLands, LandingKeeps
<1>7. CASE Believed(t, c, on)
  BY <1>0, <1>1, <1>2, <1>3, <1>7, BelievedKeeps
<1> QED BY <1>4, <1>5, <1>6, <1>7 DEF HopHandle

(* The router's write: the document and the turn are those it prepared.    *)
LEMMA RouterWriteKeeps == ASSUME FailoverInv, RouterWrite PROVE FailoverInv'
<1>1. /\ rmw # None /\ WriteOK(rmw) /\ rmw \in Writes /\ rmw.turn \in Turns
      /\ rmw.doc \in Docs /\ Windows(rmw.doc) /\ Landing(rmw.next)
  BY DEF RouterWrite, FailoverInv, WriteOK, Writes
<1>2. /\ doc' = rmw.doc /\ rmw' = None /\ turn' = [turn EXCEPT ![rmw.turn] = rmw.next]
      /\ UNCHANGED <<empty, named, fwd, fcopy, changes>>
  BY DEF RouterWrite, Set
<1>3. TypeOK'
  BY <1>1, <1>2 DEF FailoverInv, TypeOK, Landing
<1>4. ASSUME NEW v \in Turns PROVE (Trips(turn[v]) /\ Within(turn[v]))'
  <2>1. turn'[v] = IF v = rmw.turn THEN rmw.next ELSE turn[v]
    BY <1>2 DEF FailoverInv, TypeOK
  <2> QED BY <1>1, <1>2, <2>1 DEF FailoverInv, Within, Landing
<1> QED BY <1>1, <1>2, <1>3, <1>4 DEF FailoverInv, Windows

(* The forwarder's read and write of the document.                         *)
LEMMA ForwarderKeeps == ASSUME FailoverInv, ForwarderRead \/ ForwarderWrite PROVE FailoverInv'
<1>1. CASE ForwarderRead
  <2>1. PICK f \in fwd : /\ fwd' = fwd \ {f}
                         /\ fcopy' = IF f.left > 0 THEN Record(doc, f.scope, f.left) ELSE None
    BY <1>1 DEF ForwarderRead
  <2>2. /\ f.scope \in Scopes /\ f.left \in Nat /\ f.left <= named[f.scope]
        /\ TypeOK /\ doc \in Docs /\ Windows(doc)
    BY DEF FailoverInv, TypeOK
  <2>3. Record(doc, f.scope, f.left) \in Docs /\ Windows(Record(doc, f.scope, f.left))
    BY <2>2, RecordKeeps
  <2>4. fcopy' \in Docs \cup {None} /\ (fcopy' # None => Windows(fcopy'))
    BY <2>1, <2>3
  <2>5. UNCHANGED <<doc, empty, named, turn, rmw, changes>>
    BY <1>1 DEF ForwarderRead
  <2>6. TypeOK'
    BY <2>1, <2>4, <2>5 DEF FailoverInv, TypeOK
  <2> QED BY <2>1, <2>4, <2>5, <2>6 DEF FailoverInv, WriteOK, Windows, Within
<1>2. CASE ForwarderWrite
  BY <1>2 DEF ForwarderWrite, FailoverInv, TypeOK, WriteOK, Windows, Within
<1> QED BY <1>1, <1>2

(* Quotas, and the operator's clear.                                       *)
LEMMA ChangeKeeps == ASSUME FailoverInv, Change PROVE FailoverInv'
<1>1. CASE clearAll
  <2>1. doc' \in Docs /\ \A s \in Scopes : ~Open(doc', s)
    BY <1>1, Limits DEF clearAll, Docs, Open, Absent, Expired
  <2> QED BY <1>1, <2>1 DEF clearAll, FailoverInv, TypeOK, WriteOK, Windows, Within
<1>2. ASSUME NEW s \in Scopes, Exhaust(s) \/ Refill(s) PROVE FailoverInv'
  BY <1>2 DEF Exhaust, Refill, disk, FailoverInv, TypeOK, WriteOK, Windows, Within
<1> QED BY <1>1, <1>2 DEF Change

(* The caller leaves.                                                      *)
LEMMA AbortKeeps == ASSUME FailoverInv, NEW t \in Turns, Abort(t) PROVE FailoverInv'
  BY EndedLands, LandingKeeps DEF Abort, Quiet, Then

(* The last model asked.                                                   *)
LEMMA AskedScope ==
    ASSUME NEW u \in TurnStates, Trips(u), u.at \in {"sent", "answered", "hopSent", "hopAnswered", "resent"}
    PROVE  Last(u.tried) \in Models /\ ScopeOf[Last(u.tried)] \in Scopes
<1>1. u.tried \in Seq(Models) /\ Len(u.tried) \in Nat /\ Own(u) \in {1, 2}
  BY OwnFacts, SeqFacts DEF TurnStates
<1>2. Len(u.tried) > 0
  BY <1>1 DEF Trips
<1> QED BY <1>1, <1>2, SeqFacts, Limits

(* What an answer leaves of the turn: the end of a resend, or its outcome. *)
LEMMA AnsweredTurn ==
    ASSUME TypeOK, NEW t \in Turns, Trips(turn[t]), turn[t].at \in {"sent", "hopSent", "resent"},
           NEW o \in Outcomes, NEW b \in Nat, NEW x \in BOOLEAN, Answered(t, o, b, x)
    PROVE  \E r \in TurnStates :
             /\ turn' = [turn EXCEPT ![t] = r] /\ Trips(r)
             /\ r.at \in Answering => r.told = b /\ r.tried = turn[t].tried
<1> DEFINE u == turn[t]
           how == IF u.at = "sent" THEN "answered" ELSE "hopAnswered"
           r == [u EXCEPT !.at = how, !.outcome = o, !.told = b, !.dated = x]
<1>1. u \in TurnStates /\ Trips(u) /\ u.at \in {"sent", "hopSent", "resent"}
  BY DEF TypeOK
<1>2. CASE u.at = "resent"
  <2> DEFINE e == Ended(IF o = "ok" THEN "done" ELSE "failed")
  <2>1. turn' = [turn EXCEPT ![t] = e]
    BY <1>2 DEF Answered, Set
  <2>2. Landing(e)
    BY EndedLands
  <2> HIDE DEF e
  <2> QED BY <2>1, <2>2 DEF Landing
<1>3. CASE u.at # "resent"
  <2>1. turn' = [turn EXCEPT ![t] = r]
    BY <1>3 DEF Answered, Set
  <2> HIDE DEF u
  <2>2. /\ r \in TurnStates /\ r.at = how /\ r.told = b /\ r.tried = u.tried /\ r.hops = u.hops
        /\ r.route = u.route /\ r.retried = u.retried /\ r.kind = u.kind
    BY <1>1 DEF TurnStates, Places
  <2> HIDE DEF r
  <2>3. Trips(r)
    <3>1. Own(r) = Own(u) /\ \A m : Away(r, m) <=> Away(u, m)
      BY <2>2 DEF Own, Away
    <3>2. CASE u.at = "sent"
      <4>1. Bounded(u) /\ OnlyOwn(u) /\ Len(u.tried) = Own(u)
        BY <1>1, <3>2 DEF Trips
      <4>2. Bounded(r) /\ OnlyOwn(r) /\ Len(r.tried) = Own(r) /\ r.at = "answered"
        BY <2>2, <3>1, <3>2, <4>1 DEF Bounded, OnlyOwn
      <4> QED BY <4>2 DEF Trips
    <3>3. CASE u.at = "hopSent"
      <4>1. /\ Bounded(u) /\ Len(u.tried) > Own(u) /\ u.hops # <<>> /\ Last(u.tried) = Head(u.hops)
            /\ Moves(u, Tail(u.hops))
        BY <1>1, <3>3 DEF Trips
      <4>2. /\ Bounded(r) /\ Len(r.tried) > Own(r) /\ r.hops # <<>> /\ Last(r.tried) = Head(r.hops)
            /\ Moves(r, Tail(r.hops)) /\ r.at = "hopAnswered"
        BY <2>2, <3>1, <3>3, <4>1 DEF Bounded, Moves
      <4> QED BY <4>2 DEF Trips
    <3> QED BY <1>1, <1>3, <3>2, <3>3
  <2> QED BY <2>1, <2>2, <2>3 DEF u
<1> QED BY <1>2, <1>3

(* A provider answers: what it names is within what it has named.          *)
LEMMA UpstreamKeeps == ASSUME FailoverInv, NEW t \in Turns, Upstream(t) PROVE FailoverInv'
<1> DEFINE u == turn[t]
           s == ScopeOf[Last(u.tried)]
           Raised(n) == named' = [named EXCEPT ![s] = Larger(@, n)]
           Tells(o, b) == \E x \in BOOLEAN : Answered(t, o, b, x)
           Leaves(h) == \E y \in BOOLEAN : fwd' = fwd \cup {[scope |-> s, left |-> h, dated |-> y]}
<1>1. /\ u \in TurnStates /\ u.at \in {"sent", "hopSent", "resent"} /\ Trips(u) /\ TypeOK
      /\ UNCHANGED <<doc, empty, rmw, fcopy, changes>>
  BY DEF FailoverInv, TypeOK, Upstream
<1>2. s \in Scopes
  BY <1>1, AskedScope
<1>3. PICK n \in Nat, o \in Outcomes, b \in Nat :
        /\ b <= n /\ Tells(o, b)
        /\ named' = named \/ Raised(n)
        /\ b = 0 \/ Raised(n)
        /\ fwd' = fwd \/ (Raised(n) /\ \E h \in Nat : h <= n /\ Leaves(h))
  <2>1. CASE /\ \E o \in Outcomes \ {"quota"} : Answered(t, o, 0, FALSE)
             /\ UNCHANGED <<named, fwd>>
    <3>1. PICK o \in Outcomes \ {"quota"} : Answered(t, o, 0, FALSE)
      BY <2>1
    <3>2. Tells(o, 0)
      BY <3>1
    <3> HIDE DEF Tells
    <3> QED BY <2>1, <3>2
  <2>2. CASE \E n \in 0..MaxNamed, x, y \in BOOLEAN : \E o \in {"quota", "refused"}, b, h \in {0, n} :
               /\ (h > 0 => Harvest) /\ (o = "refused" => b = 0) /\ (x => b > 0) /\ (y => h > 0)
               /\ Answered(t, o, b, x)
               /\ named' = [named EXCEPT ![s] = Larger(@, n)]
               /\ fwd' = IF h = 0 THEN fwd ELSE fwd \cup {[scope |-> s, left |-> h, dated |-> y]}
    <3>1. PICK n \in 0..MaxNamed, x \in BOOLEAN, y \in BOOLEAN :
            \E o \in {"quota", "refused"}, b, h \in {0, n} :
               /\ (h > 0 => Harvest) /\ (o = "refused" => b = 0) /\ (x => b > 0) /\ (y => h > 0)
               /\ Answered(t, o, b, x)
               /\ named' = [named EXCEPT ![s] = Larger(@, n)]
               /\ fwd' = IF h = 0 THEN fwd ELSE fwd \cup {[scope |-> s, left |-> h, dated |-> y]}
      BY <2>2
    <3>2. PICK o \in {"quota", "refused"}, b \in {0, n}, h \in {0, n} :
               /\ (h > 0 => Harvest) /\ (o = "refused" => b = 0) /\ (x => b > 0) /\ (y => h > 0)
               /\ Answered(t, o, b, x)
               /\ named' = [named EXCEPT ![s] = Larger(@, n)]
               /\ fwd' = IF h = 0 THEN fwd ELSE fwd \cup {[scope |-> s, left |-> h, dated |-> y]}
      BY <3>1
    <3>3. n \in Nat /\ o \in Outcomes /\ b \in Nat /\ b <= n /\ h \in Nat /\ h <= n
      BY <3>2, Limits DEF Outcomes
    <3>4. Tells(o, b) /\ Raised(n) /\ (fwd' = fwd \/ Leaves(h))
      <4>1. Tells(o, b)
        BY <3>2
      <4>2. fwd' = fwd \/ Leaves(h)
        BY <3>2
      <4> QED BY <3>2, <4>1, <4>2
    <3> HIDE DEF s, Tells, Raised, Leaves
    <3> QED BY <3>3, <3>4
  <2> QED BY <2>1, <2>2 DEF Upstream
<1> HIDE DEF s
<1>4. /\ named' \in [Scopes -> Nat] /\ \A v \in Scopes : named[v] <= named'[v]
      /\ b <= named'[s]
      /\ named' = [named EXCEPT ![s] = Larger(@, n)] => n <= named'[s]
  BY <1>2, <1>3 DEF FailoverInv, TypeOK, Larger
<1>5. ASSUME NEW d \in Docs, Windows(d)
      PROVE  \A v \in Scopes : Open(d, v) => d[v] - 1 <= named'[v]
  BY <1>4, <1>5, Limits DEF Windows, Docs, FailoverInv, TypeOK
<1>6. PICK r \in TurnStates :
        /\ turn' = [turn EXCEPT ![t] = r] /\ Trips(r)
        /\ r.at \in Answering => r.told = b /\ r.tried = u.tried
  <2>1. PICK x \in BOOLEAN : Answered(t, o, b, x)
    BY <1>3
  <2> QED BY <1>1, <1>3, <2>1, AnsweredTurn
<1>7. r.at \in Answering => r.told <= named'[ScopeOf[Last(r.tried)]]
  BY <1>4, <1>6 DEF s
<1>9. ASSUME NEW v \in Turns PROVE (Trips(turn[v]) /\ Within(turn[v]))'
  <2>1. CASE v = t
    BY <1>6, <1>7, <2>1 DEF FailoverInv, TypeOK, Within
  <2>2. CASE v # t
    <3>1. turn'[v] = turn[v] /\ turn[v] \in TurnStates /\ Trips(turn[v]) /\ Within(turn[v])
      BY <1>6, <2>2 DEF FailoverInv, TypeOK
    <3>2. turn[v].at \in Answering => ScopeOf[Last(turn[v].tried)] \in Scopes
      BY <3>1, AskedScope DEF Answering
    <3>3. turn[v].told \in Nat
      BY <3>1 DEF TurnStates
    <3> QED BY <1>4, <3>1, <3>2, <3>3 DEF Within, FailoverInv, TypeOK
  <2> QED BY <2>1, <2>2
<1>10. TypeOK'
  BY <1>1, <1>2, <1>3, <1>4, <1>6 DEF FailoverInv, TypeOK
<1>11. (Windows(doc) /\ (rmw # None => WriteOK(rmw)) /\ (fcopy # None => Windows(fcopy)))'
  BY <1>1, <1>5 DEF FailoverInv, TypeOK, WriteOK, Windows, Writes
<1>12. ASSUME NEW f \in fwd' PROVE f.left <= named'[f.scope]
  <2>1. CASE f \in fwd
    BY <1>4, <2>1 DEF FailoverInv, TypeOK
  <2>2. CASE f \notin fwd
    BY <1>2, <1>3, <1>4, <1>12, <2>2
  <2> QED BY <2>1, <2>2
<1> QED BY <1>9, <1>10, <1>11, <1>12 DEF FailoverInv

(* Time: windows, dated answers and what was named shrink together; what a *)
(* provider named does not while a delay of its is unread.                 *)
LEMMA LessFacts ==
    /\ \A m \in Nat : Less(m) \in Nat /\ Less(m) <= m
    /\ \A m, n \in Nat : m <= n => Less(m) <= Less(n)
  BY DEF Less

LEMMA OlderKeeps ==
    ASSUME TypeOK, NEW d \in Docs, Windows(d)
    PROVE  /\ Older(d) \in Docs
           /\ \A s \in Scopes : Open(Older(d), s) => Older(d)[s] - 1 <= Less(named[s])
<1>1. \A s \in Scopes : d[s] \in 0..Cap + 1 /\ named[s] \in Nat
  BY DEF Docs, TypeOK
<1>2. \A s \in Scopes : Older(d)[s] = IF d[s] > Expired THEN d[s] - 1 ELSE d[s]
  BY DEF Older
<1>3. ASSUME NEW s \in Scopes PROVE Older(d)[s] \in 0..Cap + 1
  BY <1>1, <1>2, Limits DEF Expired
<1>4. ASSUME NEW s \in Scopes, Open(Older(d), s) PROVE Older(d)[s] - 1 <= Less(named[s])
  BY <1>1, <1>2, <1>4, Limits DEF Expired, Open, Windows, Less
<1> QED BY <1>3, <1>4 DEF Older, Docs

(* A turn that has grown older is at the same place.                       *)
LEMMA AgedTurn ==
    ASSUME NEW u \in TurnStates, Trips(u)
    PROVE  LET w == [u EXCEPT !.told = Less(@)]
           IN  /\ w \in TurnStates /\ w.told = Less(u.told) /\ w.at = u.at /\ w.tried = u.tried
               /\ Trips(w)
<1> DEFINE w == [u EXCEPT !.told = Less(@)]
<1>1. Less(u.told) \in Nat
  BY LessFacts DEF TurnStates
<1>2. /\ w \in TurnStates /\ w.told = Less(u.told) /\ w.at = u.at /\ w.tried = u.tried
      /\ w.route = u.route /\ w.hops = u.hops /\ w.retried = u.retried /\ w.kind = u.kind
  BY <1>1 DEF TurnStates
<1> HIDE DEF w
<1>3. Trips(w)
  BY <1>2 DEF Trips, Bounded, OnlyOwn, Moves, Own, Away
<1> QED BY <1>2, <1>3 DEF w

LEMMA TickKeeps == ASSUME FailoverInv, Tick PROVE FailoverInv'
<1>1. /\ TypeOK /\ named' \in [Scopes -> Nat]
      /\ \A s \in Scopes : /\ named'[s] = IF Unread(s) THEN named[s] ELSE Less(named[s])
                           /\ named[s] \in Nat /\ Less(named[s]) <= named'[s]
  BY LessFacts DEF FailoverInv, TypeOK, Tick
<1>2. ASSUME NEW d \in Docs, Windows(d)
      PROVE  Older(d) \in Docs /\ \A s \in Scopes : Open(Older(d), s) => Older(d)[s] - 1 <= named'[s]
  <2>1. /\ Older(d) \in Docs
        /\ \A s \in Scopes : Open(Older(d), s) => Older(d)[s] - 1 <= Less(named[s])
    BY <1>1, <1>2, OlderKeeps
  <2>2. \A s \in Scopes : Older(d)[s] \in Nat /\ Less(named[s]) \in Nat /\ named'[s] \in Nat
    BY <1>1, <2>1, LessFacts, Limits DEF Docs
  <2> QED BY <1>1, <2>1, <2>2
<1>3. doc' \in Docs /\ Windows(doc)'
  BY <1>1, <1>2 DEF FailoverInv, TypeOK, Tick, Windows
<1>4. fcopy' \in Docs \cup {None} /\ (fcopy' # None => Windows(fcopy)')
  BY <1>1, <1>2 DEF FailoverInv, TypeOK, Tick, Windows
<1>5. rmw' \in Writes \cup {None} /\ (rmw' # None => WriteOK(rmw)')
  <2>1. CASE rmw = None
    BY <2>1 DEF Tick
  <2>2. CASE rmw # None
    <3> DEFINE d == Older(rmw.doc)
    <3>1. /\ rmw \in Writes /\ rmw.doc \in Docs /\ Windows(rmw.doc) /\ Landing(rmw.next)
          /\ rmw.next \in TurnStates /\ rmw.turn \in Turns
      BY <2>2 DEF FailoverInv, WriteOK, Writes
    <3>2. d \in Docs /\ \A s \in Scopes : Open(d, s) => d[s] - 1 <= named'[s]
      BY <1>2, <3>1
    <3>3. rmw' = [rmw EXCEPT !.doc = d]
      BY <2>2, <3>1 DEF Tick, Writes
    <3> HIDE DEF d
    <3>4. rmw' \in Writes /\ rmw'.doc = d /\ rmw'.next = rmw.next
      BY <3>1, <3>2, <3>3 DEF Writes
    <3> QED BY <3>1, <3>2, <3>4 DEF WriteOK, Windows
  <2> QED BY <2>1, <2>2
<1>6. turn' \in [Turns -> TurnStates] /\ \A t \in Turns : (Trips(turn[t]) /\ Within(turn[t]))'
  <2>1. ASSUME NEW t \in Turns
        PROVE  turn'[t] \in TurnStates /\ (Trips(turn[t]) /\ Within(turn[t]))'
    <3> DEFINE u == turn[t]
               w == [u EXCEPT !.told = Less(@)]
    <3>1. turn'[t] = (IF u.dated THEN w ELSE u) /\ u \in TurnStates /\ Trips(u) /\ Within(u)
      BY DEF Tick, FailoverInv, TypeOK
    <3>2. /\ w \in TurnStates /\ w.told = Less(u.told) /\ w.at = u.at /\ w.tried = u.tried
          /\ Trips(w)
      BY <3>1, AgedTurn
    <3>3. u.at \in Answering /\ u.told > 0 /\ ~u.dated => Unread(ScopeOf[Last(u.tried)])
      BY DEF Unread
    <3> HIDE DEF w, u
    <3>4. u.told \in Nat
      BY <3>1 DEF TurnStates
    <3>5. u.at \in Answering => ScopeOf[Last(u.tried)] \in Scopes
      BY <3>1, AskedScope DEF Answering
    <3>6. CASE u.dated
      <4>1. ASSUME u.at \in Answering PROVE Less(u.told) <= named'[ScopeOf[Last(u.tried)]]
        <5> DEFINE s == ScopeOf[Last(u.tried)]
        <5>1. s \in Scopes /\ u.told <= named[s]
          BY <3>1, <3>5, <4>1 DEF Within
        <5> HIDE DEF s
        <5>2. Less(u.told) <= Less(named[s]) /\ Less(u.told) \in Nat /\ Less(named[s]) \in Nat
          BY <1>1, <3>4, <5>1, LessFacts
        <5>3. Less(u.told) <= named'[s]
          BY <1>1, <5>1, <5>2
        <5> QED BY <5>3 DEF s
      <4> QED BY <3>1, <3>2, <3>6, <4>1 DEF Within
    <3>7. CASE ~u.dated
      <4>1. ASSUME u.at \in Answering PROVE u.told <= named'[ScopeOf[Last(u.tried)]]
        BY <1>1, <3>1, <3>3, <3>4, <3>5, <3>7, <4>1 DEF Within
      <4> QED BY <3>1, <3>7, <4>1 DEF Within
    <3> QED BY <3>6, <3>7
  <2> QED BY <2>1 DEF Tick
<1>7. ASSUME NEW g \in fwd'
      PROVE  g \in [scope : Scopes, left : Nat, dated : BOOLEAN] /\ g.left <= named'[g.scope]
  <2>1. PICK f \in fwd : g = IF f.dated THEN [f EXCEPT !.left = Less(@)] ELSE f
    BY DEF Tick
  <2>2. /\ f \in [scope : Scopes, left : Nat, dated : BOOLEAN] /\ f.left <= named[f.scope]
        /\ (~f.dated => Unread(f.scope))
    BY DEF FailoverInv, TypeOK, Unread
  <2>3. CASE f.dated
    <3>1. g.scope = f.scope /\ g.left = Less(f.left) /\ Less(f.left) \in Nat
      BY <2>1, <2>2, <2>3, LessFacts
    <3>2. g \in [scope : Scopes, left : Nat, dated : BOOLEAN]
      BY <2>1, <2>2, <2>3, <3>1
    <3>3. Less(f.left) <= Less(named[f.scope]) /\ Less(named[f.scope]) \in Nat
      BY <1>1, <2>2, LessFacts
    <3> QED BY <1>1, <2>2, <3>1, <3>2, <3>3
  <2>4. CASE ~f.dated
    BY <1>1, <2>1, <2>2, <2>4
  <2> QED BY <2>3, <2>4
<1>8. empty' \subseteq Scopes /\ changes' \in Nat
  BY DEF Tick, FailoverInv, TypeOK
<1>9. TypeOK'
  BY <1>1, <1>3, <1>4, <1>5, <1>6, <1>7, <1>8 DEF TypeOK
<1> QED BY <1>3, <1>4, <1>5, <1>6, <1>7, <1>9 DEF FailoverInv

---------------------------------------------------------------------------
(* Whatever windows earlier processes left, they count as named.           *)
LEMMA FailoverInit == Init => FailoverInv
<1> SUFFICES ASSUME Init PROVE FailoverInv
  OBVIOUS
<1>1. /\ doc \in Docs /\ named = [s \in Scopes |-> Less(doc[s])] /\ named \in [Scopes -> Nat]
      /\ \A s \in Scopes : doc[s] \in 0..Cap + 1
  BY Limits DEF Init, Docs, Less
<1>2. Windows(doc)
  BY <1>1, Limits DEF Windows, Open, Expired, Less
<1>3. turn \in [Turns -> TurnStates] /\ \A t \in Turns : turn[t] = Idle
  BY IdleFacts DEF Init
<1>4. Trips(Idle) /\ Within(Idle)
  BY IdleFacts, FreshIsBounded DEF Trips, Within, Answering
<1>5. TypeOK
  BY <1>1, <1>3 DEF Init, TypeOK
<1> QED BY <1>2, <1>3, <1>4, <1>5 DEF Init, FailoverInv

LEMMA FailoverStep == FailoverInv /\ [Next]_vars => FailoverInv'
<1> SUFFICES ASSUME FailoverInv, [Next]_vars PROVE FailoverInv'
  OBVIOUS
<1>1. ASSUME NEW t \in Turns, Run(t) PROVE FailoverInv'
  BY <1>1, BeginKeeps, CooledKeeps, SendKeeps, HandleKeeps, ResendKeeps, HopKeeps,
     HopHandleKeeps, UpstreamKeeps
  DEF Run
<1>2. ASSUME NEW t \in Turns, Abort(t) PROVE FailoverInv'
  BY <1>2, AbortKeeps
<1>3. CASE UNCHANGED vars
  BY <1>3 DEF vars, FailoverInv, TypeOK, WriteOK, Windows, Within
<1> QED BY <1>1, <1>2, <1>3, RouterWriteKeeps, ForwarderKeeps, ChangeKeeps, TickKeeps DEF Next

LEMMA FailoverAlways == Spec => []FailoverInv
  BY FailoverInit, FailoverStep, PTL DEF Spec

(* Turns, documents and windows keep their types.                          *)
THEOREM FailoverTypes == Spec => []TypeOK
<1>1. FailoverInv => TypeOK
  BY DEF FailoverInv
<1> QED BY <1>1, FailoverAlways, PTL

(* Whatever the router, the forwarder and the operator write over one      *)
(* another: no window on disk outlasts what its provider has named, by its *)
(* date or from when the answer is read.                                   *)
THEOREM NoWindowIsInvented == Spec => []WindowsAreNamed
<1>1. FailoverInv => WindowsAreNamed
  BY DEF FailoverInv, Windows, WindowsAreNamed
<1> QED BY <1>1, FailoverAlways, PTL

(* A turn makes at most MaxHops round trips more than its first, the retry *)
(* and the resend, and never hops back to what failed.                     *)
THEOREM TurnsAreBounded == Spec => []RoundTripsBounded
<1>1. FailoverInv => RoundTripsBounded
  BY DEF FailoverInv, Trips, Bounded, RoundTripsBounded
<1> QED BY <1>1, FailoverAlways, PTL

---------------------------------------------------------------------------
(* fetchWithRetry.  An attempt is followed by another only while less than *)
(* the budget is spent, and the sleep before that one adds its delay.      *)
RetryTypes ==
    /\ pc \in {"fetch", "judge", "discard", "sleep", "returned", "threw"}
    /\ attempt \in 0..Retries /\ clock \in Nat /\ left \in Nat /\ taken \in Seq(Nat)
(* No attempt took longer than the clock; all but the last were quick, and *)
(* the last one too when another follows.                                  *)
QuickInv ==
    /\ \A i \in 1..Len(taken) : taken[i] <= clock
    /\ \A i \in 1..Len(taken) :
          i < Len(taken) \/ pc \in {"fetch", "discard", "sleep"} => taken[i] < Budget
SpentInv ==
    /\ pc = "discard" => clock < Budget /\ attempt < Retries
    /\ pc = "sleep" => attempt > 0 /\ clock + left < Budget + Delay(attempt - 1)
    /\ pc = "fetch" /\ attempt > 0 => clock < Budget + Delay(attempt - 1)
RetryInv == RetryTypes /\ QuickInv /\ SpentInv

LEMMA RetryStarts == RetryInit => RetryInv
  BY RetryAssumption DEF RetryInit, RetryInv, RetryTypes, QuickInv, SpentInv

(* An attempt may take the whole budget: it is the last of the sequence.   *)
LEMMA FetchKeeps == ASSUME RetryInv, Fetch PROVE RetryInv'
<1>1. PICK d \in 0..MaxAttempt : clock' = clock + d /\ taken' = Append(taken, d)
  BY DEF Fetch
<1>2. /\ d \in Nat /\ clock \in Nat /\ taken \in Seq(Nat)
      /\ clock' \in Nat /\ clock <= clock' /\ d <= clock'
  BY <1>1, RetryAssumption DEF RetryInv, RetryTypes
<1>3. /\ taken' \in Seq(Nat) /\ Len(taken') = Len(taken) + 1 /\ taken'[Len(taken) + 1] = d
      /\ \A i \in 1..Len(taken) : taken'[i] = taken[i] /\ taken[i] \in Nat
  BY <1>1, <1>2
<1>4. pc = "fetch" /\ pc' = "judge" /\ UNCHANGED <<attempt, left>>
  BY DEF Fetch
<1>5. QuickInv'
  <2>1. ASSUME NEW i \in 1..Len(taken')
        PROVE  taken'[i] <= clock' /\ (i < Len(taken') => taken'[i] < Budget)
    <3>1. Len(taken) \in Nat
      BY <1>2
    <3>2. CASE i \in 1..Len(taken)
      <4>1. taken'[i] = taken[i] /\ taken[i] \in Nat /\ taken[i] <= clock /\ taken[i] < Budget
        BY <1>3, <1>4, <3>2 DEF RetryInv, QuickInv
      <4> QED BY <1>2, <4>1
    <3>3. CASE i = Len(taken) + 1
      BY <1>2, <1>3, <3>1, <3>3
    <3> QED BY <1>3, <3>1, <3>2, <3>3
  <2> QED BY <1>4, <2>1 DEF QuickInv
<1> QED BY <1>2, <1>3, <1>4, <1>5 DEF RetryInv, RetryTypes, SpentInv

(* No other step lengthens an attempt.                                     *)
LEMMA RetryStep == RetryInv /\ [RetryNext]_request => RetryInv'
<1> SUFFICES ASSUME RetryInv, [RetryNext]_request PROVE RetryInv'
  OBVIOUS
<1>1. CASE Settle
  BY <1>1 DEF Settle, RetryInv, RetryTypes, QuickInv, SpentInv
<1>2. CASE Again
  <2>1. attempt < Retries /\ clock < Budget
    BY <1>2, RetryAssumption DEF Again, Settles, RetryInv, RetryTypes
  <2>2. /\ pc = "judge" /\ pc' = "discard" /\ UNCHANGED <<attempt, clock, left, taken>>
    BY <1>2 DEF Again
  <2>3. ASSUME NEW i \in 1..Len(taken) PROVE taken[i] < Budget
    <3>1. taken[i] \in Nat /\ taken[i] <= clock /\ clock \in Nat
      BY DEF RetryInv, RetryTypes, QuickInv
    <3> QED BY <2>1, <3>1, RetryAssumption
  <2> QED BY <2>1, <2>2, <2>3 DEF RetryInv, RetryTypes, QuickInv, SpentInv
<1>3. CASE Doze
  <2>1. /\ pc = "discard" /\ pc' = "sleep" /\ left' = Delay(attempt) /\ attempt' = attempt + 1
        /\ UNCHANGED <<clock, taken>>
    BY <1>3 DEF Doze
  <2>2. attempt \in Nat /\ attempt < Retries /\ clock < Budget /\ attempt' - 1 = attempt /\ clock \in Nat
    BY <2>1 DEF RetryInv, RetryTypes, SpentInv
  <2>3. Delay(attempt) \in Nat /\ attempt' \in 0..Retries
    BY <2>1, <2>2, RetryAssumption
  <2>4. SpentInv'
    BY <2>1, <2>2, <2>3, RetryAssumption DEF SpentInv
  <2> QED BY <2>1, <2>3, <2>4 DEF RetryInv, RetryTypes, QuickInv
<1>4. CASE Pass
  <2>1. /\ pc = "sleep" /\ left > 0 /\ left' = left - 1 /\ clock' = clock + 1
        /\ UNCHANGED <<pc, attempt, taken>>
    BY <1>4 DEF Pass
  <2>2. /\ left \in Nat /\ clock \in Nat /\ left' \in Nat /\ clock' \in Nat
        /\ clock' + left' = clock + left /\ clock <= clock'
    BY <2>1 DEF RetryInv, RetryTypes
  <2>3. QuickInv'
    <3>1. ASSUME NEW i \in 1..Len(taken) PROVE taken[i] <= clock'
      BY <2>2 DEF RetryInv, RetryTypes, QuickInv
    <3> QED BY <2>1, <3>1 DEF RetryInv, QuickInv
  <2> QED BY <2>1, <2>2, <2>3 DEF RetryInv, RetryTypes, SpentInv
<1>5. CASE Wake
  <2>1. /\ pc = "sleep" /\ (pc' = "threw" \/ (pc' = "fetch" /\ left = 0))
        /\ UNCHANGED <<attempt, clock, left, taken>>
    BY <1>5 DEF Wake, Woken
  <2> QED BY <2>1 DEF RetryInv, RetryTypes, QuickInv, SpentInv
<1>6. CASE Leave \/ UNCHANGED request
  BY <1>6 DEF Leave, request, RetryInv, RetryTypes, QuickInv, SpentInv
<1> QED BY <1>1, <1>2, <1>3, <1>4, <1>5, <1>6, FetchKeeps DEF RetryNext

(* fetchWithRetry never multiplies a slow failure: an attempt that takes   *)
(* the whole budget is the last, and what is spent when an attempt starts  *)
(* is less than the budget and the delay before it.                        *)
THEOREM SlowAttemptIsLast == RetrySpec => []OneSlowAttempt
<1>1. RetryInv => OneSlowAttempt
  BY RetryAssumption DEF RetryInv, RetryTypes, QuickInv, SpentInv, OneSlowAttempt
<1> QED BY <1>1, RetryStarts, RetryStep, PTL DEF RetrySpec

(* Once the caller has left no attempt is started, whether it left during  *)
(* the attempt, the discarding or the sleep.                               *)
THEOREM NothingForNobodyHolds == RetrySpec => NothingForNobody
<1>1. [RetryNext]_request => [aborted /\ pc # "fetch" => pc' # "fetch"]_request
  BY DEF RetryNext, Fetch, Settle, Again, Doze, Pass, Wake,
         Leave, request
<1> QED BY <1>1, PTL DEF RetrySpec, NothingForNobody

---------------------------------------------------------------------------
(* HealthCache: one probe at a time, and no answer older than MaxStale.    *)

(* A probe under way is the one of the entry, and an entry that is         *)
(* refreshing has its probe under way.                                     *)
OneProbe ==
    /\ \A p \in flying : entry # Nothing /\ entry.promise = p /\ entry.refreshing
    /\ entry # Nothing /\ entry.refreshing => entry.promise \in flying

(* The age of the value is the true one, and a settled promise that is     *)
(* kept has been answered when the entry was made.                         *)
TrueAge ==
    entry # Nothing =>
        /\ entry.value # Nothing => entry.valueAt = seen
        /\ entry.value = Nothing => entry.valueAt = Nothing
        /\ entry.promise # Nothing /\ ~entry.refreshing => entry.value # Nothing /\ entry.valueAt = entry.at

CacheInv == CacheTypeOK /\ OneProbe /\ TrueAge /\ NeverTooOld

LEMMA OldIs == Old \in Nat /\ Old = MaxStale + 1 /\ 0 \in 0..Old /\ Nothing \notin 0..Old
BY CacheAssumption DEF Old

LEMMA AgedType == \A a \in 0..Old : Aged(a) \in 0..Old /\ Aged(a) # Nothing
BY OldIs DEF Aged

(* The start of the service: nothing cached, nobody told anything.         *)
LEMMA CacheStarts == CacheInit => CacheInv
BY OldIs DEF CacheInit, CacheInv, CacheTypeOK, OneProbe, TrueAge, NeverTooOld

LEMMA ServeTells ==
    ASSUME CacheInv, NEW c \in Callers, CanServe(entry), Serve(c)
    PROVE  /\ answer' \in [Callers -> Answers \cup {Nothing}]
           /\ waits' = waits
           /\ \A d \in Callers : answer'[d] # Nothing => answer'[d].age <= MaxStale
<1>1. entry # Nothing /\ entry \in Entries /\ entry.value \in {"up", "down"} /\ entry.valueAt = seen
    BY DEF CanServe, CacheInv, CacheTypeOK, TrueAge, Entries
<1>2. seen \in 0..Old /\ seen <= MaxStale
    BY <1>1 DEF CanServe, CacheInv, CacheTypeOK
<1>3. Told(entry.value) \in Answers /\ Told(entry.value).age <= MaxStale
    BY <1>1, <1>2 DEF Told, Answers
<1> QED BY <1>3 DEF Serve, CacheInv, CacheTypeOK, NeverTooOld

(* A promise that is handed out and cannot be served from the entry is     *)
(* pending: a settled one is young.                                        *)
LEMMA JoinWaits ==
    ASSUME CacheInv, Shared, ~CanServe(entry)
    PROVE  entry # Nothing /\ entry.promise \in flying
<1>1. entry # Nothing /\ entry \in Entries /\ entry.promise # Nothing
    BY DEF Shared, Fresh, CacheInv, CacheTypeOK
<1>2. CASE entry.refreshing BY <1>1, <1>2 DEF CacheInv, OneProbe
<1>3. CASE ~entry.refreshing
    <2>1. entry.at < TTL /\ entry.valueAt = entry.at /\ entry.value # Nothing
        BY <1>1, <1>3 DEF Shared, Fresh, CacheInv, TrueAge
    <2>2. entry.at \in Nat /\ entry.at <= MaxStale
        BY <1>1, <2>1, CacheAssumption, OldIs DEF Entries
    <2> QED BY <1>1, <2>1, <2>2 DEF CanServe
<1> QED BY <1>2, <1>3

(* cachedProbe answering from the entry, or from a probe under way.        *)
LEMMA FromCacheKeeps == ASSUME CacheInv, NEW c \in Callers, FromCache(c) PROVE CacheInv'
<1>1. UNCHANGED <<entry, flying, alive, seen>> BY DEF FromCache
<1>2. CASE CanServe(entry)
    <2>1. Serve(c) BY <1>2 DEF FromCache
    <2> QED BY <1>1, <1>2, <2>1, ServeTells DEF CacheInv, CacheTypeOK, OneProbe, TrueAge,
           NeverTooOld
<1>3. CASE ~CanServe(entry)
    <2>1. Shared /\ Join(c) BY <1>3 DEF FromCache
    <2>2. entry # Nothing /\ entry.promise \in flying BY <1>3, <2>1, JoinWaits
    <2>3. waits' = [waits EXCEPT ![c] = entry.promise] /\ answer' = answer
        BY <2>1, <2>2 DEF Join
    <2> QED BY <1>1, <2>2, <2>3 DEF CacheInv, CacheTypeOK, OneProbe, TrueAge, NeverTooOld
<1> QED BY <1>2, <1>3

(* cachedProbe starting a probe: none is under way.                        *)
LEMMA StartProbeKeeps == ASSUME CacheInv, NEW c \in Callers, StartProbe(c) PROVE CacheInv'
<1>1. PICK p \in Probes \ flying :
         /\ flying' = flying \cup {p}
         /\ entry' = [at |-> 0, promise |-> p, refreshing |-> TRUE,
                      valueAt |-> IF entry = Nothing THEN Nothing ELSE entry.valueAt,
                      value |-> IF entry = Nothing THEN Nothing ELSE entry.value]
         /\ IF CanServe(entry) THEN Serve(c)
            ELSE waits' = [waits EXCEPT ![c] = p] /\ UNCHANGED answer
    BY DEF StartProbe
<1>2. flying = {}
    <2>1. ASSUME NEW q \in flying PROVE FALSE
        <3>1. entry # Nothing /\ entry.promise = q /\ entry.refreshing
            BY <2>1 DEF CacheInv, OneProbe
        <3>2. q # Nothing BY <2>1, CacheAssumption DEF CacheInv, CacheTypeOK
        <3> QED BY <3>1, <3>2 DEF StartProbe, Shared
    <2> QED BY <2>1
<1>3. UNCHANGED <<alive, seen>> BY DEF StartProbe
<1>4. entry' \in Entries /\ entry' # Nothing
    <2>1. entry' \in Entries BY <1>1, OldIs DEF Entries, CacheInv, CacheTypeOK
    <2> QED BY <2>1, CacheAssumption
<1>5. CacheTypeOK' /\ NeverTooOld'
    <2>1. CASE CanServe(entry)
        BY <1>1, <1>3, <1>4, <2>1, ServeTells DEF CacheInv, CacheTypeOK, NeverTooOld
    <2>2. CASE ~CanServe(entry)
        BY <1>1, <1>3, <1>4, <2>2 DEF CacheInv, CacheTypeOK, NeverTooOld
    <2> QED BY <2>1, <2>2
<1>6. OneProbe' BY <1>1, <1>2, <1>4 DEF OneProbe
<1>7. TrueAge' BY <1>1, <1>3, <1>4 DEF TrueAge, CacheInv
<1> QED BY <1>5, <1>6, <1>7 DEF CacheInv

LEMMA DeliverTells ==
    ASSUME CacheInv, NEW p, NEW t \in Answers, t.age <= MaxStale, Deliver(p, t)
    PROVE  /\ answer' \in [Callers -> Answers \cup {Nothing}]
           /\ waits' \in [Callers -> Probes \cup {Nothing}]
           /\ \A d \in Callers : answer'[d] # Nothing => answer'[d].age <= MaxStale
           /\ flying' = flying \ {p} /\ alive' = alive
BY DEF Deliver, CacheInv, CacheTypeOK, NeverTooOld

(* The one probe under way answers: the entry is as old as its value.      *)
LEMMA ProbeAnswersKeeps == ASSUME CacheInv, NEW p \in Probes, ProbeAnswers(p) PROVE CacheInv'
<1> DEFINE v == IF alive THEN "up" ELSE "down"
           e == [at |-> 0, valueAt |-> 0, value |-> v, promise |-> p, refreshing |-> FALSE]
<1>1. Current(p) /\ p \in flying BY DEF ProbeAnswers, CacheInv, OneProbe, Current
<1>2. entry' = e /\ seen' = 0 /\ Deliver(p, [value |-> v, age |-> 0])
    BY <1>1 DEF ProbeAnswers
<1>3. [value |-> v, age |-> 0] \in Answers /\ 0 <= MaxStale
    BY OldIs, CacheAssumption DEF Answers
<1>4. /\ answer' \in [Callers -> Answers \cup {Nothing}]
      /\ waits' \in [Callers -> Probes \cup {Nothing}]
      /\ \A d \in Callers : answer'[d] # Nothing => answer'[d].age <= MaxStale
      /\ flying' = flying \ {p} /\ alive' = alive
    BY <1>2, <1>3, DeliverTells
<1>5. flying' = {} BY <1>1, <1>4 DEF CacheInv, OneProbe, Current
<1>6. entry' \in Entries /\ entry' # Nothing
    <2>1. v \in {"up", "down"} OBVIOUS
    <2> HIDE DEF v
    <2>2. e \in Entries BY <2>1, OldIs DEF Entries
    <2> QED BY <1>2, <2>2, CacheAssumption
<1>7. entry'.value # Nothing BY <1>2, CacheAssumption
<1>8. entry'.valueAt = seen' /\ entry'.valueAt = entry'.at /\ ~entry'.refreshing
    BY <1>2
<1>9. seen' \in 0..Old BY <1>2, OldIs
<1>10. CacheTypeOK' BY <1>4, <1>5, <1>6, <1>9 DEF CacheTypeOK, CacheInv
<1>11. OneProbe' BY <1>5, <1>8 DEF OneProbe
<1>12. TrueAge' BY <1>7, <1>8 DEF TrueAge
<1>13. NeverTooOld' BY <1>4 DEF NeverTooOld
<1> QED BY <1>10, <1>11, <1>12, <1>13 DEF CacheInv

(* The one probe under way throws: the value it falls back on is not made  *)
(* younger, and is not used beyond MaxStale.                               *)
LEMMA ProbeThrowsKeeps == ASSUME CacheInv, NEW p \in Probes, ProbeThrows(p) PROVE CacheInv'
<1>1. /\ Current(p) /\ p \in flying /\ entry # Nothing /\ entry.promise = p /\ seen' = seen
      /\ \A q \in flying : q = p
    BY DEF ProbeThrows, CacheInv, OneProbe, Current
<1>2. CASE CanServe(entry)
    <2>1. /\ Deliver(p, Told(entry.value))
          /\ entry' = [entry EXCEPT !.at = 0, !.promise = Nothing, !.refreshing = FALSE]
        BY <1>2 DEF ProbeThrows
    <2>2. entry \in Entries /\ entry.value \in {"up", "down"} /\ entry.valueAt = seen
        BY <1>1, <1>2 DEF CanServe, CacheInv, CacheTypeOK, TrueAge, Entries
    <2>3. Told(entry.value) \in Answers /\ Told(entry.value).age <= MaxStale
        BY <1>2, <2>2 DEF Told, Answers, CanServe, CacheInv, CacheTypeOK
    <2>4. /\ answer' \in [Callers -> Answers \cup {Nothing}]
          /\ waits' \in [Callers -> Probes \cup {Nothing}]
          /\ \A d \in Callers : answer'[d] # Nothing => answer'[d].age <= MaxStale
          /\ flying' = {} /\ alive' = alive
        BY <1>1, <2>1, <2>3, DeliverTells
    <2>5. entry' \in Entries /\ entry' # Nothing BY <2>1, <2>2, OldIs, CacheAssumption DEF Entries
    <2>6. entry'.value = entry.value /\ entry'.valueAt = seen' /\ entry'.promise = Nothing /\ ~entry'.refreshing
        BY <1>1, <2>1, <2>2 DEF Entries
    <2> QED BY <1>1, <2>2, <2>4, <2>5, <2>6, CacheAssumption
            DEF CacheInv, CacheTypeOK, OneProbe, TrueAge, NeverTooOld
<1>3. CASE ~CanServe(entry)
    <2>1. Deliver(p, [value |-> "error", age |-> 0]) /\ entry' = Nothing
        BY <1>1, <1>3 DEF ProbeThrows
    <2>2. [value |-> "error", age |-> 0] \in Answers /\ 0 <= MaxStale
        BY OldIs, CacheAssumption DEF Answers
    <2>3. /\ answer' \in [Callers -> Answers \cup {Nothing}]
          /\ waits' \in [Callers -> Probes \cup {Nothing}]
          /\ \A d \in Callers : answer'[d] # Nothing => answer'[d].age <= MaxStale
          /\ flying' = {} /\ alive' = alive
        BY <1>1, <2>1, <2>2, DeliverTells
    <2> QED BY <1>1, <2>1, <2>3 DEF CacheInv, CacheTypeOK, OneProbe, TrueAge, NeverTooOld
<1> QED BY <1>2, <1>3

(* Time makes the value and the history of it older together.              *)
LEMMA AgedKeeps == ASSUME CacheInv, CacheTick PROVE CacheInv'
<1>1. UNCHANGED <<flying, waits, answer, alive>> /\ seen' = Aged(seen) /\ seen' \in 0..Old
    BY AgedType DEF CacheTick, CacheInv, CacheTypeOK
<1>2. CASE entry = Nothing
    BY <1>1, <1>2 DEF CacheTick, CacheInv, CacheTypeOK, OneProbe, TrueAge, NeverTooOld
<1>3. CASE entry # Nothing
    <2>1. entry \in Entries BY <1>3 DEF CacheInv, CacheTypeOK
    <2>2. entry' = [entry EXCEPT !.at = Aged(@), !.valueAt = Aged(@)] BY <1>3 DEF CacheTick
    <2>3. Aged(entry.at) \in 0..Old BY <2>1, AgedType DEF Entries
    <2>4. /\ Aged(entry.valueAt) \in 0..Old \cup {Nothing}
          /\ (entry.valueAt = Nothing => Aged(entry.valueAt) = Nothing)
        BY <2>1, AgedType DEF Entries, Aged
    <2>5. entry' \in Entries /\ entry' # Nothing
        BY <2>1, <2>2, <2>3, <2>4, CacheAssumption DEF Entries
    <2>6. /\ entry'.value = entry.value /\ entry'.promise = entry.promise
          /\ entry'.refreshing = entry.refreshing
          /\ entry'.at = Aged(entry.at) /\ entry'.valueAt = Aged(entry.valueAt)
        BY <2>1, <2>2 DEF Entries
    <2>7. TrueAge' BY <1>1, <1>3, <2>4, <2>5, <2>6 DEF TrueAge, CacheInv
    <2> QED BY <1>1, <1>3, <2>5, <2>6, <2>7 DEF CacheInv, CacheTypeOK, OneProbe, NeverTooOld
<1> QED BY <1>2, <1>3

LEMMA CacheStep == CacheInv /\ [CacheNext]_cache => CacheInv'
<1> SUFFICES ASSUME CacheInv, [CacheNext]_cache PROVE CacheInv'
    OBVIOUS
<1>1. ASSUME NEW c \in Callers, FromCache(c) PROVE CacheInv' BY <1>1, FromCacheKeeps
<1>2. ASSUME NEW c \in Callers, StartProbe(c) PROVE CacheInv' BY <1>2, StartProbeKeeps
<1>3. ASSUME NEW c \in Callers, Done(c) PROVE CacheInv'
    BY <1>3 DEF Done, CacheInv, CacheTypeOK, OneProbe, TrueAge, NeverTooOld
<1>4. ASSUME NEW p \in Probes, ProbeAnswers(p) PROVE CacheInv' BY <1>4, ProbeAnswersKeeps
<1>5. ASSUME NEW p \in Probes, ProbeThrows(p) PROVE CacheInv' BY <1>5, ProbeThrowsKeeps
<1>6. CASE Turn BY <1>6 DEF Turn, CacheInv, CacheTypeOK, OneProbe, TrueAge, NeverTooOld
<1>7. CASE CacheTick BY <1>7, AgedKeeps
<1>8. CASE UNCHANGED cache BY <1>8 DEF cache, CacheInv, CacheTypeOK, OneProbe, TrueAge, NeverTooOld
<1> QED BY <1>1, <1>2, <1>3, <1>4, <1>5, <1>6, <1>7, <1>8 DEF CacheNext

LEMMA CacheAlways == CacheSpec => []CacheInv
<1>1. CacheInit => CacheInv BY CacheStarts
<1>2. CacheInv /\ [CacheNext]_cache => CacheInv' BY CacheStep
<1> QED BY <1>1, <1>2, PTL DEF CacheSpec

(* Every variable of the health cache stays within its type.               *)
THEOREM CacheTypes == CacheSpec => []CacheTypeOK
<1>1. CacheInv => CacheTypeOK BY DEF CacheInv
<1> QED BY <1>1, CacheAlways, PTL

(* Callers of cachedProbe share one probe, however they interleave.        *)
THEOREM OneProbeAtATime == CacheSpec => []SingleFlight
<1>1. CacheInv => SingleFlight BY DEF CacheInv, OneProbe, SingleFlight
<1> QED BY <1>1, CacheAlways, PTL

(* No caller of cachedProbe is told what was observed longer than MaxStale *)
(* ago, however many refreshes have thrown.                                *)
THEOREM StaleBound == CacheSpec => []NeverTooOld
<1>1. CacheInv => NeverTooOld BY DEF CacheInv
<1> QED BY <1>1, CacheAlways, PTL
=============================================================================
