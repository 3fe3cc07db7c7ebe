---------------------------- MODULE HealthCache ----------------------------
(***************************************************************************)
(* The cache in front of the router's /health probes, one key of it:       *)
(* createHealthCache in src/router/src/health-cache.mjs, as router.mjs     *)
(* uses it, with staleWhileRevalidate.                                     *)
(*                                                                         *)
(* cachedProbe runs to its end without an await; a probe settles later.    *)
(* Instants are kept as ages, which a tick makes older and which stop at   *)
(* Old, older than any bound.                                              *)
(***************************************************************************)
EXTENDS Naturals

CONSTANTS Callers, Probes, Nothing, TTL, MaxStale

Old == MaxStale + 1
Entries == [at : 0..Old, valueAt : 0..Old \cup {Nothing}, value : {"up", "down", Nothing},
            promise : Probes \cup {Nothing}, refreshing : BOOLEAN]

ASSUME CacheAssumption ==
    /\ Nothing \notin Probes /\ Nothing \notin 0..Old /\ Nothing \notin Entries /\ Nothing \notin {"up", "down"}
    /\ TTL \in Nat /\ MaxStale \in Nat /\ TTL <= MaxStale

VARIABLES entry,    \* entries.get(key)
          flying,   \* the probes under way
          waits,    \* the probe whose promise a caller was given
          answer,   \* what a caller has been told, until it asks again
          alive,    \* the service that is probed
          seen      \* the age of the last answer of a probe (history)

cache == <<entry, flying, waits, answer, alive, seen>>

Aged(a) == IF a = Nothing \/ a = Old THEN a ELSE a + 1
Told(v) == [value |-> v, age |-> seen]

CacheInit ==
    /\ entry = Nothing /\ flying = {} /\ waits = [c \in Callers |-> Nothing]
    /\ answer = [c \in Callers |-> Nothing] /\ alive = TRUE /\ seen = Old

(* canServeStale(e)                                                        *)
CanServe(e) == e # Nothing /\ e.value # Nothing /\ e.valueAt <= MaxStale
Fresh == entry # Nothing /\ entry.at < TTL

---------------------------------------------------------------------------
(* cachedProbe                                                             *)

Asks(c) == waits[c] = Nothing /\ answer[c] = Nothing
Serve(c) == answer' = [answer EXCEPT ![c] = Told(entry.value)] /\ UNCHANGED waits
(* A promise still pending is waited for; a settled one has its value.     *)
Join(c) ==
    \/ entry.promise \in flying /\ waits' = [waits EXCEPT ![c] = entry.promise] /\ UNCHANGED answer
    \/ entry.promise \notin flying /\ Serve(c)

(* Mutant: a probe is only shared while its entry is fresh.                *)
SharedFresh == Fresh /\ entry.promise # Nothing
Shared == (Fresh /\ entry.promise # Nothing) \/ (entry # Nothing /\ entry.promise # Nothing /\ entry.refreshing)
FromCache(c) ==
    /\ Asks(c) /\ ((Fresh /\ CanServe(entry)) \/ Shared)
    /\ IF CanServe(entry) THEN Serve(c) ELSE Join(c)
    /\ UNCHANGED <<entry, flying, alive, seen>>
StartProbe(c) ==
    /\ Asks(c) /\ ~Shared /\ ~(Fresh /\ CanServe(entry))
    /\ \E p \in Probes \ flying :
         /\ flying' = flying \cup {p}
         /\ entry' = [at |-> 0, promise |-> p, refreshing |-> TRUE,
                      valueAt |-> IF entry = Nothing THEN Nothing ELSE entry.valueAt,
                      value |-> IF entry = Nothing THEN Nothing ELSE entry.value]
         /\ IF CanServe(entry) THEN Serve(c)
            ELSE waits' = [waits EXCEPT ![c] = p] /\ UNCHANGED answer
    /\ UNCHANGED <<alive, seen>>

(* The callers that wait for p are told t, or get its error.               *)
Deliver(p, t) ==
    /\ answer' = [c \in Callers |-> IF waits[c] = p THEN t ELSE answer[c]]
    /\ waits' = [c \in Callers |-> IF waits[c] = p THEN Nothing ELSE waits[c]]
    /\ flying' = flying \ {p} /\ UNCHANGED alive

Current(p) == entry # Nothing /\ entry.promise = p
(* Mutant: the first value is kept.                                        *)
ProbeAnswersSticky(p) ==
    /\ p \in flying
    /\ LET v == IF alive THEN "up" ELSE "down"
           kept == IF Current(p) /\ entry.value # Nothing THEN entry.value ELSE v
       IN  /\ Deliver(p, [value |-> v, age |-> 0])
           /\ seen' = IF Current(p) THEN 0 ELSE seen
           /\ entry' = IF Current(p)
                       THEN [at |-> 0, valueAt |-> 0, value |-> kept, promise |-> p, refreshing |-> FALSE]
                       ELSE entry
ProbeAnswers(p) ==
    /\ p \in flying
    /\ LET v == IF alive THEN "up" ELSE "down"
       IN  /\ Deliver(p, [value |-> v, age |-> 0])
           /\ seen' = IF Current(p) THEN 0 ELSE seen
           /\ entry' = IF Current(p)
                       THEN [at |-> 0, valueAt |-> 0, value |-> v, promise |-> p, refreshing |-> FALSE]
                       ELSE entry
(* Mutant: the settled promise of a failed refresh is kept.                *)
ProbeThrowsKept(p) ==
    /\ p \in flying /\ UNCHANGED seen
    /\ IF CanServe(entry)
       THEN /\ Deliver(p, Told(entry.value))
            /\ entry' = [entry EXCEPT !.at = 0, !.refreshing = FALSE]
       ELSE /\ Deliver(p, [value |-> "error", age |-> 0])
            /\ entry' = IF Current(p) THEN Nothing ELSE entry
ProbeThrows(p) ==
    /\ p \in flying /\ UNCHANGED seen
    /\ IF CanServe(entry)
       THEN /\ Deliver(p, Told(entry.value))
            /\ entry' = [entry EXCEPT !.at = 0, !.promise = Nothing, !.refreshing = FALSE]
       ELSE /\ Deliver(p, [value |-> "error", age |-> 0])
            /\ entry' = IF Current(p) THEN Nothing ELSE entry

---------------------------------------------------------------------------
(* The caller has its answer; the service dies or returns; time passes.    *)
Done(c) ==
    /\ answer[c] # Nothing /\ answer' = [answer EXCEPT ![c] = Nothing]
    /\ UNCHANGED <<entry, flying, waits, alive, seen>>
Turn ==
    /\ alive' = ~alive /\ UNCHANGED <<entry, flying, waits, answer, seen>>
CacheTick ==
    /\ entry' = IF entry = Nothing THEN Nothing
                ELSE [entry EXCEPT !.at = Aged(@), !.valueAt = Aged(@)]
    /\ seen' = Aged(seen) /\ UNCHANGED <<flying, waits, answer, alive>>

CacheNext ==
    \/ \E c \in Callers : FromCache(c) \/ StartProbe(c) \/ Done(c)
    \/ \E p \in Probes : ProbeAnswers(p) \/ ProbeThrows(p)
    \/ Turn \/ CacheTick
(* A probe has a timeout of its own and the event loop runs what is due.   *)
CacheFairness ==
    /\ WF_cache(CacheTick) /\ \A c \in Callers : WF_cache(Done(c))
    /\ \A p \in Probes : WF_cache(ProbeAnswers(p) \/ ProbeThrows(p))
CacheSpec == CacheInit /\ [][CacheNext]_cache /\ CacheFairness

---------------------------------------------------------------------------
Answers == [value : {"up", "down", "error"}, age : 0..Old]

(* Every variable stays within its type.                                   *)
CacheTypeOK ==
    /\ entry \in Entries \cup {Nothing} /\ flying \subseteq Probes
    /\ waits \in [Callers -> Probes \cup {Nothing}] /\ answer \in [Callers -> Answers \cup {Nothing}]
    /\ alive \in BOOLEAN /\ seen \in 0..Old

(* However many ask, one probe is under way.                               *)
SingleFlight == \A p, q \in flying : p = q

(* No caller is told anything observed longer than MaxStale ago, whatever  *)
(* probes have failed since.                                               *)
NeverTooOld == \A c \in Callers : answer[c] # Nothing => answer[c].age <= MaxStale

(* A service that is gone for good is not reported reachable for ever.     *)
DeadIsReported ==
    <>[]~alive => <>[](\A c \in Callers : answer[c] = Nothing \/ answer[c].value # "up")
============================================================================
