# Jev Assist: TLA+ specifications and proofs

Jev Assist routes every Codex model call to one of four models. A loopback
service (`server/`) receives the call, asks an external classifier ("Jev") how
demanding the task is, selects a model by fixed rules, relays the call to a local
caller edge and keeps a record of what happened. On a workstation the same
decision can be fetched from a central service while the call itself is executed
locally. The caller edge is the repository's fork of a model router (`router/`),
which keeps provider cooldowns, retries upstream calls, switches ChatGPT accounts,
rotates its caller key and publishes the user's models.

This directory holds TLA+ models of the service and of the router's stateful
parts, one TLC configuration for each, and TLAPS proofs of the invariants that
matter most. `PROJECT.json` maps every definition to the lines it models and
lists the hazards, the runs, the mutant that each property must catch, and the
theorems.

## 1. Inventory

| Component | State it keeps | Operations | Hard behaviour | What makes it correct |
|---|---|---|---|---|
| Connection admission, `server/local_runtime.py` | a semaphore of 32 slots, one thread per connection | `process_request`, `process_request_thread`, `shutdown_request` | slot taken on one thread, released on another; thread start fails; peers that never close | slots are conserved, every slot comes back |
| `/v1/responses` handler and route leases, `server/jev_server.py` | `_route_leases`; per call: decision, source, served model | `classify`, `route_lease`, Jev, selection, `_forward`, `remember_route_lease` | lookup and store are locked separately with minutes in between; Jev or the edge fail | a reused decision belongs to the same turn, was completed, serves one tool; an error ends it |
| Routing policy, `server/routing_policy.py` | none | `decision_from_answers`, `select_model` | overlapping thresholds, unknown answers | monotone; uncertainty never makes a route cheaper |
| Local execution client and decision records, `server/local-client.mjs`, `server/dashboard.py` | per call: route, receipt, last event; the record table | route or registration, execution, `report`, `record`, retention | 4 s timeouts that race late answers; two locks per report | a record tells what was executed and is final |
| Streamed answers, `SummaryMarker` and `_forward` | the held delta, headers, the announced id | `feed`, `flush` | items side by side, blocks in between, a stream cut anywhere | order kept, nothing lost, the marks agree, one verdict |
| Router: failover, `router/src/model-failover.mjs`, `router.mjs` | a cooldown document shared by two processes | cooled start, transport retry, hops, record, clear | read-modify-write without a lock | windows are bounded by what was named; round trips are bounded |
| Router: upstream retry, `upstream-retry.mjs` | attempts, time spent | `fetchWithRetry` | the caller leaves at any await | no slow failure repeated, nothing done for nobody |
| Router: state lock, `atomic-state-lock.mjs` | a lock directory and its owner file | acquire, take over, release | owner dies between any two file operations | updates under it are atomic; no lock is left behind |
| Router: health cache, `health-cache.mjs` | one entry per key | `cachedProbe` | slow and failing probes | one probe, bounded age |
| Router: model overlay, `model-overlay-publication.mjs` | overlay, gateway and client files, running service | the transaction, its rollback, the lock | any step fails, a process dies | exact rollback; files agree unless a caller was warned |
| Router: profile switch, `chatgpt-profile-switch.mjs` | logins, state file, transaction directory, catalog, policy | select, poll, finalize, recover | crash between any two file operations; Codex and sign-ins write as well | one account everywhere, no login lost, switches settle |
| Router: caller key, `caller-key*.mjs` | secret and its generations, journal, clients, service | rotate, recover | crash or exception at any step, also in the recovery | everybody agrees on one key; an interrupted rotation ends |
| Router: login lease, key pool, service supervision | record files, a key document, child processes | | | not modelled, see section 6 |
| Cache affinity, prompt projection, observer, LAN gateway, private logs, configuration, reports, pages, protocol translation, desktop applications, vendored code | files or nothing | I/O, text, rendering | | not modelled, see section 6 |

How they interact: `LocalServer` runs one handler thread per admitted connection.
The `/v1/responses` handler calls the routing policy, shares the lease table with
the other handlers, and relays the edge's stream through `SummaryMarker`.
`local-client.mjs` calls `/v1/route` and `/v1/outcome`, whose handlers share the
record table. In the router, a turn goes through `fetchWithRetry` or the failover
loop; the router and its api-forwarder share the cooldown document. Key rotation,
model publication and profile switch are commands of the operator, each under a
lock of its own, that rewrite files the running service reads.

## 2. Modules

| Module | Models | MC module and configuration | Proofs |
|---|---|---|---|
| `LocalServer` | connection admission | `MCLocalServer`, `LocalServer.cfg` | `ServerProofs` |
| `RouteLease` | the `/v1/responses` handler | `MCRouteLease`, `RouteLease.cfg` | `RouteLeaseProofs` |
| `RoutingPolicy` | the selection rules | `MCRoutingPolicy`, `RoutingPolicy.cfg` | `ServerProofs` |
| `LocalExecution` | client, route and outcome handlers, records | `MCLocalExecution`, `LocalExecution.cfg` | `LocalExecutionProofs` |
| `SummaryMarker`, abstract `StreamRelay` | the streamed answer | `MCSummaryMarker`, `SummaryMarker.cfg` | `ServerProofs` |
| `Failover` | failover and cooldown windows | `MCFailover`, `Failover.cfg` | `FailoverProofs` |
| `UpstreamRetry` | `fetchWithRetry` | `MCUpstreamRetry`, `UpstreamRetry.cfg` | `FailoverProofs` |
| `StateLock`, abstract `AtomicUpdates` | the directory lock and its users | `MCStateLock`, `StateLock.cfg` | `StateLockProofs` |
| `HealthCache` | `cachedProbe` | `MCHealthCache`, `HealthCache.cfg` | `FailoverProofs` |
| `OverlayPublication` | the model-overlay transaction | `MCOverlayPublication`, `OverlayPublication.cfg` | `OverlayPublicationProofs` |
| `ProfileSwitch` | the account switch and its recovery | `MCProfileSwitch`, `ProfileSwitch.cfg` | `ProfileSwitchProofs` |
| `CallerKeyRotation` | key rotation and its recovery | `MCCallerKeyRotation`, `CallerKeyRotation.cfg` | `CallerKeyRotationProofs` |

`ServerProofs` and `FailoverProofs` extend three components each, the parts of the
loopback service and the parts of the router that a turn goes through. That is why the
definitions of `RoutingPolicy`, `SummaryMarker`, `UpstreamRetry` and `HealthCache` carry
the component in their names (`PolicyInit`, `MarkerNext`, `RetrySpec`, `CacheTypeOK`).

An operator introduced by a comment `Mutant:` is a plausible bug of the
definition that follows it. No specification uses it; it is there to show that
a property notices the bug.

**LocalServer.** `conn[c]` is the place of a connection in the code: in the backlog,
between `_slots.acquire` and the start of the thread (`admitted`), in the handler
(`serving`), in the drain loop (`draining`), between `close_request` and the release
(`closing`), or in `shutdown_request` called by the accept loop after a failed thread
start (`shedding`). `inbox`, `open` and `budget` describe the peer while it is drained.

**RouteLease.** One handler per thread, `pc[h]` its position, in the code's order:

| Action | Code |
|---|---|
| `Receive` | `do_POST` and the checks of the branch |
| `LookupHit`, `LookupMiss` | `classify` and `route_lease` (one critical section) |
| `UseClientModel`, `SwitchedOff`, `UseLease`, `AskJev`, `JevAnswers`, `TechnicalFallback` | the decision, with its source |
| `Select` | shadow switch, all-Sol cohort, final model |
| `UpstreamRefuses`, `StreamOpens`, `Relay`, `Abandon` | `_forward`: statuses, streamed and assembled answers, callers that hang up |
| `Remember`, `RememberNothing` | `remember_route_lease` (a second critical section) |

A request is what the handler reads of it: its scope, the fingerprint of its user
turn, the kind of its last item, the batch of tool results with their errors, the
model asked for and whether it streams. Whether a lease is past its TTL and whether
an operator's file is there are free choices. A decision carries, as history, its
number and what it was taken for. `barrier[s]` is history too: how many decisions had
been taken when the lease of scope `s` was last ended, and which of them calls still
under way held then (`flying`); `written` and `reused` likewise. No guard reads them.

**RoutingPolicy.** Six questions, each with a choice, an optional distribution and an
optional confidence, all validated before the rules decide. Probabilities are
hundredths: a sum of 99 to 101 is accepted; at 98 and 102 the rounding of the binary
floats decides, and `RoundedIn` holds the distributions it moves inwards. A behaviour is a series of
assessments that differ in one answer, so that monotonicity is an action property.

**LocalExecution.** Three processes per call: the client, the `/v1/route` handler and
the `/v1/outcome` handler. The client's timeouts fire at any time while the handler
goes on; every trace may fail, as storage errors are swallowed; `get_record` and
`record` are two steps with retention possible in between.

**SummaryMarker.** The upstream streams items of several parts side by side; an event
is one block and its text the set of parts it has text of. A mark is the tag that ends
a summary part or the header that begins a message part. `cur` and `place` say how far
the block in the buffer has come, so the stream can be cut between blocks, inside one,
or between its line and its blank line; `held` is the delta held back. `parted`, history,
names the parts whose last streamed delta was followed by a foreign block. A done event
may show text that no delta has shown; `lead`, history, says whether the first text of an
item came with a delta, with a done event, or with a done event that deltas followed. `view` is what
the caller has read. `StreamRelay` is the abstract relay: what was taken is given once
and in order, at most one event behind.

**Failover.** A turn asks models; a provider is its cooldown scope and may have several of
them (`ScopeOf`). A document entry is absent, expired, or has ticks left (entry minus one).
The router and the forwarder read and write the whole document in separate steps; time
passes between any two. A window is named by its date, which comes nearer while the answer
waits to be read, or by a delay, which `resetAt` counts from the reading (`dated`, `Unread`).
`named` is the longest window a provider has named. `tried` lists the models a turn has
asked, the transport retry and the resend of an empty completion (`Resend`) included. The
document starts as whatever earlier processes left.

**UpstreamRetry.** One request, a clock in ticks, and a caller who may leave at any
await, also during `discardBody`, whose abort the later `sleep` never hears (`hears`).

**StateLock.** Every file operation is a step: `mkdir`, the owner file, the read of the
owner, the two operations of a removal, read and write of the document. The owner file
may fail to be written because the directory is gone, or by itself. A directory
without owner becomes old by `Age`. `overtaken`, history, is set when a lock is created
while another process is still about to remove the path, or grows old before its owner
file was written. `AtomicUpdates` is what the users rely on: each change is one step.

**HealthCache.** One key, since keys do not interact. Instants are ages that saturate
at `Old`, older than any bound. `cachedProbe` is one step, as it has no await.

**OverlayPublication.** A process stands for the change it makes. The forward steps
(overlay, gateway, targets, reload) may fail, each restore step as well; files of
several parts may be left `Torn`. `committed`, `lost` and `doubt` are history: the last
change reported as made, and whether a crash or aggregate error, or a warning, came since.

**ProfileSwitch.** A login file is its account and a generation; `newest[a]` is the last
one issued. Every durable operation is a step, and a crash may come between any two; each
step of a removal may throw, also after the manifest is gone.
Codex starts, rotates its login and stops, sign-ins run under a lease, `codex login` is
used by hand. `later` says whose copy has the later mtime, which the code compares.
`raced`, `outside` and `torn` are history and name the states that the properties exempt.

**CallerKeyRotation.** Secrets are generations, named after the operation that made
them; the three files of an operation carry its id. Each file, journal, client and
service operation is a step that may throw (the catch blocks are the table `Handler`)
or be the last before a crash. The next command recovers first, as in the code.

## 3. Runs

| Run | Instance | Checks | Shows |
|---|---|---|---|
| `local_server` | 3 connections, 2 slots, 1 chunk sent while draining | `SlotsConserved`, `SlotComesBack` | no slot leaks or returns twice, also when a thread cannot be started; every admitted connection is let go, be it by its thread or by the accept loop |
| `route_lease` | 2 handlers, 3 calls of eight kinds, two turns, two tools, keyed and unkeyed scopes, verdicts for luna and astra, all four operator modes | `ReuseIsForTheSameTurn`, `LeaseNeedsCompletion`, `ChainKeepsItsTool`, `NeverBelowJudgement`, `EndedLeaseStaysEnded` | under every interleaving of lookup, call and store a reused route belongs to its turn and tool, and an ended lease does not come back to a later call |
| `routing_policy` | every score of every axis, `unknown` included, malformed answers | `UncertaintyNeverCheapens`, `RaisingDemandNeverLowersModel` | the rules are monotone and uncertainty has a floor |
| `local_execution` | 2 calls, room for 1 record | `OutcomeIsTheExecution`, `TerminalRecordIsFinal`, `CentralNeverHoldsACall` | records stay truthful and final; a call ends without any answer of the service |
| `summary_marker` | a summary and a message of 2 parts, text first shown by a delta or a done event, 1 comment | `MarksAgree`, `InOrder`, `OneVerdict` | nothing lost, repeated or reordered; one header, matching tags, one id, one end |
| `failover` | 1 turn, 4 models of 2 providers, a ranking that repeats models, 2 hops, 2 quota changes, any windows on disk | `WindowsAreNamed`, `RoundTripsBounded`, `TurnsEnd` | no lost update lengthens a window; a moved turn does not come back to what failed |
| `upstream_retry` | 2 retries, budget 5, attempts of 0 to 7 ticks | `OneSlowAttempt`, `NothingForNobody`, `Ends` | slow failures are not repeated, nothing is sent once the caller left, no body stays open |
| `state_lock` | 3 processes, 1 death, 1 pause | `NothingLeftBehind`, `Implements`, `EveryCallReturns` | until a lock is overtaken the lock implements `AtomicUpdates` |
| `health_cache` | 2 callers, 2 probes, TTL 2, MaxStale 3 | `SingleFlight`, `NeverTooOld`, `DeadIsReported` | bounded age whatever fails; a dead service is noticed |
| `overlay_publication` | 3 processes, 1 crash | `ExactRollback`, `Agree`, `LoadsPublished`, `AllEnd` | no rollback undoes another process's change |
| `profile_switch` | 2 accounts, 3 troubles in all | `Agreement`, `DurableEvidence`, `SwitchKeepsBoth`, `SettlesOrRefuses` | marker, catalog, login and policy name one account; no newest login is destroyed |
| `caller_key_rotation` | 2 clients, 2 rotations, 2 exceptions, 2 crashes | `TypeOK`, `Agreement`, `PreviousKept`, `ServiceComesBack`, `RecoversOrBlocked` | nothing pending means one key everywhere; the old one is never lost before the new one is verified |

Why the bounds are enough. Three connections on two slots reach the full house,
the refusal and a refusal that races a release. Two handlers give every order of
two lookups and two stores, and three calls the history decide, end, reuse with an
overlap; the theorems lift the results to any number. One record of room for two
calls makes retention remove a record in flight. A summary and a message are the
two kinds of item; two parts let a header move and a tag be parted; several messages are
left to the theorem. Four models of two providers give a turn candidates of its own and of the
other provider, and two hops go through a ranking that repeats them; one
turn is enough because turns meet in the
document only, and any document is an initial state. Attempts up to 7 ticks cross a
budget of 5 on both sides. Three processes are a dead owner and two that take its
lock over at once, and a fourth waiter only repeats one of them; `MaxWaits` 1 stands
for 80, since a waiter's state between two sleeps is the same. Ages saturate at
`Old`, so HealthCache's time is not bounded. Two crashes are one of an operation and
one of its recovery; three troubles in `ProfileSwitch` are a crash, Codex and a
sign-in at once. One login issued per account is too few for what mtimes can confuse:
that question was settled by the proof of `SwitchKeepsBoth`, whose invariant also
passes TLC with two logins and four troubles (16 million states, too many for the run
with its liveness property). `MaxCalls`, `SendBudget`, `MaxDeltas`, `MaxPings`, `MaxNamed`, `MaxChanges`,
`MaxAttempt`, `MaxWaits`, `MaxCrashes`, `MaxPauses`, `MaxIssued`, `MaxTroubles`, `MaxOps`
and `MaxFaults` are the bounds. `CHECK_DEADLOCK FALSE` is set where everything may be over.

Fairness:

* `LocalServer`: the steps of each connection's thread. Handlers end by their deadlines
  and `recv` by `close_grace`. Peers promise nothing but to stop sending at some point.
* `LocalExecution`: the client's own steps and its 4 s timers. Nothing is assumed of
  the central service, Jev or the backend.
* `Failover`: the writes a process has begun, the router's steps of each turn (every
  fetch has a timeout) and the clock.
* `UpstreamRetry`: the steps of the loop; an attempt ends by its own timeout.
* `StateLock`: every live process goes on; a dead one does not. Ageing is not fair.
* `HealthCache`: time, probes (each has a timeout) and callers that take their answer.
* `OverlayPublication`: live processes, and the lock library's staleness.
* `ProfileSwitch`: an operation that holds the locks goes on, Codex is closed and a
  sign-in ends in the end; strong fairness of `Poll` and of `Finalize`, because the account
  poll of `control.mjs` comes again and again but finds the locks taken at times.
* `CallerKeyRotation`: the process at work, and an operator who repeats an interrupted
  command, which is what the command's own message asks for.
* `RouteLease`, `RoutingPolicy`, `SummaryMarker`: none; only safety is claimed.

## 4. Where documents and code differ

Met while modelling. The properties above are stated as the code keeps them; their
exceptions (`flying`, `parted`, `Mixed`, `overtaken`, `torn`, `Stranded`, `outside`,
`DisplacedBlocks`) are these points.

* **A lease can come back after the error that ended it.** The answer is written before
  `remember_route_lease` stores the lease (`server/jev_server.py:1699`); a call with a tool
  error looked up in between finds nothing to end. `server/routing_policy.py:19` says an
  error ends the lease. In the model: `barrier.flying`.
* **A tool chain is compared by the last tool of a batch** (`server/jev_server.py:473`); the
  same line of the policy says same-tool continuations only.
* **The grace period of the drain has no total** (`server/local_runtime.py:159`): each `recv`
  starts it anew, so a peer that keeps sending keeps its slot. With
  `EndlessPeers = TRUE` TLC refutes `SlotComesBack`.
* **A summary's streamed text may lack its tag** (`server/jev_server.py:1155`, `:1253`): any
  block between its last delta and its done event flushes the delta untagged, where the
  docstring at `:1009` says the last delta is held back. In the model: `parted`.
* **A message may get two headers** (`server/jev_server.py:1083`, `:1172`): if a done event is
  the first to show its text, `_sign_done_block` signs the part without noting that the item
  has its header, so a later text delta of the item is given one too. In the model: `Mixed`.
* **A terminal event cut before its blank line** (`server/jev_server.py:1277`) leaves with
  its own id and is followed by an error event. With `"line"` among the `Cuts` the model
  contains this case; `OneVerdict` is about streams that end between two blocks.
* **A turn costs up to four extra round trips**: the transport retry
  (`router/src/router.mjs:4559`), two hops, and the resend of an empty completion (`:4992`);
  `model-failover.mjs:48` says two. `RoundTripsBounded` states four.
* **A window named as a delay starts when it is read** (`router/src/rate-limit-headers.mjs:26`,
  `:71`), after the body has been read by the router or passed on by the forwarder. It may
  outlast what the provider meant by as long as that took; `WindowsAreNamed` therefore counts
  a delay from the reading.
* **A cleared cooldown can be written back** by the other process
  (`router/src/model-failover.mjs:264`), although an answer is meant to clear it.
* **A backoff may be sat through** (`router/src/upstream-retry.mjs:136`): `sleep` does not look
  at `signal.aborted` before it listens. In the model: `hears`.
* **Two waiters can take over one lock** (`router/src/atomic-state-lock.mjs:89`): the removal is
  by path, so the slower one removes the faster one's new lock. In the model: `overtaken`.
* **A restore cut between its two renames blocks for good**
  (`router/src/caller-key-rotation.mjs:93`, `:103`), where the router's README calls an
  interrupted rotation recoverable. In the model: `DisplacedBlocks`.
* **The operator's newer running intent can be lost** (`router/src/caller-key.mjs:298`): it is
  a local of the recovering process. `ServiceComesBack` covers the journalled intent only.
* **Profile switch** (`router/src/chatgpt-profile-switch.mjs`): a crash inside the removal of a
  finished transaction leaves evidence that recovery refuses (`:475`, the second disjunct of
  `SettlesOrRefuses`); a rollback while Codex is open writes the marker anyway (`:1280`,
  `torn`); a sign-in of the active account forgets a pending selection while the policy keeps
  naming it (`:912`); selecting the account that is active installs its frozen copy over the
  live login (`:1190`, the exception in `SwitchKeepsBoth`).
* **A phase may be left without its transaction**
  (`router/src/chatgpt-profile-switch.mjs:135`, `:1234`): when the removal of a transaction throws
  after its manifest is gone, the catch of `applyLocked` writes phase `backed-up` all the same,
  and every later recovery refuses. In the model: `Stranded`, the exception in `DurableEvidence`.
* **A rollback makes an old login look new** (`router/src/chatgpt-profile-switch.mjs:508`): the
  saved login is copied back and gets a new mtime, by which `syncAuthProfile` (`:675`) later
  decides. If account B is signed in by hand with `codex login`, then signed in again in the
  router while the marker still names A, its lease is cleared without an install (`:914`); a
  switch to A that is rolled back restores B's older login, and the next switch copies it over
  B's newer one. `SwitchKeepsBoth` therefore leaves out logins by hand (`outside`); without
  that condition TLC refutes it with `MaxIssued = 2`, in a trace of 32 states.
* **Overlapping hooks** can leave an older snapshot in place (`server/observer.mjs:47`); not modelled.

## 5. Proofs

All theorems hold for every value of the constants that satisfies the module's
assumption. An assumption only says what the constants are: sets that are finite where
they are counted, naturals where they are bounds, `None` and `Nothing` outside the sets
they are told apart from, and, in `HealthCache`, a TTL not above `MaxStale`. Of a ranking
`Failover` only assumes that it names nothing but the models it ranks: a chain set by the
operator is used verbatim and may repeat them. Two assumptions need a word. `UpstreamRetry`
states that `Delay(n)` is a natural, since the prover has no facts about `a^n` with a
variable exponent. `SummaryMarker` assumes nothing of `Cuts`; the one theorem that
needs a condition on it names it as a hypothesis.

An invariant the runs check is seldom inductive: it speaks of the states in which an
operation is over, and the proof needs what holds at every step before. Each invariant
below was checked by TLC before it was proved.

* `ServerProofs`, on `LocalServer`: `SlotsAreConserved`, `ServerTypes`, `RefusalNeedsFullHouse`.
  The inductive invariant is the type invariant with the conservation equation; each
  action changes the set of holders by at most one connection and the semaphore by as
  much. A refusal happens with `slots = 0`, hence with every slot held.
* `ServerProofs`, on `RoutingPolicy`: `RulesAreMonotone`, `UncertaintyHasAFloor`, from lemmas
  about `select_model` over all scores.
* `ServerProofs`, on `SummaryMarker`: `MarkerRefines`, the refinement of `StreamRelay`, for
  all three cuts (`RelayInv`: what has been written is all that was taken, but for the held
  event); `MarksStayInStep` and `EndsOnce`, for any items, parts and deltas. `MarkInv` says of
  each item how far the upstream is with it (`UpInv`) and what the block in the buffer may
  be (`EventInv`); that the header stands on the first part with text, and only there, be it
  a delta or a done event that shows it (`HeaderInv`, `HeaderAt`, `HeaderShown`);
  that the held delta is of the part its item is at, and that every
  streamed summary part is tagged, parted or held (`HeldInv`, `TagShown`); and which ids and ends
  the caller has seen (`VerdictInv`). `MarksStayInStep` has the hypothesis `"line" \notin Cuts`:
  a block cut between its line and its blank line is flushed as it came, unmarked (section
  4), and with `"line"` TLC refutes `MarksAgree`. `EndsOnce` holds for any cuts.
* `RouteLeaseProofs`: `TypeCorrect`, `ReuseMatchesTurn`, `LeaseAfterCompletion`,
  `EndedStaysEnded`, `ChainHasOneTool`, `ServedAsJudged`. A decision travels from a handler
  into the table and from there into another handler, so `ReuseInv` says the same of both
  places (`EntryOK`, `CallOK`). `EndedInv` says that entries and calls hold only decisions that
  are younger than the barrier of their scope or were flying when it was set. For the
  chain, `NumbersOK` says that a number stands for one decision, and `ToolsOK` that a reused
  entry is pinned to the tool it was reused for, and that a call about to store the decision
  again would pin it to the same; that is why a slow store does no harm. `JudgementInv`
  relates the served model to the source of the decision; with `ReuseInv`, a call served
  below astra rests on a judgement of its own session and turn.
* `LocalExecutionProofs`: `RecordsAreTruthful`, `RecordsAreFinal`, `TypeCorrect`. `ExecutionInv`
  joins what the client knows, what the route handler can still do (a call with a receipt
  has an answered handler) and what a record says.
* `StateLockProofs`: `TypeCorrect`, `NoLockLeft`, `LockRefines`. `LeftInv`: while there is a
  directory, somebody is bound to remove it or has died. `SoundInv`: unless a lock was
  overtaken, at most one process is between `mkdir` and its removal and nobody takes over
  meanwhile (`MutexInv`), and what it has read is the document (`CopyInv`); so its write is
  one atomic update.
* `FailoverProofs`, on `Failover`: `FailoverTypes`, `NoWindowIsInvented`, `TurnsAreBounded`.
  `FailoverInv` says of every document under way, the router's and the forwarder's copy and the
  one on disk, that its windows are at most what was named, so that whichever is written
  last does no harm; of every window still to be read that it is at most what was named, a
  delay holding `named` still until then; and of every turn that what it has tried fits the
  hops it has left, and that these are away from what failed. Time only shrinks windows.
* `FailoverProofs`, on `UpstreamRetry`: `SlowAttemptIsLast`, `NothingForNobodyHolds`. `RetryInv`:
  every attempt but the last was quick (`QuickInv`), and while the loop waits to try again
  what was spent is below the budget (`SpentInv`).
* `FailoverProofs`, on `HealthCache`: `CacheTypes`, `OneProbeAtATime`, `StaleBound`. `OneProbe`: a
  probe under way is the entry's; `TrueAge`: the entry's age is that of the last answer, and a
  settled promise that is kept was answered when the entry was made.
* `CallerKeyRotationProofs`: `RotationTypes`, `CapabilitiesAgree`, `OldGenerationKept`,
  `RouterRunsAgain`, for any number of clients, rotations, exceptions and crashes. `KeyInv`: which
  files an operation can have left (`FilesInv`), what holds with no journal (`ClosedInv`) and
  with one (`OpenInv`), and, per step, what the recovery and the rotation have already
  restored, swapped and refreshed (`RecoveryInv`, `RotationInv`). A crash forgets the step and
  keeps the journal, so `OpenInv` is what the recovery starts from.
* `ProfileSwitchProofs`: `SwitchTypes`, `EvidenceIsDurable`, `AccountsAgree`, `LoginsSurvive`, for any
  accounts, logins and troubles. `SwitchInv`: what the operation has decided (`OpInv`); the phase
  against the transaction on disk (`EvidenceInv`), and what a removal that failed past its
  manifest has left of it (`Leftover`); whose login, catalog and marker these are at
  each step (`AccountInv`); the policy against the marker (`PolicyInv`). `KeepInv` adds the
  generations: Codex is closed while a transaction exists (`BoundInv`), every login about to be
  overwritten or removed has another copy (`CopyInv`), a login is behind the account's own copy
  only while a sign-in is to be finalized (`LeaseInv`), and that lease goes once the login is in
  place (`FinalInv`). With these, the comparison of mtimes picks the newer login.
* `OverlayPublicationProofs`: `TypeCorrect`, `RollbackIsExact`, `FilesAgree`,
  `OnlyPublishedIsLoaded`. `SnapInv`: the process at work has snapped the last change made;
  `PhaseInv`: each phase finds what the ones before have left; `SettledInv`: the claim between
  transactions.

Only model-checked: liveness (`SlotComesBack`, `CentralNeverHoldsACall`, `TurnsEnd`, `Ends`,
`EveryCallReturns`, `DeadIsReported`, `AllEnd`, `SettlesOrRefuses`, `RecoversOrBlocked`), which is
beyond the proof system used. Every other property of the runs is also a theorem. The type
invariants are proved rather than run, but for that of `CallerKeyRotation`, which is both, and
that of `RoutingPolicy`, which documents the state and holds on the configured instance when it
is added to the configuration.

## 6. Not modelled, and what comes next

The repository has some 140,000 lines of code, nearly all in the router.
Most of them translate protocols and payloads, build
catalogs and configuration text, render pages and desktop windows, or run one-shot
installers: functions without state that steps of several actors share. A model of them would
repeat the code, so the specifications cover the parts that keep state across steps,
processes or crashes, which are a small share of the lines.

* Cache affinity: advisory evidence that no document promises anything of.
* `assemble_sse`, prompt projection, the classification of response bodies: pure text.
* Observer: one statement per hook; see section 4.
* LAN gateway: stateless; in `LocalExecution` it is the connection that either side may lose.
* Private logs: sequential under one lock; a crash after the rename is repaired by the next append.
* Login lease: a value per account in `ProfileSwitch`; its record files are not modelled.
* Service supervision: the service is running with one configuration, or stopped.
* Provider key pool: inside what `Failover` takes as one provider.
* Configuration scripts, reports, pages, desktop applications, vendored code: I/O and rendering.

Next: the refinement of an atomic account switch and of an atomic key rotation, stated as
abstract specifications and proved from `SwitchInv` and `KeyInv`; then the login lease's record
files as a module of their own that `ProfileSwitch` is composed with.
