------------------------- MODULE CallerKeyRotation -------------------------
(***************************************************************************)
(* Rotation of the router's caller capability and the recovery of an       *)
(* interrupted one: src/router/src/caller-key.mjs with the file exchange   *)
(* of caller-key-rotation.mjs and the journal of                           *)
(* caller-key-rotation-journal.mjs.                                        *)
(*                                                                         *)
(* One process at a time holds the rotation, overlay, login and service    *)
(* locks; it is a program counter pc.  It can die between any two file or  *)
(* service operations (Crash): files, journal, clients and service survive *)
(* it, its locals do not.  Any fallible operation can also throw (Fault).  *)
(* Secrets are generations: operation o writes generation o, 0 is the one  *)
(* installed first.  The three files a rotation owns carry its operation   *)
(* id in their names: files[o].                                            *)
(***************************************************************************)
EXTENDS Naturals

CONSTANTS Targets,      \* managed client integrations
          MaxOps,       \* rotations begun
          MaxFaults,    \* operations that throw
          MaxCrashes,   \* deaths of the rotating process
          None          \* an absent file, journal, client or service

Ops == 1..MaxOps
Gens == 0..MaxOps
Phases == {"prepared", "service-stopped", "secret-swapped", "clients-refreshed",
           "service-started", "verified"}
Journals == [op : Ops, phase : Phases, targets : SUBSET Targets, was : BOOLEAN,
             prev : Gens, cur : Gens \cup {None}]
Generations == Gens \cup {None}

ASSUME RotationAssumption ==
    /\ MaxOps \in Nat /\ MaxFaults \in Nat /\ MaxCrashes \in Nat
    /\ None \notin Nat /\ None \notin Journals

VARIABLES live,       \* generation in the caller-secret file
          files,      \* per operation: rotate-new, rotate-rollback, rotate-displaced
          journal,    \* caller-key-rotation.json
          clients,    \* generation each installed client is configured with
          service,    \* generation the running router loaded, None when stopped
          pc,         \* next operation of the rotating process, "idle" without one
          pending,    \* recovery precedes a rotation (else it follows a failed one)
          left,       \* clients still to refresh
          shouldRun,  \* the service is to be started at the end
          wanted,     \* history: who has the service running, see Intents
          nextOp, faults, crashes

disk == <<live, files>>
locals == <<pending, left, shouldRun>>
counts == <<nextOp, faults, crashes>>
vars == <<live, files, journal, clients, service, pc, locals, wanted, counts>>

NoFiles == [new |-> None, rollback |-> None, displaced |-> None]
PostSwapPhases == {"secret-swapped", "clients-refreshed", "service-started", "verified"}
Installed == {t \in Targets : clients[t] # None}
Op == journal.op

(* The service was running when no rotation was pending, or the operator   *)
(* started it while one was; "down" when the operator stopped it.          *)
Intents == {"before", "after", "down"}

RecoverySteps == {"rec.read", "rec.stop", "res.displace", "res.swap", "res.unlink",
                  "undo.rollback", "undo.displaced", "rec.refresh", "rec.start",
                  "rec.verify", "rec.discard", "rec.clear"}
SwapSteps == {"swap.write", "swap.rollback", "swap.live", "swap.done",
              "swap.drop", "swap.restore"}
RotationSteps == {"rot.begin", "rot.stop", "rot.stopped", "rot.swapped", "rot.refresh",
                  "rot.refreshed", "rot.start", "rot.started", "rot.verify",
                  "rot.verified", "rot.discard", "rot.clear"}

(* Where an exception thrown at step p lands: the catch blocks of swap, of *)
(* restore, of the rotation, and for the rest the end of the process.      *)
Handler(p) ==
    CASE p = "swap.live" -> "swap.restore"
      [] p = "swap.done" -> "swap.drop"
      [] p = "res.swap" -> "undo.displaced"
      [] p = "res.unlink" -> "undo.rollback"
      [] p = "rot.begin" \/ (p \in RecoverySteps \ {"res.swap", "res.unlink"}) -> "idle"
      [] OTHER -> "rec.read"

Init ==
    /\ live = 0 /\ files = [o \in Ops |-> NoFiles] /\ journal = None
    /\ clients \in [Targets -> {0, None}] /\ service \in {0, None}
    /\ wanted = IF service # None THEN "before" ELSE "down"
    /\ pc = "idle" /\ pending = FALSE /\ left = {} /\ shouldRun = FALSE
    /\ nextOp = 1 /\ faults = 0 /\ crashes = 0

At(p, q) == pc = p /\ pc' = q

(* A managed service start: start.mjs refuses without a caller secret.     *)
StartService == live # None /\ service' = live

(* The operator's own service commands, serialised by the service lock.    *)
OperatorStart ==
    /\ pc = "idle" /\ service = None /\ StartService
    /\ wanted' = IF journal = None \/ wanted = "before" THEN "before" ELSE "after"
    /\ UNCHANGED <<disk, journal, clients, pc, locals, counts>>
OperatorStop ==
    /\ pc = "idle" /\ service # None /\ service' = None /\ wanted' = "down"
    /\ UNCHANGED <<disk, journal, clients, pc, locals, counts>>

(* caller-key rotate: the locks are taken, a pending rotation is recovered *)
(* first.                                                                  *)
Rotate ==
    /\ At("idle", "rec.read") /\ pending' = TRUE
    /\ UNCHANGED <<disk, journal, clients, service, left, shouldRun, wanted, counts>>

---------------------------------------------------------------------------
(* recoverPendingCallerKeyRotationUnlocked *)

RecoveryDone == IF pending THEN "rot.begin" ELSE "idle"

\* Mutant: a rotation that moved nothing yet has no rollback file to prove.
RollbackProvenByFile == files[Op].rollback = journal.prev
(* The generation recovery would go back to: the rollback file, or the     *)
(* live secret when nothing was moved; it must be the journal's.           *)
RollbackProven ==
    LET rollback == files[Op].rollback
    IN (IF rollback # None THEN rollback ELSE live) = journal.prev

RecoverNothing ==
    /\ journal = None /\ At("rec.read", RecoveryDone)
    /\ UNCHANGED <<disk, journal, clients, service, locals, wanted, counts>>
(* Without the generation that it expects, recovery throws and changes     *)
(* nothing.                                                                *)
RecoverVerified ==
    /\ journal # None /\ journal.phase = "verified"
    /\ At("rec.read", IF live = journal.cur THEN "rec.discard" ELSE "idle")
    /\ UNCHANGED <<disk, journal, clients, service, locals, wanted, counts>>
\* Mutant: only a service seen running is started again.
RecoverPrepareForgets ==
    /\ journal # None /\ journal.phase # "verified"
    /\ At("rec.read", IF RollbackProven THEN "rec.stop" ELSE "idle")
    /\ shouldRun' = (service # None)
    /\ UNCHANGED <<disk, journal, clients, service, pending, left, wanted, counts>>
RecoverPrepare ==
    /\ journal # None /\ journal.phase # "verified"
    /\ At("rec.read", IF RollbackProven THEN "rec.stop" ELSE "idle")
    /\ shouldRun' = (journal.was \/ service # None)
    /\ UNCHANGED <<disk, journal, clients, service, pending, left, wanted, counts>>
RecoverStop ==
    /\ pc = "rec.stop" /\ service' = None
    /\ \/ files[Op].rollback # None /\ pc' = "res.displace" /\ left' = left
       \/ files[Op].rollback = None /\ pc' = "rec.refresh" /\ left' = journal.targets
    /\ UNCHANGED <<disk, journal, clients, pending, shouldRun, wanted, counts>>

(* restoreCallerCapability: the live file moves aside, the rollback        *)
(* generation takes its place, the displaced one is deleted; an exception  *)
(* moves both back.                                                        *)
RestoreRefuse ==
    /\ At("res.displace", "idle") /\ files[Op].displaced # None
    /\ UNCHANGED <<disk, journal, clients, service, locals, wanted, counts>>
RestoreDisplace ==
    /\ At("res.displace", "res.swap") /\ files[Op].displaced = None
    /\ files' = [files EXCEPT ![Op].displaced = live] /\ live' = None
    /\ UNCHANGED <<journal, clients, service, locals, wanted, counts>>
RestoreSwap ==
    /\ At("res.swap", "res.unlink")
    /\ live' = files[Op].rollback /\ files' = [files EXCEPT ![Op].rollback = None]
    /\ UNCHANGED <<journal, clients, service, locals, wanted, counts>>
\* Mutant: recovery does not refresh the clients after a restore.
RestoreUnlinkOnly ==
    /\ At("res.unlink", "rec.refresh") /\ left' = {}
    /\ files' = [files EXCEPT ![Op].displaced = None]
    /\ UNCHANGED <<live, journal, clients, service, pending, shouldRun, wanted, counts>>
RestoreUnlink ==
    /\ At("res.unlink", "rec.refresh")
    /\ files' = [files EXCEPT ![Op].displaced = None] /\ left' = journal.targets
    /\ UNCHANGED <<live, journal, clients, service, pending, shouldRun, wanted, counts>>
\* Mutant: the displaced file goes back over the live one first.
UndoRollbackLate ==
    /\ At("undo.rollback", "undo.displaced") /\ live' = None
    /\ UNCHANGED <<files, journal, clients, service, locals, wanted, counts>>
UndoRollback ==
    /\ At("undo.rollback", "undo.displaced")
    /\ files' = [files EXCEPT ![Op].rollback = live] /\ live' = None
    /\ UNCHANGED <<journal, clients, service, locals, wanted, counts>>
UndoDisplaced ==
    /\ At("undo.displaced", "idle")
    /\ live' = files[Op].displaced /\ files' = [files EXCEPT ![Op].displaced = None]
    /\ UNCHANGED <<journal, clients, service, locals, wanted, counts>>

(* refreshTargets: the client's capability-refresh command rewrites its    *)
(* caller URL from the live secret.                                        *)
Refresh(t) ==
    /\ pc \in {"rec.refresh", "rot.refresh"} /\ t \in left /\ live # None
    /\ clients' = [clients EXCEPT ![t] = live] /\ left' = left \ {t}
    /\ UNCHANGED <<disk, journal, service, pc, pending, shouldRun, wanted, counts>>
Refreshed ==
    /\ left = {} /\ left' = left
    /\ \/ At("rec.refresh", IF shouldRun THEN "rec.start" ELSE "rec.discard")
       \/ At("rot.refresh", "rot.refreshed")
    /\ UNCHANGED <<disk, journal, clients, service, pending, shouldRun, wanted, counts>>
RecoverStart ==
    /\ At("rec.start", "rec.verify") /\ StartService
    /\ UNCHANGED <<disk, journal, clients, locals, wanted, counts>>
(* verifyCallerRotation, verifyCurrentCallerCapability: the router answers *)
(* the live key and no other.                                              *)
RecoverVerify ==
    /\ At("rec.verify", "rec.discard") /\ service = live
    /\ UNCHANGED <<disk, journal, clients, service, locals, wanted, counts>>

(* discardCallerCapabilityBackup, clearCallerKeyRotationJournal, of the    *)
(* recovery and of finalizeCallerKeyRotation.                              *)
Discard ==
    /\ At("rec.discard", "rec.clear") \/ At("rot.discard", "rot.clear")
    /\ files' = [files EXCEPT ![Op].rollback = None]
    /\ UNCHANGED <<live, journal, clients, service, locals, wanted, counts>>
Clear ==
    /\ At("rec.clear", RecoveryDone) \/ At("rot.clear", "idle")
    /\ journal' = None
    /\ UNCHANGED <<disk, clients, service, locals, wanted, counts>>

---------------------------------------------------------------------------
(* runCallerKeyRotation *)

(* installedTargetsFromStatus refuses a client in a partial state; a       *)
(* missing live secret is refused too.                                     *)
RotateRefuse ==
    /\ At("rot.begin", "idle")
    /\ UNCHANGED <<disk, journal, clients, service, locals, wanted, counts>>
BeginJournal ==
    /\ At("rot.begin", IF service # None THEN "rot.stop" ELSE "swap.write")
    /\ nextOp <= MaxOps /\ nextOp' = nextOp + 1 /\ live # None
    /\ journal' = [op |-> nextOp, phase |-> "prepared", targets |-> Installed,
                   was |-> service # None, prev |-> live, cur |-> None]
    /\ wanted' = IF service # None THEN "before" ELSE wanted
    /\ UNCHANGED <<disk, clients, service, locals, faults, crashes>>
RotateStop ==
    /\ At("rot.stop", "rot.stopped") /\ service' = None
    /\ UNCHANGED <<disk, journal, clients, locals, wanted, counts>>

(* updateCallerKeyRotationJournal: only along TRANSITIONS.                 *)
Transitions ==
    {<<"prepared", "service-stopped">>, <<"prepared", "secret-swapped">>,
     <<"service-stopped", "secret-swapped">>, <<"secret-swapped", "clients-refreshed">>,
     <<"clients-refreshed", "service-started">>, <<"clients-refreshed", "verified">>,
     <<"service-started", "verified">>}
\* Mutant: the digest of the new generation is not patched in.
AdvanceUnpatched(p, q, phase) ==
    /\ At(p, q) /\ <<journal.phase, phase>> \in Transitions
    /\ journal' = [journal EXCEPT !.phase = phase]
Advance(p, q, phase) ==
    /\ At(p, q) /\ <<journal.phase, phase>> \in Transitions
    /\ journal' = [journal EXCEPT !.phase = phase,
                                  !.cur = IF phase = "secret-swapped" THEN live ELSE @]

MarkStopped ==
    /\ Advance("rot.stopped", "swap.write", "service-stopped")
    /\ UNCHANGED <<disk, clients, service, locals, wanted, counts>>
MarkSwapped ==
    /\ Advance("rot.swapped", "rot.refresh", "secret-swapped") /\ left' = journal.targets
    /\ UNCHANGED <<disk, clients, service, pending, shouldRun, wanted, counts>>
MarkRefreshed ==
    /\ Advance("rot.refreshed", IF journal.was THEN "rot.start" ELSE "rot.verified",
               "clients-refreshed")
    /\ UNCHANGED <<disk, clients, service, locals, wanted, counts>>
RotateStart ==
    /\ At("rot.start", "rot.started") /\ StartService
    /\ UNCHANGED <<disk, journal, clients, locals, wanted, counts>>
MarkStarted ==
    /\ Advance("rot.started", "rot.verify", "service-started")
    /\ UNCHANGED <<disk, clients, service, locals, wanted, counts>>
RotateVerify ==
    /\ At("rot.verify", "rot.verified") /\ service = journal.cur
    /\ UNCHANGED <<disk, journal, clients, service, locals, wanted, counts>>
MarkVerified ==
    /\ Advance("rot.verified", "rot.discard", "verified")
    /\ UNCHANGED <<disk, clients, service, locals, wanted, counts>>

(* swapCallerCapability: new generation beside the live one, live one to   *)
(* the rollback name, new one to the live name; the catch block undoes it. *)
SwapWrite ==
    /\ At("swap.write", "swap.rollback")
    /\ files[Op].new = None /\ files[Op].rollback = None
    /\ files' = [files EXCEPT ![Op].new = Op]
    /\ UNCHANGED <<live, journal, clients, service, locals, wanted, counts>>
SwapRollback ==
    /\ At("swap.rollback", "swap.live")
    /\ files' = [files EXCEPT ![Op].rollback = live] /\ live' = None
    /\ UNCHANGED <<journal, clients, service, locals, wanted, counts>>
SwapLive ==
    /\ At("swap.live", "swap.done")
    /\ live' = files[Op].new /\ files' = [files EXCEPT ![Op].new = None]
    /\ UNCHANGED <<journal, clients, service, locals, wanted, counts>>
SwapDone ==
    /\ At("swap.done", "rot.swapped")
    /\ UNCHANGED <<disk, journal, clients, service, locals, wanted, counts>>
SwapDrop ==
    /\ At("swap.drop", "swap.restore") /\ live' = None
    /\ UNCHANGED <<files, journal, clients, service, locals, wanted, counts>>
SwapRestore ==
    /\ At("swap.restore", "rec.read") /\ pending' = FALSE
    /\ live' = files[Op].rollback
    /\ files' = [files EXCEPT ![Op].rollback = None, ![Op].new = None]
    /\ UNCHANGED <<journal, clients, service, left, shouldRun, wanted, counts>>

---------------------------------------------------------------------------
(* Step pc throws.  Its own effect is missing, or is complete and the      *)
(* exception belongs to the step after it.  The finally of swap removes    *)
(* the new generation when no catch block of swap runs.                    *)
Fault ==
    /\ pc # "idle" /\ faults < MaxFaults /\ faults' = faults + 1
    /\ pc' = Handler(pc)
    /\ pending' = (pending /\ pc' # "rec.read")
    /\ files' = IF pc \in SwapSteps /\ pc' = "rec.read"
                  THEN [files EXCEPT ![Op].new = None] ELSE files
    /\ UNCHANGED <<live, journal, clients, service, left, shouldRun, wanted, nextOp, crashes>>
Crash ==
    /\ pc # "idle" /\ crashes < MaxCrashes /\ crashes' = crashes + 1
    /\ pc' = "idle" /\ pending' = FALSE /\ left' = {} /\ shouldRun' = FALSE
    /\ UNCHANGED <<disk, journal, clients, service, wanted, nextOp, faults>>

Recover ==
    \/ RecoverNothing \/ RecoverVerified \/ RecoverPrepare \/ RecoverStop
    \/ RestoreRefuse \/ RestoreDisplace \/ RestoreSwap \/ RestoreUnlink
    \/ UndoRollback \/ UndoDisplaced \/ RecoverStart \/ RecoverVerify
Swap == SwapWrite \/ SwapRollback \/ SwapLive \/ SwapDone \/ SwapDrop \/ SwapRestore
Mark == MarkStopped \/ MarkSwapped \/ MarkRefreshed \/ MarkStarted \/ MarkVerified
Work ==
    \/ Recover \/ Swap \/ Mark \/ RotateRefuse \/ BeginJournal \/ RotateStop \/ RotateStart
    \/ RotateVerify \/ Refreshed \/ Discard \/ Clear
    \/ \E t \in Targets : Refresh(t)

Next == OperatorStart \/ OperatorStop \/ Rotate \/ Work \/ Fault \/ Crash

(* The process runs on, and an operator with a pending rotation runs the   *)
(* command again.                                                          *)
Fairness == WF_vars(Work) /\ WF_vars(Rotate /\ journal # None)
Spec == Init /\ [][Next]_vars /\ Fairness

---------------------------------------------------------------------------
(* Types; a journal past the swap names the new generation (validJournal). *)
TypeOK ==
    /\ live \in Generations /\ clients \in [Targets -> Generations]
    /\ service \in Generations
    /\ files \in [Ops -> [new : Generations, rollback : Generations, displaced : Generations]]
    /\ journal \in Journals \cup {None}
    /\ journal # None => ((journal.cur # None) <=> (journal.phase \in PostSwapPhases))
    /\ pc \in {"idle"} \cup RecoverySteps \cup SwapSteps \cup RotationSteps
    /\ pending \in BOOLEAN /\ left \in SUBSET Targets
    /\ shouldRun \in BOOLEAN /\ wanted \in Intents
    /\ nextOp \in 1..(MaxOps + 1) /\ faults \in 0..MaxFaults /\ crashes \in 0..MaxCrashes

Settled == pc = "idle" /\ journal = None

(* Whatever crashed or threw on the way, once no rotation is pending the   *)
(* secret file, every installed client and the running router agree on one *)
(* capability, and no copy of another generation waits to be restored; a   *)
(* journal says "verified" only when that generation is the one in use.    *)
Agreement ==
    /\ Settled => /\ live # None /\ service \in {live, None}
                  /\ \A t \in Installed : clients[t] = live
                  /\ \A o \in Ops : files[o].rollback = None
    /\ journal # None /\ journal.phase = "verified"
          => /\ live = journal.cur /\ service \in {live, None}
             /\ \A t \in journal.targets : clients[t] = live

(* Until a rotation is verified the generation to go back to is on disk,   *)
(* as the live secret or as the rollback file of the journal's operation:  *)
(* no crash, exception or second recovery destroys it.                     *)
PreviousKept ==
    journal # None /\ journal.phase # "verified"
        => journal.prev \in {live, files[Op].rollback}

(* A router that was running before the rotation runs again when nothing   *)
(* is pending, whatever stopped, crashed or failed in between.             *)
ServiceComesBack == Settled /\ wanted = "before" => service # None

(* A displaced live secret beside the rollback file: restore refuses it.   *)
DisplacedBlocks ==
    journal # None /\ files[Op].displaced # None /\ files[Op].rollback # None

(* Repeating the command ends every interrupted rotation, except one whose *)
(* recovery was itself cut between the two renames of the restore: there a *)
(* command has ended and left both files behind.                           *)
RecoversOrBlocked == journal # None ~> (journal = None \/ (pc = "idle" /\ DisplacedBlocks))
===========================================================================
