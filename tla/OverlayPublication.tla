------------------------- MODULE OverlayPublication -------------------------
(***************************************************************************)
(* A change of the user's models, its publication to the gateway and the   *)
(* clients, the reload of the service, and the rollback of all of it:      *)
(* transactModelOverlayMutation in                                         *)
(* src/router/src/model-overlay-publication.mjs, under the lock of         *)
(* src/router/src/model-overlay-lock.mjs.                                  *)
(*                                                                         *)
(* A process stands for the change it makes.  Deadlines and signals end    *)
(* the forward phase at any step and never the rollback; a rollback step   *)
(* may fail by itself.  Files of several parts may be left Torn.           *)
(***************************************************************************)
EXTENDS Naturals

CONSTANTS Procs, None, Torn, First, MaxCrashes

ASSUME OverlayAssumption ==
    /\ None \notin Procs /\ Torn \notin Procs /\ First \notin Procs /\ First # Torn
    /\ MaxCrashes \in Nat

VARIABLES overlay, gateway, targets,    \* the files
          running,                      \* what the service has loaded
          holder,                       \* of the model-overlay lock
          proc, crashes,
          committed,    \* the last change that its caller was told of as made (history)
          lost,         \* a crash or an AggregateError has come since (history)
          doubt         \* so has a warning (history)

vars == <<overlay, gateway, targets, running, holder, proc, crashes, committed, lost, doubt>>
files == <<overlay, gateway, targets>>
history == <<committed, lost, doubt>>
Values == Procs \cup {First, Torn}

Busy == {"idle", "wait", "mutate", "gateway", "targets", "reload", "restore"}
Over == {"made", "warned", "threw", "aggregate", "dead"}
Idle == [pc |-> "idle", restart |-> FALSE, warningOnly |-> FALSE, snap |-> None, back |-> FALSE]
Init ==
    /\ overlay = First /\ gateway = First /\ targets = First /\ running = First
    /\ holder = None /\ proc = [p \in Procs |-> Idle] /\ crashes = 0
    /\ committed = First /\ lost = FALSE /\ doubt = FALSE

Go(p, to) == proc' = [proc EXCEPT ![p] = IF to \in Over THEN [Idle EXCEPT !.pc = to]
                                                       ELSE [@ EXCEPT !.pc = to]]

---------------------------------------------------------------------------
(* withModelOverlayLock: the lock is waited for, or the wait times out;    *)
(* the files are captured under it.                                        *)
Begin(p) ==
    /\ proc[p].pc = "idle"
    /\ \E r, w \in BOOLEAN :
         proc' = [proc EXCEPT ![p] = [Idle EXCEPT !.pc = "wait", !.restart = r, !.warningOnly = w]]
    /\ UNCHANGED <<files, running, holder, crashes, history>>
Acquire(p) ==
    /\ proc[p].pc = "wait" /\ holder = None /\ holder' = p
    /\ proc' = [proc EXCEPT ![p].pc = "mutate", ![p].snap = overlay]
    /\ UNCHANGED <<files, running, crashes, history>>
Locked(p) ==
    /\ proc[p].pc = "wait" /\ Go(p, "threw")
    /\ UNCHANGED <<files, running, holder, crashes, history>>
(* The lock is released, or left to go stale if that fails, and the caller *)
(* told how it ended.                                                      *)
End(p, how) ==
    /\ holder' \in {None, p} /\ Go(p, how)
    /\ committed' = IF how \in {"made", "warned"} THEN overlay ELSE committed
    /\ lost' = ((lost /\ how \notin {"made", "warned"}) \/ how = "aggregate")
    /\ doubt' = (how \in {"warned", "aggregate"})
(* No time for a rollback is left: nothing has been changed.               *)
Refuse(p) ==
    /\ proc[p].pc = "mutate" /\ holder' \in {None, p} /\ Go(p, "threw")
    /\ UNCHANGED <<files, running, crashes, history>>

---------------------------------------------------------------------------
(* Mutant: what fails in the rollback is not reported. *)
FailQuietly(p, excused) ==
    CASE proc[p].back -> End(p, "threw")
      [] ~proc[p].back /\ excused /\ proc[p].warningOnly -> End(p, "warned")
      [] OTHER -> Go(p, "restore") /\ UNCHANGED <<holder, history>>
(* A step of the forward phase fails: warned of, or rolled back.  A step   *)
(* of the rollback fails: the AggregateError.                              *)
Fail(p, excused) ==
    CASE proc[p].back -> End(p, "aggregate")
      [] ~proc[p].back /\ excused /\ proc[p].warningOnly -> End(p, "warned")
      [] OTHER -> Go(p, "restore") /\ UNCHANGED <<holder, history>>

Mutate(p) ==
    /\ proc[p].pc = "mutate"
    /\ \/ overlay' = p /\ Go(p, "gateway") /\ UNCHANGED <<holder, history>>
       \/ overlay' \in {overlay, p, Torn} /\ Fail(p, FALSE)
    /\ UNCHANGED <<gateway, targets, running, crashes>>
(* Mutant: an overlay that cannot be restored is republished as it is. *)
RestoreOrNot(p) ==
    /\ proc[p].pc = "restore" /\ overlay' \in {proc[p].snap, overlay}
    /\ proc' = [proc EXCEPT ![p].pc = "gateway", ![p].back = TRUE]
    /\ UNCHANGED <<gateway, targets, running, holder, crashes, history>>
Restore(p) ==
    /\ proc[p].pc = "restore"
    /\ \/ /\ overlay' = proc[p].snap /\ proc' = [proc EXCEPT ![p].pc = "gateway", ![p].back = TRUE]
          /\ UNCHANGED <<holder, history>>
       \/ overlay' \in {overlay, Torn} /\ End(p, "aggregate")
    /\ UNCHANGED <<gateway, targets, running, crashes>>

(* Mutant: the service is restarted before the clients are refreshed. *)
GatewayLoaded(p) ==
    /\ proc[p].pc = "gateway"
    /\ \/ gateway' = overlay /\ running' = overlay /\ Go(p, "targets") /\ UNCHANGED <<holder, history>>
       \/ UNCHANGED <<gateway, running>> /\ Fail(p, TRUE)
    /\ UNCHANGED <<overlay, targets, crashes>>
Gateway(p) ==
    /\ proc[p].pc = "gateway"
    /\ \/ gateway' = overlay /\ Go(p, "targets") /\ UNCHANGED <<holder, history>>
       \/ UNCHANGED gateway /\ Fail(p, TRUE)
    /\ UNCHANGED <<overlay, targets, running, crashes>>
Whole(p) == IF proc[p].back THEN End(p, "threw") ELSE End(p, "made")
Targets(p) ==
    /\ proc[p].pc = "targets"
    /\ \/ /\ targets' = overlay
          /\ IF proc[p].restart THEN Go(p, "reload") /\ UNCHANGED <<holder, history>> ELSE Whole(p)
       \/ targets' \in {targets, overlay, Torn} /\ Fail(p, TRUE)
    /\ UNCHANGED <<overlay, gateway, running, crashes>>
(* The service is restarted; it may be up, down or unchanged if that fails.*)
Reload(p) ==
    /\ proc[p].pc = "reload"
    /\ \/ running' = gateway /\ Whole(p)
       \/ running' \in {running, gateway, None} /\ Fail(p, TRUE)
    /\ UNCHANGED <<files, crashes>>

---------------------------------------------------------------------------
(* The process dies, perhaps in the middle of a write; a lock that has no  *)
(* heartbeat any more goes stale.                                          *)
Crash(p) ==
    /\ proc[p].pc \in Busy \ {"idle"}
    /\ crashes < MaxCrashes /\ crashes' = crashes + 1 /\ Go(p, "dead")
    /\ overlay' \in {overlay} \cup (IF proc[p].pc \in {"mutate", "restore"} THEN {Torn} ELSE {})
    /\ targets' \in {targets} \cup (IF proc[p].pc = "targets" THEN {Torn} ELSE {})
    /\ lost' = (lost \/ holder = p) /\ doubt' = (doubt \/ holder = p)
    /\ UNCHANGED <<gateway, running, holder, committed>>
(* Mutant: the lock of a process that died is never taken for stale. *)
StaleAlive ==
    /\ holder # None /\ proc[holder].pc \in Over \ {"dead"} /\ holder' = None
    /\ UNCHANGED <<files, running, proc, crashes, history>>
Stale ==
    /\ holder # None /\ proc[holder].pc \in Over /\ holder' = None
    /\ UNCHANGED <<files, running, proc, crashes, history>>

Run(p) ==
    \/ Begin(p) \/ Acquire(p) \/ Locked(p) \/ Refuse(p) \/ Mutate(p) \/ Restore(p)
    \/ Gateway(p) \/ Targets(p) \/ Reload(p)
Next == (\E p \in Procs : Run(p) \/ Crash(p)) \/ Stale
Fairness == WF_vars(Stale) /\ \A p \in Procs : WF_vars(Run(p))
Spec == Init /\ [][Next]_vars /\ Fairness

---------------------------------------------------------------------------
(* Every variable stays within its type, and only the holder of the lock   *)
(* is at work.                                                             *)
TypeOK ==
    /\ overlay \in Values /\ gateway \in Values /\ targets \in Values
    /\ running \in Values \cup {None} /\ holder \in Procs \cup {None}
    /\ proc \in [Procs -> [pc : Busy \cup Over, restart : BOOLEAN, warningOnly : BOOLEAN,
                           snap : Values \cup {None}, back : BOOLEAN]]
    /\ crashes \in 0..MaxCrashes /\ committed \in Values /\ lost \in BOOLEAN /\ doubt \in BOOLEAN
    /\ \A p \in Procs : proc[p].pc \notin {"idle", "wait"} \cup Over => holder = p

(* A failed change leaves exactly the last one that was made, never an     *)
(* older one: no rollback undoes what another process has made.            *)
ExactRollback == holder = None /\ ~lost => overlay = committed

(* Unless a caller was warned, the overlay, the gateway and the clients    *)
(* agree whenever no transaction is under way.                             *)
Agree == holder = None /\ ~doubt => gateway = overlay /\ targets = overlay

(* No transaction has the service load what is not published in full.      *)
LoadsPublished == [][running' \notin {running, None} => gateway = overlay /\ targets = overlay]_vars

(* Every transaction ends and the lock is free again.                      *)
AllEnd == <>(holder = None /\ \A p \in Procs : proc[p].pc \in Over)
=============================================================================
