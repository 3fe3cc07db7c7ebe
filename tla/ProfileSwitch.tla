--------------------------- MODULE ProfileSwitch ---------------------------
(***************************************************************************)
(* The crash-safe switch of the native ChatGPT login:                      *)
(* src/router/src/chatgpt-profile-switch.mjs, driven by control.mjs.       *)
(*                                                                         *)
(* One operation at a time holds the account-pool and the catalog lock and *)
(* proceeds by single durable file operations; a crash may come between    *)
(* any two.  Codex reads and rewrites CODEX_HOME/auth.json (primary) on    *)
(* its own, and browser sign-ins rewrite the account's own copy (profile)  *)
(* under a login lease, both without these locks.  A login file is its     *)
(* account and a generation; newest[a] is the last one issued for a.       *)
(***************************************************************************)
EXTENDS Naturals, FiniteSets

CONSTANTS Accounts, First,   \* the registered accounts; the one signed in at the start
          None,
          MaxIssued,         \* logins issued per account
          MaxTroubles        \* how often Codex is started, a sign-in begun, a login made by
                             \* hand, an operation killed or an I/O step failed, together

States == [desired : Accounts, active : Accounts, pending : BOOLEAN,
           phase : {"idle", "preparing", "backed-up", "installed"}]
Logins == [acct : Accounts, gen : 0..MaxIssued]
Txns == [man : BOOLEAN, auth : BOOLEAN, active : Accounts, target : Accounts, saved : Logins,
         prev : States, cat : Accounts \cup {None}]
Befores == [sw : States, selected : Accounts]
Kinds == {"select", "undo", "reconcile", "finalize"}
Places == {"dispatch", "failed", "commit"}
Ops == [kind : Kinds \cup {None}, arg : Accounts \cup {None}, active : Accounts \cup {None},
        target : Accounts \cup {None}, snap : 0..MaxIssued, before : Befores \cup {None},
        after : Places \cup {None}]

ASSUME SwitchAssumption ==
    /\ First \in Accounts /\ None \notin Accounts \cup Txns \cup Befores \cup Kinds \cup Places
    /\ {MaxIssued, MaxTroubles} \subseteq Nat

VARIABLES primary,   \* CODEX_HOME/auth.json
          profile,   \* generation in each account's own copy
          later,     \* accounts whose copy has a later mtime than primary
          sw,        \* the switch state file
          staging,   \* the staged transaction exists
          txn,       \* the published transaction directory
          catalog,   \* account the global catalog was published for
          selected,  \* policy.selectedAccountId of the account pool
          pc, op,    \* the operation that holds the locks
          codex,     \* Codex is running
          raced,     \* it was started, or `codex login` run, during an operation or on its remains
          lease,     \* login lease of each account
          newest, troubles,
          outside,   \* `codex login` was used by hand
          torn       \* what may be wrong after an operation that did not end well

files == <<primary, profile, later, sw, staging, txn, catalog, selected>>
env == <<codex, raced, lease, newest, outside>>
vars == <<files, pc, op, env, troubles, torn>>

NoOp == [kind |-> None, arg |-> None, active |-> None, target |-> None, snap |-> 0,
         before |-> None, after |-> None]
Login(a, g) == [acct |-> a, gen |-> g]
Settled(a) == [desired |-> a, active |-> a, pending |-> FALSE, phase |-> "idle"]

Init ==
    /\ primary = Login(First, 0) /\ profile = [a \in Accounts |-> 0] /\ later = Accounts
    /\ sw = Settled(First) /\ staging = FALSE /\ txn = None
    /\ catalog = First /\ selected = First
    /\ pc = "rest" /\ op = NoOp
    /\ codex = FALSE /\ raced = FALSE /\ lease = [a \in Accounts |-> "none"] /\ newest = [a \in Accounts |-> 0]
    /\ troubles = 0 /\ outside = FALSE /\ torn = {}

Trouble == troubles < MaxTroubles /\ troubles' = troubles + 1
Goto(q) == pc' = q /\ UNCHANGED op
End == pc' = "rest" /\ op' = NoOp
Still == UNCHANGED <<env, troubles, torn>>
Fault == Trouble /\ UNCHANGED <<env, torn>>
WritePrimary(l) == primary' = l /\ later' = {}
WriteState(s) == sw' = s /\ UNCHANGED <<primary, profile, later, staging, txn, catalog, selected>>

---------------------------------------------------------------------------
(* Codex and the sign-ins (external).                                      *)

CodexStart ==
    /\ ~codex /\ Trouble /\ codex' = TRUE
    /\ raced' = (raced \/ pc # "rest" \/ txn # None)
    /\ UNCHANGED <<files, pc, op, lease, newest, outside, torn>>
CodexStop ==
    /\ codex /\ codex' = FALSE
    /\ UNCHANGED <<files, pc, op, raced, lease, newest, outside, troubles, torn>>
(* The newest login is rotated in place; the rotated one is spent.         *)
CodexRefresh ==
    /\ codex /\ primary.gen = newest[primary.acct] /\ primary.gen < MaxIssued
    /\ WritePrimary(Login(primary.acct, primary.gen + 1))
    /\ newest' = [newest EXCEPT ![primary.acct] = primary.gen + 1]
    /\ UNCHANGED <<profile, sw, staging, txn, catalog, selected, pc, op>>
    /\ UNCHANGED <<codex, raced, lease, outside, troubles, torn>>
(* `codex login` by hand.                                                  *)
OutsideLogin(a) ==
    /\ Trouble /\ newest[a] < MaxIssued /\ outside' = TRUE
    /\ raced' = (raced \/ pc # "rest" \/ txn # None)
    /\ WritePrimary(Login(a, newest[a] + 1)) /\ newest' = [newest EXCEPT ![a] = @ + 1]
    /\ UNCHANGED <<profile, sw, staging, txn, catalog, selected, pc, op>>
    /\ UNCHANGED <<codex, lease, torn>>
SignInStart(a) ==
    /\ lease[a] = "none" /\ newest[a] < MaxIssued /\ lease' = [lease EXCEPT ![a] = "running"]
    /\ Trouble
    /\ UNCHANGED <<files, pc, op, codex, raced, newest, outside, torn>>
SignInEnd(a) ==
    /\ lease[a] = "running"
    /\ \/ /\ newest[a] < MaxIssued
          /\ newest' = [newest EXCEPT ![a] = @ + 1] /\ profile' = [profile EXCEPT ![a] = newest[a] + 1]
          /\ later' = later \cup {a} /\ lease' = [lease EXCEPT ![a] = "done"]
       \/ lease' = [lease EXCEPT ![a] = "none"] /\ UNCHANGED <<newest, profile, later>>
    /\ UNCHANGED <<primary, sw, staging, txn, catalog, selected, pc, op>>
    /\ UNCHANGED <<codex, raced, outside, troubles, torn>>

---------------------------------------------------------------------------
(* The entry points: each takes both locks and recovers first.             *)

Begin(kind, a) ==
    /\ pc = "rest" /\ pc' = "recover" /\ op' = [NoOp EXCEPT !.kind = kind, !.arg = a]
    /\ Still /\ UNCHANGED files
Select(a) == Begin("select", a)
Reconcile == Begin("reconcile", None)
(* reconcileChatGPTProfileSwitchIfReady: the poll of the account view.     *)
Ready == ~codex /\ (sw.pending \/ sw.phase # "idle" \/ txn # None \/ staging)
Poll == Ready /\ Reconcile
Finalize(a) == lease[a] = "done" /\ Begin("finalize", a)

(* ensureProfileAccountLocked, all identities bound: the active marker     *)
(* follows the account that is really signed in.                           *)
Ensured == IF sw.active = primary.acct THEN sw
           ELSE [sw EXCEPT !.active = primary.acct,
                           !.pending = sw.pending /\ sw.desired # primary.acct]
(* ensureChatGPTProfileAccounts: the same under the pool lock, with no     *)
(* recovery before it.                                                     *)
EnsureAccounts ==
    /\ pc = "rest" /\ sw.active # primary.acct /\ WriteState(Ensured)
    /\ Still /\ UNCHANGED <<pc, op>>

---------------------------------------------------------------------------
(* recoverInterruptedSwitchLocked                                          *)

(* discardIncompleteUnpublishedTransaction: the manifest is gone.          *)
Incomplete == txn # None /\ ~txn.man
Undiscardable == sw.phase # "idle" \/ (txn.auth /\ txn.saved # primary)
Completed == ~sw.pending /\ sw.active = txn.target /\ sw.desired = txn.target
RolledBack == sw.pending /\ sw.active = txn.active /\ sw.desired = txn.target
NotStarted == sw = txn.prev /\ primary = txn.saved
IdleMatches == Completed \/ RolledBack \/ NotStarted
Refused ==
    \/ Incomplete /\ Undiscardable
    \/ txn = None /\ sw.phase # "idle"
    \/ txn # None /\ txn.man /\ sw.phase = "idle" /\ ~IdleMatches

RecoverRefused == pc = "recover" /\ Refused /\ End /\ staging' = FALSE /\ Still
                  /\ UNCHANGED <<primary, profile, later, sw, txn, catalog, selected>>
(* The phase was idle with nothing left, or a finished transaction is      *)
(* still to be removed.                                                    *)
RecoverIdle ==
    /\ pc = "recover" /\ ~Refused /\ sw.phase = "idle" /\ staging' = FALSE
    /\ pc' = (IF txn = None THEN "dispatch" ELSE IF txn.man THEN "rmManifest" ELSE "rmAuth")
    /\ op' = [op EXCEPT !.after = "dispatch"]
    /\ Still /\ UNCHANGED <<primary, profile, later, sw, txn, catalog, selected>>
RecoverInstalled ==
    /\ pc = "recover" /\ ~Refused /\ sw.phase = "installed" /\ primary.acct = txn.target
    /\ staging' = FALSE /\ sw' = Settled(txn.target)
    /\ pc' = "rmManifest" /\ op' = [op EXCEPT !.after = "dispatch"]
    /\ Still /\ UNCHANGED <<primary, profile, later, txn, catalog, selected>>
RecoverInterrupted ==
    /\ pc = "recover" /\ ~Refused /\ sw.phase # "idle"
    /\ sw.phase = "installed" => primary.acct # txn.target
    /\ staging' = FALSE /\ pc' = "restoreAuth" /\ op' = [op EXCEPT !.after = "dispatch"]
    /\ Still /\ UNCHANGED <<primary, profile, later, sw, txn, catalog, selected>>

(* restoreSwitchTransaction, then the state, then the removal: for the     *)
(* recovery and for the catch of applyLocked.                              *)
RestoreAuth ==
    /\ pc = "restoreAuth" /\ txn.auth /\ WritePrimary(txn.saved) /\ Goto("restoreCatalog")
    /\ Still /\ UNCHANGED <<profile, sw, staging, txn, catalog, selected>>
\* Mutant: the catalog snapshot is not restored.
RestoreAuthOnly ==
    /\ pc = "restoreCatalog" /\ Goto("rollState")
    /\ Still /\ UNCHANGED <<primary, profile, later, sw, staging, txn, catalog, selected>>
RestoreCatalog ==
    /\ pc = "restoreCatalog" /\ catalog' = txn.cat /\ Goto("rollState")
    /\ Still /\ UNCHANGED <<primary, profile, later, sw, staging, txn, selected>>
RollState ==
    /\ pc = "rollState" /\ Goto("rmManifest") /\ Still
    /\ WriteState([desired |-> txn.target, active |-> txn.active, pending |-> TRUE, phase |-> "idle"])
(* A copy or a step of the removal throws, as the copy does for certain if *)
(* the saved login is gone.  The recovery leaves the phase; the catch of   *)
(* applyLocked writes backed-up, whatever is left of the transaction.      *)
PastManifest == pc \in {"rmAuth", "rmDir"}
NothingSaved == pc = "restoreAuth" /\ ~txn.auth
RestoreFails ==
    /\ pc \in {"restoreAuth", "restoreCatalog"} \/ ((pc = "rmManifest" \/ PastManifest) /\ op.after # "commit")
    /\ (NothingSaved /\ UNCHANGED troubles) \/ (~NothingSaved /\ Trouble)
    /\ IF op.after = "failed"
       THEN /\ Goto("failed")
            /\ WriteState([desired |-> op.target, active |-> op.active, pending |-> TRUE,
                           phase |-> "backed-up"])
       ELSE End /\ UNCHANGED files
    /\ torn' = IF PastManifest /\ op.after = "failed" THEN torn \cup {"removal"} ELSE torn
    /\ UNCHANGED env

(* removeValidatedTransactionDirectory                                     *)
RmManifest ==
    /\ pc = "rmManifest" /\ txn' = [txn EXCEPT !.man = FALSE] /\ Goto("rmAuth")
    /\ Still /\ UNCHANGED <<primary, profile, later, sw, staging, catalog, selected>>
RmAuth ==
    /\ pc = "rmAuth" /\ txn' = [txn EXCEPT !.auth = FALSE] /\ Goto("rmDir")
    /\ Still /\ UNCHANGED <<primary, profile, later, sw, staging, catalog, selected>>
RmDir ==
    /\ pc = "rmDir" /\ txn' = None /\ Goto(op.after)
    /\ Still /\ UNCHANGED <<primary, profile, later, sw, staging, catalog, selected>>

---------------------------------------------------------------------------
(* After the recovery: what the operation asks of applyLocked.             *)

\* Mutant: reconciliation only recovers.
DispatchRecoverOnly ==
    /\ pc = "dispatch" /\ Still /\ UNCHANGED files
    /\ IF op.kind = "reconcile" THEN End ELSE Goto("ensure")
(* finalizeChatGPTProfileLogin: the lease must still be the completed one; *)
(* the login of the active account waits for Codex to close.               *)
Finalization ==
    CASE lease[op.arg] # "done" -> End
      [] lease[op.arg] = "done" /\ sw.active # op.arg -> Goto("commit")
      [] lease[op.arg] = "done" /\ sw.active = op.arg /\ codex -> End
      [] OTHER -> Goto("ensure")
Dispatch ==
    /\ pc = "dispatch" /\ Still
    /\ \/ op.kind = "select" /\ Goto("ensure") /\ UNCHANGED files
       \/ op.kind = "reconcile" /\ ~sw.pending /\ End /\ UNCHANGED files
       \/ /\ op.kind = "reconcile" /\ sw.pending
          /\ pc' = "ensure" /\ op' = [op EXCEPT !.arg = sw.desired] /\ UNCHANGED files
       \/ op.kind = "finalize" /\ Finalization /\ UNCHANGED files
Ensure ==
    /\ pc = "ensure" /\ WriteState(Ensured) /\ pc' = "apply"
    /\ op' = IF op.kind = "select" THEN [op EXCEPT !.before = [sw |-> Ensured, selected |-> selected]]
             ELSE op
    /\ Still

---------------------------------------------------------------------------
(* applyLocked                                                             *)

LeaseHeld == \E a \in {sw.active, op.arg} :
                lease[a] # "none" /\ ~(op.kind = "finalize" /\ a = op.arg)
RefreshPending == op.arg = sw.active /\ primary # Login(op.arg, profile[op.arg])

ApplyRefused == pc = "apply" /\ LeaseHeld /\ Goto("failed") /\ Still /\ UNCHANGED files
ApplyLater ==
    /\ pc = "apply" /\ ~LeaseHeld /\ codex /\ Goto("commit") /\ Still
    /\ WriteState([sw EXCEPT !.desired = op.arg, !.phase = "idle",
                             !.pending = op.arg # sw.active \/ RefreshPending])
ApplyNothing ==
    /\ pc = "apply" /\ ~LeaseHeld /\ ~codex /\ op.arg = sw.active /\ ~RefreshPending
    /\ Goto("commit") /\ Still /\ WriteState(Settled(op.arg))
ApplyStart ==
    /\ pc = "apply" /\ ~LeaseHeld /\ ~codex /\ (op.arg # sw.active \/ RefreshPending)
    /\ pc' = "stage"
    /\ op' = [op EXCEPT !.active = sw.active, !.target = op.arg, !.snap = profile[op.arg]]
    /\ Still /\ UNCHANGED files
\* Mutant: the phase is written before the transaction is published.
StagePreparing ==
    /\ pc = "stage" /\ staging' = TRUE /\ Goto("publish") /\ sw' = [sw EXCEPT !.phase = "preparing"]
    /\ Still /\ UNCHANGED <<primary, profile, later, txn, catalog, selected>>
(* writeSwitchTransaction: staged, then published by one rename.           *)
Stage ==
    /\ pc = "stage" /\ staging' = TRUE /\ Goto("publish")
    /\ Still /\ UNCHANGED <<primary, profile, later, sw, txn, catalog, selected>>
Publish ==
    /\ pc = "publish" /\ staging' = FALSE /\ Goto("preparing")
    /\ txn' = [man |-> TRUE, auth |-> TRUE, active |-> op.active, target |-> op.target,
               saved |-> primary, prev |-> sw, cat |-> catalog]
    /\ Still /\ UNCHANGED <<primary, profile, later, sw, catalog, selected>>
StageFails ==
    /\ pc = "publish" /\ staging' = FALSE /\ Goto("failed") /\ Fault
    /\ UNCHANGED <<primary, profile, later, sw, txn, catalog, selected>>
InPhase(ph) == [desired |-> op.target, active |-> op.active, pending |-> TRUE, phase |-> ph]
Preparing == pc = "preparing" /\ Goto("sync") /\ Still /\ WriteState(InPhase("preparing"))
\* Mutant: the outgoing login is not saved.
SyncSkipped ==
    /\ pc = "sync" /\ Goto("backedUp") /\ Still
    /\ UNCHANGED <<primary, profile, later, sw, staging, txn, catalog, selected>>
(* syncAuthProfile: the later file wins.                                   *)
Sync ==
    /\ pc = "sync" /\ Goto("backedUp") /\ Still
    /\ IF op.target = op.active THEN UNCHANGED <<primary, profile, later>>
       ELSE IF op.active \in later
            THEN WritePrimary(Login(op.active, profile[op.active])) /\ UNCHANGED profile
            ELSE /\ profile' = [profile EXCEPT ![op.active] = primary.gen]
                 /\ later' = later \cup {op.active} /\ UNCHANGED primary
    /\ UNCHANGED <<sw, staging, txn, catalog, selected>>
BackedUp == pc = "backedUp" /\ Goto("install") /\ Still /\ WriteState(InPhase("backed-up"))
Install ==
    /\ pc = "install" /\ WritePrimary(Login(op.target, op.snap)) /\ Goto("check")
    /\ Still /\ UNCHANGED <<profile, sw, staging, txn, catalog, selected>>

Throw == pc' = "restoreAuth" /\ op' = [op EXCEPT !.after = "failed"]
(* assertTargetSnapshotInstalled, before and after the catalog refresh.    *)
SnapshotInstalled == profile[op.target] = op.snap /\ primary = Login(op.target, op.snap)
Check ==
    /\ pc = "check" /\ Still
    /\ IF SnapshotInstalled THEN Goto("refresh") /\ catalog' = None ELSE Throw /\ UNCHANGED catalog
    /\ UNCHANGED <<primary, profile, later, sw, staging, txn, selected>>
Refresh ==
    /\ pc = "refresh" /\ catalog' = op.target /\ Goto("installed")
    /\ Still /\ UNCHANGED <<primary, profile, later, sw, staging, txn, selected>>
RefreshFails == pc = "refresh" /\ Throw /\ Fault /\ UNCHANGED files
Installed ==
    /\ pc = "installed" /\ Still
    /\ IF SnapshotInstalled
       THEN Goto("idle") /\ WriteState([Settled(op.target) EXCEPT !.phase = "installed"])
       ELSE Throw /\ UNCHANGED files
Idle ==
    /\ pc = "idle" /\ pc' = "rmManifest" /\ op' = [op EXCEPT !.after = "commit"]
    /\ Still /\ WriteState(Settled(op.target))
RemovalFails ==
    /\ pc = "rmManifest" \/ PastManifest
    /\ op.after = "commit" /\ Throw /\ Trouble
    /\ torn' = IF PastManifest THEN torn \cup {"removal"} ELSE torn
    /\ UNCHANGED <<files, env>>

---------------------------------------------------------------------------
(* The operation's own end: the pool policy, the login lease, or the       *)
(* rollback of a selection (restoreAccountTransaction).                    *)

Commit ==
    /\ pc = "commit" /\ End
    /\ \/ op.kind = "select" /\ selected' = op.arg /\ UNCHANGED <<sw, lease>>
       \/ op.kind = "undo" /\ sw' = op.before.sw /\ UNCHANGED <<selected, lease>>
       \/ op.kind = "reconcile" /\ UNCHANGED <<sw, selected, lease>>
       \/ /\ op.kind = "finalize" /\ lease' = [lease EXCEPT ![op.arg] = "none"]
          /\ UNCHANGED <<sw, selected>>
    /\ torn' = torn \cup (IF op.kind = "undo" /\ sw.active # op.arg THEN {"marker"} ELSE {})
                    \cup (IF op.kind = "finalize" /\ selected # op.arg THEN {"policy"} ELSE {})
    /\ UNCHANGED <<primary, profile, later, staging, txn, catalog>>
    /\ UNCHANGED <<codex, raced, newest, outside, troubles>>
CommitFails == pc = "commit" /\ op.kind = "select" /\ Goto("failed") /\ Fault /\ UNCHANGED files
Failed ==
    /\ pc = "failed" /\ UNCHANGED <<env, troubles>>
    /\ torn' = IF op.kind \in {"undo", "finalize"} \/ sw.phase # "idle"
               THEN torn \cup {"policy"} ELSE torn
    /\ IF op.kind # "select" \/ sw.phase # "idle" THEN End /\ UNCHANGED files
       ELSE IF sw.active # op.before.sw.active
            THEN /\ pc' = "ensure" /\ UNCHANGED files
                 /\ op' = [op EXCEPT !.kind = "undo", !.arg = op.before.sw.active]
            ELSE End /\ WriteState(op.before.sw)
(* The cleanup failed after the switch was committed: the catch undoes it. *)
UndoingCommitted == op.after = "failed" /\ sw = Settled(op.target)
Crash ==
    /\ pc # "rest" /\ Trouble /\ End
    /\ torn' = torn \cup (IF op.kind # "reconcile" THEN {"policy"} ELSE {})
                    \cup (IF UndoingCommitted THEN {"marker"} ELSE {})
    /\ UNCHANGED <<files, env>>

---------------------------------------------------------------------------
Environment ==
    \/ CodexStart \/ CodexStop \/ CodexRefresh
    \/ \E a \in Accounts : OutsideLogin(a) \/ SignInStart(a) \/ SignInEnd(a)
Recovery ==
    \/ RecoverRefused \/ RecoverIdle \/ RecoverInstalled \/ RecoverInterrupted
    \/ RestoreAuth \/ RestoreCatalog \/ RollState \/ RmManifest \/ RmAuth \/ RmDir
Apply ==
    \/ Dispatch \/ Ensure \/ ApplyRefused \/ ApplyLater \/ ApplyNothing \/ ApplyStart
    \/ Stage \/ Publish \/ Preparing \/ Sync \/ BackedUp \/ Install \/ Check
    \/ Refresh \/ Installed \/ Idle \/ Commit \/ Failed
Failures == RestoreFails \/ StageFails \/ RefreshFails \/ RemovalFails \/ CommitFails \/ Crash
Entry == (\E a \in Accounts : Select(a) \/ Finalize(a)) \/ Reconcile \/ EnsureAccounts
Next == Environment \/ Entry \/ Recovery \/ Apply \/ Failures

(* An operation under way goes on or dies; the account view polls and      *)
(* finalizes; Codex is closed and a sign-in ends at some time.             *)
Fairness ==
    /\ WF_vars(Recovery \/ Apply \/ Failures) /\ SF_vars(Poll)
    /\ \A a \in Accounts : SF_vars(Finalize(a)) /\ WF_vars(SignInEnd(a))
    /\ WF_vars(CodexStop)
Spec == Init /\ [][Next]_vars /\ Fairness

---------------------------------------------------------------------------
(* Every variable stays within its type.                                   *)
TypeOK ==
    /\ primary \in Logins /\ profile \in [Accounts -> 0..MaxIssued] /\ later \subseteq Accounts
    /\ sw \in States /\ staging \in BOOLEAN /\ txn \in Txns \cup {None}
    /\ catalog \in Accounts \cup {None} /\ selected \in Accounts
    /\ op \in Ops /\ codex \in BOOLEAN /\ raced \in BOOLEAN /\ outside \in BOOLEAN
    /\ lease \in [Accounts -> {"none", "running", "done"}] /\ newest \in [Accounts -> 0..MaxIssued]
    /\ torn \subseteq {"policy", "marker", "removal"}

Quiet == pc = "rest" /\ txn = None

(* With no operation and no transaction left, the active marker and the    *)
(* global catalog are those of the account in CODEX_HOME/auth.json,        *)
(* whatever was cut short before (unless `codex login` was used by hand,   *)
(* or the undoing of a committed switch was itself cut short).  The policy *)
(* names the account that the native profile has or waits for, unless a    *)
(* selection died, or failed and could not be rolled back either.          *)
SameAccount == sw.active = primary.acct /\ catalog = primary.acct
Agreement ==
    Quiet => /\ ~outside /\ "marker" \notin torn => SameAccount
             /\ "policy" \notin torn /\ sw.phase = "idle" => selected = sw.desired

(* A state file outside phase idle has its complete transaction on disk,   *)
(* or recovery could neither finish nor undo the switch.  The one phase    *)
(* that may not is the backed-up that the catch of applyLocked writes when *)
(* removing the transaction has failed after its manifest was gone.        *)
Stranded == sw.phase = "backed-up" /\ "removal" \in torn /\ Incomplete
DurableEvidence == sw.phase # "idle" => (txn # None /\ txn.man /\ txn.auth) \/ Stranded

(* Some file holds the newest login of an account.                         *)
Held(a) == \/ primary = Login(a, newest[a]) \/ profile[a] = newest[a]
           \/ txn # None /\ txn.auth /\ txn.saved = Login(a, newest[a])
(* While Codex does not write in the middle of a switch or on its remains  *)
(* and nobody uses `codex login` by hand, no step, crash, rollback or retry*)
(* destroys the last copy of the newest login of an account; only a refresh*)
(* of the active account can.                                              *)
SwitchKeepsBoth ==
    [][\A a \in Accounts :
          ~raced /\ ~outside /\ "marker" \notin torn /\ Held(a) /\ newest' = newest =>
             Held(a)' \/ (txn # None /\ txn.active = txn.target)]_vars

(* A pending selection, an interrupted switch and its remains are settled  *)
(* in the end, unless recovery refuses what it finds, for ever.            *)
SettlesOrRefuses == ([]<>(Quiet /\ ~sw.pending /\ sw.phase = "idle")) \/ <>[](pc = "rest" => Refused)

=============================================================================
