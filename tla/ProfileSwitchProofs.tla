------------------------- MODULE ProfileSwitchProofs -------------------------
(***************************************************************************)
(* The switch of the ChatGPT login, for any accounts, any number of logins *)
(* issued and any number of crashes, failures and sign-ins: a phase on     *)
(* disk always has its transaction, and what was cut short is settled      *)
(* before the operation that finds it goes on.                             *)
(***************************************************************************)
EXTENDS ProfileSwitch, TLAPS

(* Where pc stands. Putting the old login back: the files, then the marker. *)
Restoring == {"restoreAuth", "restoreCatalog", "rollState"}
(* Taking the transaction off the disk, the manifest first.                *)
Removing == {"rmManifest", "rmAuth", "rmDir"}
(* The steps of applyLocked with the transaction on disk.                  *)
Switching == {"preparing", "sync", "backedUp", "install", "check", "refresh", "installed", "idle"}
(* Those before it, and the end of the operation.                          *)
Deciding == {"dispatch", "ensure", "apply", "stage", "publish", "commit"}
Cleaning == Restoring \cup Removing
(* recoverInterruptedSwitchLocked, and applyLocked with its own clean-up.   *)
InRecovery == pc \in {"recover", "dispatch"} \/ (pc \in Cleaning /\ op.after = "dispatch")
InApply == pc \in Switching \/ (pc \in Cleaning /\ op.after # "dispatch")
(* A transaction recovery can use.                                         *)
Complete == txn # None /\ txn.man /\ txn.auth
(* What a removal that failed half-way leaves to the catch of applyLocked. *)
Leftover == Incomplete /\ op.after = "failed" /\ "removal" \in torn

(* What the running operation has decided by the step it stands at: the    *)
(* account asked for, the one switched from, and what to put back.         *)
OpInv ==
    /\ pc \in {"rest", "recover", "failed"} \cup Deciding \cup Switching \cup Cleaning
    /\ pc = "rest" => op = NoOp
    /\ pc # "rest" => op.kind # None
    /\ op.kind \in {"select", "undo", "finalize"} => op.arg # None
    /\ pc # "rest" /\ ~InRecovery => op.arg # None
    /\ pc \in Cleaning => op.after # None
    /\ pc \in Restoring => op.after # "commit"
    /\ pc \in {"stage", "publish"} \/ InApply => op.active # None /\ op.target = op.arg
    /\ op.kind = "undo" => op.before # None /\ op.arg = op.before.sw.active /\ ~InRecovery
    /\ op.kind = "select" /\ ~InRecovery /\ pc # "ensure" => op.before # None
    /\ op.before # None => op.before.sw.phase = "idle"

(* The phase on disk against the transaction on disk, at every step: the   *)
(* transaction is there before the phase and goes after it, unless the     *)
(* catch of applyLocked is left with half of it.                           *)
EvidenceInv ==
    /\ sw.phase # "idle" => Complete \/ Stranded
    /\ Stranded => pc \in {"rest", "recover", "failed"}
    /\ txn # None /\ txn.man => txn.auth
    /\ pc \in Deciding => txn = None
    /\ pc \in Switching => Complete
    /\ pc \in Restoring \cup {"rmManifest"} => Complete \/ Leftover
    /\ pc \in {"restoreCatalog", "rollState", "rmManifest"} => txn.auth
    /\ pc \in {"rmAuth", "rmDir"} => txn # None /\ ~txn.man
    /\ pc \in Removing => sw.phase = "idle"
    /\ pc \in Restoring /\ sw.phase = "idle" => op.after = "failed" /\ sw = Settled(op.target)
    /\ pc = "failed" /\ sw.phase = "idle" => txn = None
    /\ InApply /\ txn # None => txn.active = op.active /\ txn.target = op.target
    /\ pc \in {"sync", "backedUp"} => sw.phase = "preparing"
    /\ pc \in {"install", "check", "refresh", "installed"} => sw.phase = "backed-up"
    /\ pc = "idle" => sw.phase = "installed"
    /\ pc = "preparing" => sw.phase = "idle"
    /\ pc \in Removing /\ op.after = "commit" => sw = Settled(op.target)
    /\ pc \in {"stage", "publish"} => sw.active = op.active

(* Whose login, catalog and marker these are, as long as no sign-in behind *)
(* the router's back and no failed restore has set them apart.             *)
AccountInv ==
    ~outside /\ "marker" \notin torn =>
        /\ sw.phase = "idle" /\ pc \notin Restoring => SameAccount
        /\ txn # None => txn.saved.acct = txn.active /\ txn.cat = txn.active
        /\ sw.phase = "installed" => primary.acct = txn.target /\ catalog = txn.target /\ pc \notin Restoring
        /\ pc \in {"restoreCatalog", "rollState"} => primary.acct = txn.active
        /\ pc = "rollState" => catalog = txn.active
        /\ pc = "installed" => catalog = op.target

(* The policy file against the marker: they differ only inside the         *)
(* operation that changes both.                                            *)
PolicyInv ==
    "policy" \notin torn =>
        /\ pc = "rest" \/ InRecovery \/ op.kind = "reconcile" \/ (pc = "ensure" /\ op.kind # "undo")
             => sw.desired = selected /\ (txn # None => txn.target = selected)
        /\ op.kind = "reconcile" /\ ~InRecovery => op.arg = selected
        /\ op.before # None => op.before.sw.desired = selected
        /\ pc = "commit" /\ op.kind = "select" => sw.desired = op.arg
        /\ pc = "commit" /\ op.kind = "finalize" => sw.desired \in {op.arg, selected}

(* The inductive invariant.                                                *)
SwitchInv == TypeOK /\ OpInv /\ EvidenceInv /\ AccountInv /\ PolicyInv

USE SwitchAssumption
    DEF Restoring, Removing, Switching, Deciding, Cleaning, InRecovery, InApply, Complete, Leftover, SameAccount,
        Incomplete, Stranded, PastManifest, NothingSaved,
        Settled, Trouble, Goto, End, Still, Fault, WritePrimary, WriteState, files, env
---------------------------------------------------------------------------
(* What a transaction, an operation and a state file are made of.          *)
LEMMA TxnFields ==
    ASSUME TypeOK, txn # None
    PROVE  /\ txn \in Txns /\ txn.man \in BOOLEAN /\ txn.auth \in BOOLEAN
           /\ txn.active \in Accounts /\ txn.target \in Accounts /\ txn.saved \in Logins
           /\ txn.cat \in Accounts \cup {None}
           /\ [txn EXCEPT !.man = FALSE] \in Txns /\ [txn EXCEPT !.auth = FALSE] \in Txns
BY DEF TypeOK, Txns

LEMMA OpFields ==
    ASSUME TypeOK
    PROVE  /\ op.arg \in Accounts \cup {None} /\ op.active \in Accounts \cup {None}
           /\ op.target \in Accounts \cup {None} /\ op.snap \in 0..MaxIssued
           /\ op.before # None => op.before.sw \in States /\ op.before.sw.active \in Accounts
BY DEF TypeOK, Ops, Befores, States

LEMMA OpTypes ==
    ASSUME TypeOK, NEW a \in Accounts, NEW k \in Kinds
    PROVE  /\ NoOp \in Ops /\ \A x \in Places : [op EXCEPT !.after = x] \in Ops
           /\ \A x \in {a, None} : [NoOp EXCEPT !.kind = k, !.arg = x] \in Ops
           /\ [op EXCEPT !.arg = a] \in Ops /\ [op EXCEPT !.kind = k, !.arg = a] \in Ops
           /\ \A b \in Befores : [op EXCEPT !.before = b] \in Ops
           /\ \A b \in Accounts, g \in 0..MaxIssued :
                 [op EXCEPT !.active = b, !.target = a, !.snap = g] \in Ops
<1>1. op \in Ops /\ 0 \in 0..MaxIssued
  BY DEF TypeOK
<1>2. NoOp \in Ops /\ \A x \in {a, None} : [NoOp EXCEPT !.kind = k, !.arg = x] \in Ops
  BY <1>1 DEF NoOp, Ops
<1>3. \A x \in Places : [op EXCEPT !.after = x] \in Ops
  BY <1>1 DEF Ops
<1>4. [op EXCEPT !.arg = a] \in Ops /\ [op EXCEPT !.kind = k, !.arg = a] \in Ops
  BY <1>1 DEF Ops
<1>5. \A b \in Befores : [op EXCEPT !.before = b] \in Ops
  BY <1>1 DEF Ops
<1>6. \A b \in Accounts, g \in 0..MaxIssued : [op EXCEPT !.active = b, !.target = a, !.snap = g] \in Ops
  BY <1>1 DEF Ops
<1> QED BY <1>2, <1>3, <1>4, <1>5, <1>6

LEMMA StateTypes ==
    ASSUME TypeOK
    PROVE  /\ Ensured \in States /\ sw.active \in Accounts /\ sw.desired \in Accounts
           /\ \A a, b \in Accounts, p \in BOOLEAN, ph \in {"idle", "preparing", "backed-up", "installed"} :
                 [desired |-> a, active |-> b, pending |-> p, phase |-> ph] \in States
           /\ primary.acct \in Accounts /\ \A a \in Accounts, g \in 0..MaxIssued : Login(a, g) \in Logins
<1>1. sw \in States /\ primary \in Logins
  BY DEF TypeOK
<1>2. sw.active \in Accounts /\ sw.desired \in Accounts /\ sw.pending \in BOOLEAN
  BY <1>1 DEF States
<1>3. primary.acct \in Accounts /\ \A a \in Accounts, g \in 0..MaxIssued : Login(a, g) \in Logins
  BY <1>1 DEF Logins, Login
<1>4. Ensured \in States
  <2> DEFINE p == sw.pending /\ sw.desired # primary.acct
  <2>1. p \in BOOLEAN
    BY <1>2
  <2>2. Ensured = IF sw.active = primary.acct THEN sw
                  ELSE [sw EXCEPT !.active = primary.acct, !.pending = p]
    BY DEF Ensured
  <2> HIDE DEF p
  <2> QED BY <1>1, <1>2, <1>3, <2>1, <2>2 DEF States
<1>5. \A a, b \in Accounts, p \in BOOLEAN, ph \in {"idle", "preparing", "backed-up", "installed"} :
         [desired |-> a, active |-> b, pending |-> p, phase |-> ph] \in States
  BY DEF States
<1> QED BY <1>2, <1>3, <1>4, <1>5

(* What is published is a transaction.                                     *)
LEMMA PublishTxn == ASSUME SwitchInv, Publish PROVE txn' \in Txns
<1>1. /\ op.active \in Accounts /\ op.target \in Accounts /\ primary \in Logins /\ sw \in States
      /\ catalog \in Accounts \cup {None}
  BY OpFields DEF Publish, SwitchInv, TypeOK, OpInv
<1> QED BY <1>1 DEF Publish, Txns

LEMMA PublishTypes == ASSUME SwitchInv, Publish PROVE TypeOK'
BY PublishTxn DEF Publish, SwitchInv, TypeOK

(* A login that is issued.                                                 *)
LEMMA CodexRefreshTypes == ASSUME SwitchInv, CodexRefresh PROVE TypeOK'
<1> DEFINE g == primary.gen + 1
<1>1. primary.acct \in Accounts /\ g \in 0..MaxIssued
  BY DEF CodexRefresh, SwitchInv, TypeOK, Logins
<1>2. primary' = Login(primary.acct, g) /\ newest' = [newest EXCEPT ![primary.acct] = g]
  BY DEF CodexRefresh
<1> HIDE DEF g
<1>3. primary' \in Logins /\ newest' \in [Accounts -> 0..MaxIssued]
  BY <1>1, <1>2, StateTypes DEF SwitchInv, TypeOK
<1> QED BY <1>3 DEF CodexRefresh, SwitchInv, TypeOK

LEMMA OutsideLoginTypes == ASSUME SwitchInv, NEW a \in Accounts, OutsideLogin(a) PROVE TypeOK'
<1> DEFINE g == newest[a] + 1
<1>1. g \in 0..MaxIssued
  BY DEF OutsideLogin, SwitchInv, TypeOK
<1>2. primary' = Login(a, g) /\ newest' = [newest EXCEPT ![a] = g]
  BY DEF OutsideLogin
<1> HIDE DEF g
<1>3. primary' \in Logins /\ newest' \in [Accounts -> 0..MaxIssued]
  BY <1>1, <1>2, StateTypes DEF SwitchInv, TypeOK
<1> QED BY <1>3 DEF OutsideLogin, SwitchInv, TypeOK

LEMMA SignInEndTypes == ASSUME SwitchInv, NEW a \in Accounts, SignInEnd(a) PROVE TypeOK'
<1>1. CASE newest[a] < MaxIssued
  <2> DEFINE g == newest[a] + 1
  <2>1. g \in 0..MaxIssued
    BY <1>1 DEF SwitchInv, TypeOK
  <2>2. /\ newest' = [newest EXCEPT ![a] = g] \/ newest' = newest
        /\ profile' = [profile EXCEPT ![a] = g] \/ profile' = profile
    BY DEF SignInEnd
  <2> HIDE DEF g
  <2>3. newest' \in [Accounts -> 0..MaxIssued] /\ profile' \in [Accounts -> 0..MaxIssued]
    BY <2>1, <2>2 DEF SwitchInv, TypeOK
  <2> QED BY <2>3 DEF SignInEnd, SwitchInv, TypeOK
<1>2. CASE ~(newest[a] < MaxIssued)
  BY <1>2 DEF SignInEnd, SwitchInv, TypeOK
<1> QED BY <1>1, <1>2

LEMMA SyncTypes == ASSUME SwitchInv, Sync PROVE TypeOK'
<1>1. op.active \in Accounts /\ primary.gen \in 0..MaxIssued /\ profile[op.active] \in 0..MaxIssued
  BY OpFields DEF Sync, SwitchInv, TypeOK, OpInv, Logins
<1>2. Login(op.active, profile[op.active]) \in Logins
  BY <1>1, StateTypes DEF SwitchInv
<1> QED BY <1>1, <1>2 DEF Sync, SwitchInv, TypeOK

(* What is written to the state file.                                      *)
LEMMA InstalledTypes == ASSUME SwitchInv, Installed PROVE TypeOK'
<1>1. op.target \in Accounts
  BY OpFields DEF Installed, SwitchInv, OpInv
<1>2. [Settled(op.target) EXCEPT !.phase = "installed"] \in States
  BY <1>1 DEF States
<1>3. op' \in Ops
  BY <1>1, OpTypes DEF Installed, Throw, SwitchInv, TypeOK, Places, Kinds
<1> QED BY <1>2, <1>3 DEF Installed, Throw, SwitchInv, TypeOK

LEMMA ApplyLaterTypes == ASSUME SwitchInv, ApplyLater PROVE TypeOK'
<1> DEFINE p == op.arg # sw.active \/ RefreshPending
<1>1. op.arg \in Accounts /\ sw \in States
  BY OpFields DEF ApplyLater, SwitchInv, OpInv, TypeOK
<1>2. sw' = [sw EXCEPT !.desired = op.arg, !.phase = "idle", !.pending = p] /\ p \in BOOLEAN
  BY DEF ApplyLater, RefreshPending
<1> HIDE DEF p
<1>3. sw' \in States
  BY <1>1, <1>2 DEF States
<1> QED BY <1>3 DEF ApplyLater, SwitchInv, TypeOK

LEMMA RestoreFailsTypes == ASSUME SwitchInv, RestoreFails PROVE TypeOK'
<1>1. CASE op.after = "failed"
  <2>1. op.target \in Accounts /\ op.active \in Accounts
    BY <1>1, OpFields DEF RestoreFails, SwitchInv, OpInv
  <2>2. sw' \in States /\ op' = op
    BY <1>1, <2>1, StateTypes DEF RestoreFails, SwitchInv
  <2> QED BY <1>1, <2>2 DEF RestoreFails, SwitchInv, TypeOK
<1>2. CASE op.after # "failed"
  <2>1. NoOp \in Ops
    BY OpTypes DEF SwitchInv, Kinds
  <2> QED BY <1>2, <2>1 DEF RestoreFails, SwitchInv, TypeOK
<1> QED BY <1>1, <1>2

LEMMA FailedTypes == ASSUME SwitchInv, Failed PROVE TypeOK'
<1>1. NoOp \in Ops /\ torn' \subseteq {"policy", "marker", "removal"}
  BY OpTypes DEF Failed, SwitchInv, TypeOK, Kinds
<1>2. CASE op.kind = "select"
  <2>1. op.before.sw \in States /\ op.before.sw.active \in Accounts
    BY <1>2, OpFields DEF Failed, SwitchInv, OpInv
  <2>2. [op EXCEPT !.kind = "undo", !.arg = op.before.sw.active] \in Ops
    BY <2>1, OpTypes DEF SwitchInv, Kinds
  <2>3. op' \in Ops /\ sw' \in States
    BY <1>1, <1>2, <2>1, <2>2 DEF Failed, SwitchInv, TypeOK
  <2> QED BY <1>1, <2>3 DEF Failed, SwitchInv, TypeOK
<1>3. CASE op.kind # "select"
  BY <1>1, <1>3 DEF Failed, SwitchInv, TypeOK
<1> QED BY <1>2, <1>3

LEMMA EnsureTypes == ASSUME SwitchInv, Ensure PROVE TypeOK'
<1>1. [sw |-> Ensured, selected |-> selected] \in Befores /\ Ensured \in States
  BY StateTypes DEF SwitchInv, TypeOK, Befores
<1>2. op' \in Ops
  BY <1>1, OpTypes DEF Ensure, SwitchInv, TypeOK, Kinds
<1> QED BY <1>1, <1>2 DEF Ensure, SwitchInv, TypeOK

LEMMA DispatchTypes == ASSUME SwitchInv, Dispatch PROVE TypeOK'
<1>1. sw.desired \in Accounts
  BY StateTypes DEF SwitchInv
<1>2. NoOp \in Ops /\ [op EXCEPT !.arg = sw.desired] \in Ops
  BY <1>1, OpTypes DEF SwitchInv, Kinds
<1>3. op' \in Ops
  BY <1>2 DEF Dispatch, Finalization, SwitchInv, TypeOK
<1> QED BY <1>3 DEF Dispatch, SwitchInv, TypeOK

(* Every step keeps the types.                                             *)
LEMMA TypesKept == ASSUME SwitchInv, Next PROVE TypeOK'
<1> USE TxnFields, OpFields, OpTypes, StateTypes
   DEF SwitchInv, TypeOK, OpInv, EvidenceInv, Kinds, Places
<1>1. CASE CodexStart \/ CodexStop
  BY <1>1 DEF CodexStart, CodexStop
<1>2. CASE CodexRefresh
  BY <1>2, CodexRefreshTypes
<1>3. ASSUME NEW a \in Accounts, OutsideLogin(a) PROVE TypeOK'
  BY <1>3, OutsideLoginTypes
<1>4. ASSUME NEW a \in Accounts, SignInStart(a) PROVE TypeOK'
  BY <1>4 DEF SignInStart
<1>5. ASSUME NEW a \in Accounts, SignInEnd(a) PROVE TypeOK'
  BY <1>5, SignInEndTypes
<1>6. ASSUME NEW k \in Kinds, NEW a \in Accounts \cup {None},
             (k # "reconcile" => a # None) /\ k # "undo", Begin(k, a)
      PROVE TypeOK'
  BY <1>6 DEF Begin
<1>7. CASE EnsureAccounts
  BY <1>7 DEF EnsureAccounts
<1>8. CASE RecoverRefused
  BY <1>8 DEF RecoverRefused
<1>9. CASE RecoverIdle
  BY <1>9 DEF RecoverIdle
<1>10. CASE RecoverInstalled
  BY <1>10 DEF RecoverInstalled
<1>11. CASE RecoverInterrupted
  BY <1>11 DEF RecoverInterrupted
<1>12. CASE RestoreAuth
  BY <1>12 DEF RestoreAuth
<1>13. CASE RestoreCatalog
  BY <1>13 DEF RestoreCatalog
<1>14. CASE RollState
  BY <1>14 DEF RollState
<1>15. CASE RmManifest
  BY <1>15 DEF RmManifest
<1>16. CASE RmAuth
  BY <1>16 DEF RmAuth
<1>17. CASE RmDir
  BY <1>17 DEF RmDir
<1>18. CASE Dispatch
  BY <1>18, DispatchTypes
<1>19. CASE Ensure
  BY <1>19, EnsureTypes
<1>20. CASE ApplyRefused
  BY <1>20 DEF ApplyRefused
<1>21. CASE ApplyLater
  BY <1>21, ApplyLaterTypes
<1>22. CASE ApplyNothing
  BY <1>22 DEF ApplyNothing
<1>23. CASE ApplyStart
  BY <1>23 DEF ApplyStart
<1>24. CASE Stage
  BY <1>24 DEF Stage
<1>25. CASE Publish
  BY <1>25, PublishTypes
<1>26. CASE Preparing
  BY <1>26 DEF Preparing, InPhase
<1>27. CASE Sync
  BY <1>27, SyncTypes
<1>28. CASE BackedUp
  BY <1>28 DEF BackedUp, InPhase
<1>29. CASE Install
  BY <1>29 DEF Install
<1>30. CASE Check
  BY <1>30 DEF Check, Throw
<1>31. CASE Refresh
  BY <1>31 DEF Refresh
<1>32. CASE Installed
  BY <1>32, InstalledTypes
<1>33. CASE Idle
  BY <1>33 DEF Idle
<1>34. CASE Commit
  BY <1>34 DEF Commit
<1>35. CASE Failed
  BY <1>35, FailedTypes
<1>36. CASE RestoreFails
  BY <1>36, RestoreFailsTypes
<1>37. CASE StageFails
  BY <1>37 DEF StageFails
<1>38. CASE RefreshFails
  BY <1>38 DEF RefreshFails, Throw
<1>39. CASE RemovalFails
  BY <1>39 DEF RemovalFails, Throw
<1>40. CASE CommitFails
  BY <1>40 DEF CommitFails
<1>41. CASE Crash
  BY <1>41 DEF Crash, UndoingCommitted
<1>42. CASE Entry
  <2>1. ASSUME NEW a \in Accounts, Select(a) \/ Finalize(a) PROVE TypeOK'
    BY <2>1, <1>6 DEF Select, Finalize, Kinds
  <2>2. CASE Reconcile
    BY <2>2, <1>6 DEF Reconcile, Kinds
  <2> QED BY <1>42, <1>7, <2>1, <2>2 DEF Entry
<1>43. CASE Recovery
  BY <1>43, <1>8, <1>9, <1>10, <1>11, <1>12, <1>13, <1>14, <1>15, <1>16, <1>17 DEF Recovery
<1>44. CASE Apply
  BY <1>44, <1>18, <1>19, <1>20, <1>21, <1>22, <1>23, <1>24, <1>25, <1>26, <1>27, <1>28, <1>29,
         <1>30, <1>31, <1>32, <1>33, <1>34, <1>35 DEF Apply
<1>45. CASE Failures
  BY <1>45, <1>36, <1>37, <1>38, <1>39, <1>40, <1>41 DEF Failures
<1>46. CASE Environment
  BY <1>46, <1>1, <1>2, <1>3, <1>4, <1>5 DEF Environment
<1> QED BY <1>42, <1>43, <1>44, <1>45, <1>46 DEF Next

---------------------------------------------------------------------------
LEMMA EndOpInv == ASSUME End PROVE OpInv'
BY DEF OpInv, NoOp, Kinds

LEMMA ApplyStartOpInv == ASSUME SwitchInv, ApplyStart PROVE OpInv'
<1>1. /\ op'.kind = op.kind /\ op'.arg = op.arg /\ op'.active = sw.active /\ op'.target = op.arg
      /\ op'.before = op.before
  BY DEF ApplyStart, SwitchInv, TypeOK, Ops
<1>2. sw.active # None /\ pc = "apply" /\ pc' = "stage"
  BY StateTypes DEF ApplyStart, SwitchInv
<1> QED BY <1>1, <1>2 DEF SwitchInv, OpInv

LEMMA DispatchOpInv == ASSUME SwitchInv, Dispatch PROVE OpInv'
<1>1. pc = "dispatch" /\ OpInv /\ op.kind # "undo"
  BY DEF Dispatch, SwitchInv, OpInv
<1>2. CASE End
  BY <1>2, EndOpInv
<1>3. CASE op' = op /\ op.arg # None /\ pc' \in {"ensure", "commit"} /\ (pc' = "commit" => op.kind = "finalize")
  BY <1>1, <1>3 DEF OpInv
<1>4. CASE op.kind = "reconcile" /\ pc' = "ensure" /\ op' = [op EXCEPT !.arg = sw.desired]
  <2>1. op'.kind = op.kind /\ op'.arg = sw.desired /\ op'.before = op.before
    BY <1>4 DEF SwitchInv, TypeOK, Ops
  <2>2. sw.desired # None
    BY StateTypes DEF SwitchInv
  <2> QED BY <1>1, <1>4, <2>1, <2>2 DEF OpInv
<1> QED BY <1>1, <1>2, <1>3, <1>4 DEF Dispatch, Finalization, OpInv

LEMMA EnsureOpInv == ASSUME SwitchInv, Ensure PROVE OpInv'
<1>1. pc = "ensure" /\ pc' = "apply" /\ OpInv /\ sw.phase = "idle"
  BY DEF Ensure, SwitchInv, EvidenceInv
<1>2. CASE op.kind = "select"
  <2>1. op' = [op EXCEPT !.before = [sw |-> Ensured, selected |-> selected]]
    BY <1>2 DEF Ensure
  <2>2. /\ op'.kind = op.kind /\ op'.arg = op.arg
        /\ op'.before = [sw |-> Ensured, selected |-> selected]
    BY <2>1 DEF SwitchInv, TypeOK, Ops
  <2>3. [sw |-> Ensured, selected |-> selected] \in Befores
    BY StateTypes DEF SwitchInv, TypeOK, Befores
  <2>4. Ensured.phase = "idle"
    BY <1>1 DEF Ensured, SwitchInv, TypeOK, States
  <2> QED BY <1>1, <1>2, <2>2, <2>3, <2>4 DEF OpInv
<1>3. CASE op.kind # "select"
  BY <1>1, <1>3 DEF OpInv, Ensure
<1> QED BY <1>2, <1>3

LEMMA FailedOpInv == ASSUME SwitchInv, Failed PROVE OpInv'
<1>1. pc = "failed" /\ OpInv
  BY DEF Failed, SwitchInv
<1>2. CASE End
  BY <1>2, EndOpInv
<1>3. CASE ~End
  <2>1. op.kind = "select" /\ pc' = "ensure" /\ op.before # None
    BY <1>1, <1>3 DEF Failed, OpInv
  <2>2. op' = [op EXCEPT !.kind = "undo", !.arg = op.before.sw.active]
    BY <1>3 DEF Failed
  <2>3. op'.kind = "undo" /\ op'.arg = op.before.sw.active /\ op'.before = op.before
    BY <2>2 DEF SwitchInv, TypeOK, Ops
  <2>4. op.before.sw.active # None
    BY <2>1, OpFields DEF SwitchInv
  <2> QED BY <1>1, <2>1, <2>3, <2>4 DEF OpInv, Kinds
<1> QED BY <1>2, <1>3

(* Every step leaves the operation as its place asks.                      *)
LEMMA OpKept == ASSUME SwitchInv, Next PROVE OpInv'
<1> USE DEF SwitchInv, OpInv, EvidenceInv, TypeOK, Kinds, Places, Ops, NoOp
<1>1. CASE Environment
  BY <1>1 DEF Environment, CodexStart, CodexStop, CodexRefresh, OutsideLogin, SignInStart, SignInEnd
<1>2. ASSUME NEW k \in Kinds, NEW a \in Accounts \cup {None},
             (k # "reconcile" => a # None) /\ k # "undo", Begin(k, a)
      PROVE OpInv'
  BY <1>2 DEF Begin, NoOp
<1>3. CASE EnsureAccounts
  BY <1>3 DEF EnsureAccounts, Ensured
<1>4. CASE RecoverRefused
  BY <1>4 DEF RecoverRefused
<1>5. CASE RecoverIdle
  BY <1>5 DEF RecoverIdle, Refused, Incomplete
<1>6. CASE RecoverInstalled
  BY <1>6 DEF RecoverInstalled, Refused, Incomplete
<1>7. CASE RecoverInterrupted
  BY <1>7 DEF RecoverInterrupted, Refused, Incomplete
<1>8. CASE RestoreAuth
  BY <1>8 DEF RestoreAuth
<1>9. CASE RestoreCatalog
  BY <1>9 DEF RestoreCatalog
<1>10. CASE RollState
  BY <1>10 DEF RollState
<1>11. CASE RmManifest
  BY <1>11 DEF RmManifest
<1>12. CASE RmAuth
  BY <1>12 DEF RmAuth
<1>13. CASE RmDir
  BY <1>13 DEF RmDir
<1>14. CASE Dispatch
  BY <1>14, DispatchOpInv
<1>15. CASE Ensure
  BY <1>15, EnsureOpInv
<1>16. CASE ApplyRefused
  BY <1>16 DEF ApplyRefused
<1>17. CASE ApplyLater
  BY <1>17 DEF ApplyLater
<1>18. CASE ApplyNothing
  BY <1>18 DEF ApplyNothing
<1>19. CASE ApplyStart
  BY <1>19, ApplyStartOpInv
<1>20. CASE Stage
  BY <1>20 DEF Stage
<1>21. CASE Publish
  BY <1>21 DEF Publish
<1>22. CASE Preparing
  BY <1>22 DEF Preparing, InPhase
<1>23. CASE Sync
  BY <1>23 DEF Sync
<1>24. CASE BackedUp
  BY <1>24 DEF BackedUp, InPhase
<1>25. CASE Install
  BY <1>25 DEF Install
<1>26. CASE Check
  BY <1>26 DEF Check, Throw, SnapshotInstalled, Login
<1>27. CASE Refresh
  BY <1>27 DEF Refresh
<1>28. CASE Installed
  BY <1>28 DEF Installed, Throw, SnapshotInstalled, InPhase, Login
<1>29. CASE Idle
  BY <1>29 DEF Idle
<1>30. CASE Commit
  BY <1>30 DEF Commit
<1>31. CASE Failed
  BY <1>31, FailedOpInv
<1>32. CASE RestoreFails
  BY <1>32 DEF RestoreFails
<1>33. CASE StageFails
  BY <1>33 DEF StageFails
<1>34. CASE RefreshFails
  BY <1>34 DEF RefreshFails, Throw
<1>35. CASE RemovalFails
  BY <1>35 DEF RemovalFails, Throw
<1>36. CASE CommitFails
  BY <1>36 DEF CommitFails
<1>37. CASE Crash
  BY <1>37 DEF Crash, UndoingCommitted
<1>38. CASE Entry
  <2>1. ASSUME NEW a \in Accounts, Select(a) \/ Finalize(a) PROVE OpInv'
    BY <2>1, <1>2 DEF Select, Finalize, Kinds
  <2>2. CASE Reconcile
    BY <2>2, <1>2 DEF Reconcile, Kinds
  <2> QED BY <1>38, <1>3, <2>1, <2>2 DEF Entry
<1>39. CASE Recovery
  BY <1>39, <1>4, <1>5, <1>6, <1>7, <1>8, <1>9, <1>10, <1>11, <1>12, <1>13 DEF Recovery
<1>40. CASE Apply
  BY <1>40, <1>14, <1>15, <1>16, <1>17, <1>18, <1>19, <1>20, <1>21, <1>22, <1>23, <1>24, <1>25,
         <1>26, <1>27, <1>28, <1>29, <1>30, <1>31 DEF Apply
<1>41. CASE Failures
  BY <1>41, <1>32, <1>33, <1>34, <1>35, <1>36, <1>37 DEF Failures
<1> QED BY <1>1, <1>38, <1>39, <1>40, <1>41 DEF Next

---------------------------------------------------------------------------
LEMMA PublishEvidenceInv == ASSUME SwitchInv, Publish PROVE EvidenceInv'
<1>1. /\ pc = "publish" /\ pc' = "preparing" /\ UNCHANGED <<op, sw>> /\ txn' # None
      /\ txn'.man /\ txn'.auth /\ txn'.active = op.active /\ txn'.target = op.target
  BY PublishTxn DEF Publish
<1>2. txn = None /\ sw.phase = "idle"
  BY <1>1 DEF SwitchInv, EvidenceInv
<1> QED BY <1>1, <1>2 DEF SwitchInv, EvidenceInv

LEMMA RecoverInterruptedEvidenceInv == ASSUME SwitchInv, RecoverInterrupted PROVE EvidenceInv'
<1>1. /\ pc = "recover" /\ pc' = "restoreAuth" /\ sw.phase # "idle" /\ UNCHANGED <<sw, txn, torn>>
      /\ op'.after = "dispatch" /\ ~Refused
  BY DEF RecoverInterrupted, SwitchInv, TypeOK, Ops
<1>2. Complete
  BY <1>1 DEF SwitchInv, EvidenceInv, Refused, Undiscardable
<1> QED BY <1>1, <1>2 DEF SwitchInv, EvidenceInv

(* No step leaves a phase without its transaction.                         *)
LEMMA EvidenceKept == ASSUME SwitchInv, Next PROVE EvidenceInv'
<1> USE TxnFields DEF SwitchInv, EvidenceInv, OpInv, TypeOK, States, Txns, Ops, Places
<1>1. CASE Environment
  BY <1>1 DEF Environment, CodexStart, CodexStop, CodexRefresh, OutsideLogin, SignInStart, SignInEnd
<1>2. ASSUME NEW k \in Kinds, NEW a \in Accounts \cup {None},
             (k # "reconcile" => a # None) /\ k # "undo", Begin(k, a)
      PROVE EvidenceInv'
  BY <1>2 DEF Begin, NoOp
<1>3. CASE EnsureAccounts
  BY <1>3 DEF EnsureAccounts, Ensured
<1>4. CASE RecoverRefused
  BY <1>4 DEF RecoverRefused
<1>5. CASE RecoverIdle
  BY <1>5 DEF RecoverIdle, Refused, Incomplete
<1>6. CASE RecoverInstalled
  BY <1>6 DEF RecoverInstalled, Refused, Incomplete
<1>7. CASE RecoverInterrupted
  BY <1>7, RecoverInterruptedEvidenceInv
<1>8. CASE RestoreAuth
  BY <1>8 DEF RestoreAuth
<1>9. CASE RestoreCatalog
  BY <1>9 DEF RestoreCatalog
<1>10. CASE RollState
  BY <1>10 DEF RollState
<1>11. CASE RmManifest
  BY <1>11 DEF RmManifest
<1>12. CASE RmAuth
  BY <1>12 DEF RmAuth
<1>13. CASE RmDir
  BY <1>13 DEF RmDir
<1>14. CASE Dispatch
  BY <1>14 DEF Dispatch, Finalization
<1>15. CASE Ensure
  BY <1>15 DEF Ensure, Ensured
<1>16. CASE ApplyRefused
  BY <1>16 DEF ApplyRefused
<1>17. CASE ApplyLater
  BY <1>17 DEF ApplyLater
<1>18. CASE ApplyNothing
  BY <1>18 DEF ApplyNothing
<1>19. CASE ApplyStart
  BY <1>19 DEF ApplyStart
<1>20. CASE Stage
  BY <1>20 DEF Stage
<1>21. CASE Publish
  BY <1>21, PublishEvidenceInv
<1>22. CASE Preparing
  BY <1>22 DEF Preparing, InPhase
<1>23. CASE Sync
  BY <1>23 DEF Sync
<1>24. CASE BackedUp
  BY <1>24 DEF BackedUp, InPhase
<1>25. CASE Install
  BY <1>25 DEF Install
<1>26. CASE Check
  BY <1>26 DEF Check, Throw, SnapshotInstalled, Login
<1>27. CASE Refresh
  BY <1>27 DEF Refresh
<1>28. CASE Installed
  BY <1>28 DEF Installed, Throw, SnapshotInstalled, InPhase, Login
<1>29. CASE Idle
  BY <1>29 DEF Idle
<1>30. CASE Commit
  BY <1>30 DEF Commit
<1>31. CASE Failed
  BY <1>31 DEF Failed
<1>32. CASE RestoreFails
  BY <1>32 DEF RestoreFails
<1>33. CASE StageFails
  BY <1>33 DEF StageFails
<1>34. CASE RefreshFails
  BY <1>34 DEF RefreshFails, Throw
<1>35. CASE RemovalFails
  BY <1>35 DEF RemovalFails, Throw
<1>36. CASE CommitFails
  BY <1>36 DEF CommitFails
<1>37. CASE Crash
  BY <1>37 DEF Crash, UndoingCommitted
<1>38. CASE Entry
  <2>1. ASSUME NEW a \in Accounts, Select(a) \/ Finalize(a) PROVE EvidenceInv'
    BY <2>1, <1>2 DEF Select, Finalize, Kinds
  <2>2. CASE Reconcile
    BY <2>2, <1>2 DEF Reconcile, Kinds
  <2> QED BY <1>38, <1>3, <2>1, <2>2 DEF Entry
<1>39. CASE Recovery
  BY <1>39, <1>4, <1>5, <1>6, <1>7, <1>8, <1>9, <1>10, <1>11, <1>12, <1>13 DEF Recovery
<1>40. CASE Apply
  BY <1>40, <1>14, <1>15, <1>16, <1>17, <1>18, <1>19, <1>20, <1>21, <1>22, <1>23, <1>24, <1>25,
         <1>26, <1>27, <1>28, <1>29, <1>30, <1>31 DEF Apply
<1>41. CASE Failures
  BY <1>41, <1>32, <1>33, <1>34, <1>35, <1>36, <1>37 DEF Failures
<1> QED BY <1>1, <1>38, <1>39, <1>40, <1>41 DEF Next

---------------------------------------------------------------------------
(* No step, crash or retry parts the marker, the catalog and the login.    *)
LEMMA AccountKept == ASSUME SwitchInv, Next PROVE AccountInv'
<1> USE TxnFields DEF SwitchInv, AccountInv, EvidenceInv, OpInv, TypeOK, States, Ops, Places, Login
<1>1. CASE CodexStart \/ CodexStop \/ CodexRefresh
  BY <1>1 DEF CodexStart, CodexStop, CodexRefresh
<1>2. ASSUME NEW a \in Accounts, OutsideLogin(a) PROVE AccountInv'
  BY <1>2 DEF OutsideLogin
<1>3. ASSUME NEW a \in Accounts, SignInStart(a) \/ SignInEnd(a) PROVE AccountInv'
  BY <1>3 DEF SignInStart, SignInEnd
<1>4. ASSUME NEW k \in Kinds, NEW a \in Accounts \cup {None},
             (k # "reconcile" => a # None) /\ k # "undo", Begin(k, a)
      PROVE AccountInv'
  BY <1>4 DEF Begin, NoOp
<1>5. CASE EnsureAccounts
  BY <1>5 DEF EnsureAccounts, Ensured
<1>6. CASE RecoverRefused
  BY <1>6 DEF RecoverRefused
<1>7. CASE RecoverIdle
  BY <1>7 DEF RecoverIdle, Refused, Incomplete
<1>8. CASE RecoverInstalled
  BY <1>8 DEF RecoverInstalled, Refused, Incomplete
<1>9. CASE RecoverInterrupted
  BY <1>9 DEF RecoverInterrupted, Refused, Incomplete
<1>10. CASE RestoreAuth
  BY <1>10 DEF RestoreAuth
<1>11. CASE RestoreCatalog
  BY <1>11 DEF RestoreCatalog
<1>12. CASE RollState
  BY <1>12 DEF RollState
<1>13. CASE RmManifest
  BY <1>13 DEF RmManifest
<1>14. CASE RmAuth
  BY <1>14 DEF RmAuth
<1>15. CASE RmDir
  BY <1>15 DEF RmDir
<1>16. CASE Dispatch
  BY <1>16 DEF Dispatch, Finalization
<1>17. CASE Ensure
  BY <1>17 DEF Ensure, Ensured
<1>18. CASE ApplyRefused
  BY <1>18 DEF ApplyRefused
<1>19. CASE ApplyLater
  BY <1>19 DEF ApplyLater
<1>20. CASE ApplyNothing
  BY <1>20 DEF ApplyNothing
<1>21. CASE ApplyStart
  BY <1>21 DEF ApplyStart
<1>22. CASE Stage
  BY <1>22 DEF Stage
<1>23. CASE Publish
  BY <1>23 DEF Publish
<1>24. CASE Preparing
  BY <1>24 DEF Preparing, InPhase
<1>25. CASE Sync
  BY <1>25 DEF Sync
<1>26. CASE BackedUp
  BY <1>26 DEF BackedUp, InPhase
<1>27. CASE Install
  BY <1>27 DEF Install
<1>28. CASE Check
  BY <1>28 DEF Check, Throw, SnapshotInstalled, Login
<1>29. CASE Refresh
  BY <1>29 DEF Refresh
<1>30. CASE Installed
  BY <1>30 DEF Installed, Throw, SnapshotInstalled, InPhase, Login
<1>31. CASE Idle
  BY <1>31 DEF Idle
<1>32. CASE Commit
  BY <1>32 DEF Commit
<1>33. CASE Failed
  BY <1>33 DEF Failed
<1>34. CASE RestoreFails
  BY <1>34 DEF RestoreFails
<1>35. CASE StageFails
  BY <1>35 DEF StageFails
<1>36. CASE RefreshFails
  BY <1>36 DEF RefreshFails, Throw
<1>37. CASE RemovalFails
  BY <1>37 DEF RemovalFails, Throw
<1>38. CASE CommitFails
  BY <1>38 DEF CommitFails
<1>39. CASE Crash
  BY <1>39 DEF Crash, UndoingCommitted
<1>40. CASE Entry
  <2>1. ASSUME NEW a \in Accounts, Select(a) \/ Finalize(a) PROVE AccountInv'
    BY <2>1, <1>4 DEF Select, Finalize, Kinds
  <2>2. CASE Reconcile
    BY <2>2, <1>4 DEF Reconcile, Kinds
  <2> QED BY <1>40, <1>5, <2>1, <2>2 DEF Entry
<1>41. CASE Recovery
  BY <1>41, <1>6, <1>7, <1>8, <1>9, <1>10, <1>11, <1>12, <1>13, <1>14, <1>15 DEF Recovery
<1>42. CASE Apply
  BY <1>42, <1>16, <1>17, <1>18, <1>19, <1>20, <1>21, <1>22, <1>23, <1>24, <1>25, <1>26, <1>27,
         <1>28, <1>29, <1>30, <1>31, <1>32, <1>33 DEF Apply
<1>43. CASE Failures
  BY <1>43, <1>34, <1>35, <1>36, <1>37, <1>38, <1>39 DEF Failures
<1>44. CASE Environment
  BY <1>44, <1>1, <1>2, <1>3 DEF Environment
<1> QED BY <1>40, <1>41, <1>42, <1>43, <1>44 DEF Next

---------------------------------------------------------------------------
LEMMA EndPolicyInv ==
    ASSUME End, "policy" \notin torn' => sw'.desired = selected' /\ (txn' # None => txn'.target = selected')
    PROVE  PolicyInv'
BY DEF PolicyInv, NoOp, Kinds

LEMMA RecoverRefusedPolicyInv == ASSUME SwitchInv, RecoverRefused PROVE PolicyInv'
<1>1. pc = "recover" /\ End /\ UNCHANGED <<torn, sw, selected, txn>>
  BY DEF RecoverRefused
<1> QED BY <1>1, EndPolicyInv DEF SwitchInv, PolicyInv

LEMMA DispatchPolicyInv == ASSUME SwitchInv, Dispatch PROVE PolicyInv'
<1>1. pc = "dispatch" /\ UNCHANGED <<torn, sw, selected, txn>>
  BY DEF Dispatch
<1>2. "policy" \notin torn => sw.desired = selected /\ (txn # None => txn.target = selected)
  BY <1>1 DEF SwitchInv, PolicyInv
<1>3. CASE End
  BY <1>1, <1>2, <1>3, EndPolicyInv
<1>4. CASE op' = op /\ op.kind \in {"select", "finalize"} /\ pc' \in {"ensure", "commit"}
           /\ (pc' = "commit" => op.kind = "finalize")
  BY <1>1, <1>2, <1>4 DEF SwitchInv, PolicyInv
<1>5. CASE op.kind = "reconcile" /\ pc' = "ensure" /\ op' = [op EXCEPT !.arg = sw.desired]
  <2>1. op'.kind = op.kind /\ op'.arg = sw.desired /\ op'.before = op.before
    BY <1>5 DEF SwitchInv, TypeOK, Ops
  <2> QED BY <1>1, <1>2, <1>5, <2>1 DEF SwitchInv, PolicyInv
<1> QED BY <1>1, <1>3, <1>4, <1>5 DEF Dispatch, Finalization

LEMMA CommitPolicyInv == ASSUME SwitchInv, Commit PROVE PolicyInv'
<1>1. pc = "commit" /\ End /\ txn = None /\ txn' = None /\ ("policy" \notin torn' => "policy" \notin torn)
  BY DEF Commit, SwitchInv, EvidenceInv
<1>2. ASSUME "policy" \notin torn' PROVE sw'.desired = selected'
  <2>1. CASE op.kind = "select" /\ selected' = op.arg /\ sw' = sw
    BY <1>1, <1>2, <2>1 DEF SwitchInv, PolicyInv
  <2>2. CASE op.kind = "undo" /\ sw' = op.before.sw /\ selected' = selected
    BY <1>1, <1>2, <2>2 DEF SwitchInv, PolicyInv, OpInv
  <2>3. CASE op.kind = "reconcile" /\ sw' = sw /\ selected' = selected
    BY <1>1, <1>2, <2>3 DEF SwitchInv, PolicyInv
  <2>4. CASE op.kind = "finalize" /\ sw' = sw /\ selected' = selected
    <3>1. selected = op.arg
      BY <1>2, <2>4 DEF Commit
    <3> QED BY <1>1, <1>2, <2>4, <3>1 DEF SwitchInv, PolicyInv
  <2> QED BY <2>1, <2>2, <2>3, <2>4 DEF Commit
<1> QED BY <1>1, <1>2, EndPolicyInv

LEMMA FailedPolicyInv == ASSUME SwitchInv, Failed PROVE PolicyInv'
<1>1. pc = "failed" /\ UNCHANGED <<selected, txn>> /\ ("policy" \notin torn' => "policy" \notin torn)
  BY DEF Failed
<1>2. SUFFICES ASSUME "policy" \notin torn' PROVE PolicyInv'
  BY DEF PolicyInv
<1>3. /\ op.kind \notin {"undo", "finalize"} /\ sw.phase = "idle" /\ txn = None
      /\ op.kind \in {"select", "reconcile"}
  BY <1>1, <1>2 DEF Failed, SwitchInv, EvidenceInv, OpInv, TypeOK, Ops, Kinds
<1>4. CASE op.kind = "reconcile"
  <2>1. End /\ sw' = sw
    BY <1>4 DEF Failed
  <2>2. sw.desired = selected
    BY <1>1, <1>2, <1>4 DEF SwitchInv, PolicyInv
  <2> QED BY <1>1, <1>3, <2>1, <2>2, EndPolicyInv
<1>5. CASE op.kind = "select"
  <2>1. op.before # None /\ op.before.sw.desired = selected
    BY <1>1, <1>2, <1>5 DEF SwitchInv, OpInv, PolicyInv
  <2>2. CASE sw.active = op.before.sw.active
    <3>1. End /\ sw' = op.before.sw
      BY <1>3, <1>5, <2>2 DEF Failed
    <3> QED BY <1>1, <1>3, <2>1, <3>1, EndPolicyInv
  <2>3. CASE sw.active # op.before.sw.active
    <3>1. pc' = "ensure" /\ op' = [op EXCEPT !.kind = "undo", !.arg = op.before.sw.active]
      BY <1>3, <1>5, <2>3 DEF Failed
    <3>2. op'.kind = "undo" /\ op'.before = op.before
      BY <3>1 DEF SwitchInv, TypeOK, Ops
    <3>3. pc' = "ensure"
      BY <3>1
    <3> QED BY <1>1, <2>1, <3>2, <3>3 DEF PolicyInv
  <2> QED BY <2>2, <2>3
<1> QED BY <1>3, <1>4, <1>5

LEMMA RestoreFailsPolicyInv == ASSUME SwitchInv, RestoreFails PROVE PolicyInv'
<1>1. /\ pc \in Cleaning /\ UNCHANGED <<selected, txn>> /\ txn # None
      /\ "policy" \in torn' <=> "policy" \in torn
  BY DEF RestoreFails, SwitchInv, EvidenceInv
<1>2. CASE op.after = "failed"
  <2>1. pc' = "failed" /\ op' = op /\ sw'.desired = op.target
    BY <1>2 DEF RestoreFails
  <2>2. op.target = op.arg /\ txn.target = op.target /\ ~InRecovery
    BY <1>1, <1>2 DEF SwitchInv, OpInv, EvidenceInv
  <2> QED BY <1>1, <2>1, <2>2 DEF SwitchInv, PolicyInv
<1>3. CASE op.after # "failed"
  <2>1. End /\ sw' = sw
    BY <1>3 DEF RestoreFails
  <2>2. op.after = "dispatch"
    BY <1>1, <1>3 DEF RestoreFails, SwitchInv, OpInv, TypeOK, Ops, Places
  <2> QED BY <1>1, <2>1, <2>2, EndPolicyInv DEF SwitchInv, PolicyInv
<1> QED BY <1>2, <1>3
(* No step parts the policy from the account that is wished for.           *)
LEMMA PolicyKept == ASSUME SwitchInv, Next PROVE PolicyInv'
<1> USE TxnFields DEF SwitchInv, PolicyInv, EvidenceInv, OpInv, TypeOK, States, Ops, Places, NoOp
<1>1. CASE Environment
  BY <1>1 DEF Environment, CodexStart, CodexStop, CodexRefresh, OutsideLogin, SignInStart, SignInEnd
<1>2. ASSUME NEW k \in Kinds, NEW a \in Accounts \cup {None},
             (k # "reconcile" => a # None) /\ k # "undo", Begin(k, a)
      PROVE PolicyInv'
  BY <1>2 DEF Begin, NoOp
<1>3. CASE EnsureAccounts
  BY <1>3 DEF EnsureAccounts, Ensured
<1>4. CASE RecoverRefused
  BY <1>4, RecoverRefusedPolicyInv
<1>5. CASE RecoverIdle
  BY <1>5 DEF RecoverIdle, Refused, Incomplete
<1>6. CASE RecoverInstalled
  BY <1>6 DEF RecoverInstalled, Refused, Incomplete
<1>7. CASE RecoverInterrupted
  BY <1>7 DEF RecoverInterrupted, Refused, Incomplete
<1>8. CASE RestoreAuth
  BY <1>8 DEF RestoreAuth
<1>9. CASE RestoreCatalog
  BY <1>9 DEF RestoreCatalog
<1>10. CASE RollState
  BY <1>10 DEF RollState
<1>11. CASE RmManifest
  BY <1>11 DEF RmManifest
<1>12. CASE RmAuth
  BY <1>12 DEF RmAuth
<1>13. CASE RmDir
  BY <1>13 DEF RmDir
<1>14. CASE Dispatch
  BY <1>14, DispatchPolicyInv
<1>15. CASE Ensure
  BY <1>15 DEF Ensure, Ensured
<1>16. CASE ApplyRefused
  BY <1>16 DEF ApplyRefused
<1>17. CASE ApplyLater
  BY <1>17 DEF ApplyLater
<1>18. CASE ApplyNothing
  BY <1>18 DEF ApplyNothing
<1>19. CASE ApplyStart
  BY <1>19 DEF ApplyStart
<1>20. CASE Stage
  BY <1>20 DEF Stage
<1>21. CASE Publish
  BY <1>21 DEF Publish
<1>22. CASE Preparing
  BY <1>22 DEF Preparing, InPhase
<1>23. CASE Sync
  BY <1>23 DEF Sync
<1>24. CASE BackedUp
  BY <1>24 DEF BackedUp, InPhase
<1>25. CASE Install
  BY <1>25 DEF Install
<1>26. CASE Check
  BY <1>26 DEF Check, Throw, SnapshotInstalled, Login
<1>27. CASE Refresh
  BY <1>27 DEF Refresh
<1>28. CASE Installed
  BY <1>28 DEF Installed, Throw, SnapshotInstalled, InPhase, Login
<1>29. CASE Idle
  BY <1>29 DEF Idle
<1>30. CASE Commit
  BY <1>30, CommitPolicyInv
<1>31. CASE Failed
  BY <1>31, FailedPolicyInv
<1>32. CASE RestoreFails
  BY <1>32, RestoreFailsPolicyInv
<1>33. CASE StageFails
  BY <1>33 DEF StageFails
<1>34. CASE RefreshFails
  BY <1>34 DEF RefreshFails, Throw
<1>35. CASE RemovalFails
  BY <1>35 DEF RemovalFails, Throw
<1>36. CASE CommitFails
  BY <1>36 DEF CommitFails
<1>37. CASE Crash
  BY <1>37 DEF Crash, UndoingCommitted
<1>38. CASE Entry
  <2>1. ASSUME NEW a \in Accounts, Select(a) \/ Finalize(a) PROVE PolicyInv'
    BY <2>1, <1>2 DEF Select, Finalize, Kinds
  <2>2. CASE Reconcile
    BY <2>2, <1>2 DEF Reconcile, Kinds
  <2> QED BY <1>38, <1>3, <2>1, <2>2 DEF Entry
<1>39. CASE Recovery
  BY <1>39, <1>4, <1>5, <1>6, <1>7, <1>8, <1>9, <1>10, <1>11, <1>12, <1>13 DEF Recovery
<1>40. CASE Apply
  BY <1>40, <1>14, <1>15, <1>16, <1>17, <1>18, <1>19, <1>20, <1>21, <1>22, <1>23, <1>24, <1>25,
         <1>26, <1>27, <1>28, <1>29, <1>30, <1>31 DEF Apply
<1>41. CASE Failures
  BY <1>41, <1>32, <1>33, <1>34, <1>35, <1>36, <1>37 DEF Failures
<1> QED BY <1>1, <1>38, <1>39, <1>40, <1>41 DEF Next

---------------------------------------------------------------------------
LEMMA SwitchStarts == Init => SwitchInv
<1> SUFFICES ASSUME Init PROVE SwitchInv
  OBVIOUS
<1>1. 0 \in 0..MaxIssued /\ Login(First, 0) \in Logins /\ Settled(First) \in States /\ NoOp \in Ops
  BY DEF Logins, Login, States, Ops, NoOp
<1>2. TypeOK
  BY <1>1 DEF Init, TypeOK
<1> QED BY <1>2 DEF Init, SwitchInv, OpInv, EvidenceInv, AccountInv, PolicyInv, NoOp, Login, Kinds

LEMMA SwitchStep == SwitchInv /\ [Next]_vars => SwitchInv'
<1>1. ASSUME SwitchInv, Next PROVE SwitchInv'
  BY <1>1, TypesKept, OpKept, EvidenceKept, AccountKept, PolicyKept DEF SwitchInv
<1>2. ASSUME SwitchInv, UNCHANGED vars PROVE SwitchInv'
  BY <1>2 DEF vars, SwitchInv, TypeOK, OpInv, EvidenceInv, AccountInv, PolicyInv
<1> QED BY <1>1, <1>2

(* The inductive invariant holds in every state of a switch.               *)
THEOREM SwitchInvariant == Spec => []SwitchInv
BY SwitchStarts, SwitchStep, PTL DEF Spec

(* Every file, marker and operation of the switch keeps its type.          *)
THEOREM SwitchTypes == Spec => []TypeOK
<1>1. SwitchInv => TypeOK
  BY DEF SwitchInv
<1> QED BY <1>1, SwitchInvariant, PTL

(* Whatever crashes or fails, a state file outside phase idle has its      *)
(* complete transaction on disk for recoverInterruptedSwitchLocked, unless *)
(* the catch of applyLocked wrote the phase after its removal of the       *)
(* transaction, or the one it undoes, had failed past the manifest.        *)
THEOREM EvidenceIsDurable == Spec => []DurableEvidence
<1>1. SwitchInv => DurableEvidence
  BY DEF SwitchInv, EvidenceInv, DurableEvidence
<1> QED BY <1>1, SwitchInvariant, PTL

(* Once nothing is left of a switch, the marker, the catalog and the login *)
(* are those of one account, and the policy names the one wished for.      *)
THEOREM AccountsAgree == Spec => []Agreement
<1>1. SwitchInv => Agreement
  BY DEF SwitchInv, EvidenceInv, AccountInv, PolicyInv, Agreement, Quiet
<1> QED BY <1>1, SwitchInvariant, PTL

---------------------------------------------------------------------------
(* The newest login of an account: it is also in the account's own copy    *)
(* if l is it; and l is it if the account's own copy is.                   *)
Copied(l) == l.gen = newest[l.acct] => profile[l.acct] = newest[l.acct]
Ahead(l) == profile[l.acct] = newest[l.acct] => l.gen = newest[l.acct]
(* What SwitchKeepsBoth is about.                                          *)
Calm == ~raced /\ ~outside /\ "marker" \notin torn
(* The switch is decided and the target's login read, but not installed.   *)
Begun == {"stage", "publish", "preparing", "sync", "backedUp", "install"}

(* No file is ahead of what was issued, and Codex is closed while a        *)
(* transaction is there.                                                   *)
BoundInv ==
    Calm => /\ \A a \in Accounts : profile[a] <= newest[a]
            /\ primary.gen <= newest[primary.acct]
            /\ txn # None => txn.saved.gen <= newest[txn.saved.acct]
            /\ pc \in Begun => op.snap <= newest[op.target]
            /\ codex => txn = None /\ pc \notin {"stage", "publish"}

(* Of every login that a later step overwrites or removes there is another *)
(* copy: the login in place, the one to be installed, the one saved.       *)
CopyInv ==
    /\ pc = "rmDir" => ~txn.auth
    /\ Calm => /\ pc \in {"preparing", "sync", "restoreCatalog", "rollState"} => primary = txn.saved
               /\ txn # None => primary = txn.saved \/ Copied(primary)
               /\ pc \in Begun => Copied(Login(op.target, op.snap))
               /\ primary.acct \in later => Copied(primary)
               /\ txn # None /\ (primary # txn.saved \/ pc \in {"backedUp", "install"}) =>
                    Copied(txn.saved) \/ txn.active = txn.target

(* A login is behind the account's own copy only after a sign-in that is   *)
(* still to be finalized; so the file with the later mtime, which          *)
(* syncAuthProfile copies over the other one, is not the older login.      *)
LeaseInv ==
    Calm => /\ Ahead(primary) \/ lease[primary.acct] = "done"
            /\ txn # None => Ahead(txn.saved) \/ lease[txn.saved.acct] = "done"
            /\ pc \in Begun => Ahead(Login(op.target, op.snap)) \/ lease[op.target] = "done"
            /\ pc \in {"stage", "publish", "preparing", "sync"} =>
                 op.active = op.target \/ lease[op.active] # "done" \/ op.active \in later

(* A sign-in's lease goes once its login is in place, or is not in use.    *)
FinalInv ==
    Calm /\ op.kind = "finalize" =>
        /\ pc \in {"ensure", "apply"} => ~codex /\ op.arg = sw.active
        /\ ~InRecovery => lease[op.arg] = "done"
        /\ pc = "idle" \/ (pc \in Removing /\ op.after = "commit") =>
             primary = Login(op.arg, profile[op.arg])
        /\ pc = "commit" => op.arg # primary.acct \/ Ahead(primary)

(* The inductive invariant for the logins.                                 *)
KeepInv == SwitchInv /\ BoundInv /\ CopyInv /\ LeaseInv /\ FinalInv

(* What a login and a generation are.                                      *)
LEMMA LoginFields ==
    ASSUME TypeOK
    PROVE  /\ primary.acct \in Accounts /\ primary.gen \in Nat
           /\ \A a \in Accounts : profile[a] \in Nat /\ newest[a] \in Nat
           /\ txn # None => txn.saved.acct \in Accounts /\ txn.saved.gen \in Nat
           /\ op.snap \in Nat
<1>1. 0..MaxIssued \subseteq Nat
  OBVIOUS
<1> QED BY <1>1, TxnFields DEF TypeOK, Logins, Ops

(* SignInEnd: a new login in the own copy, or nothing.                     *)
LEMMA SignInFields ==
    ASSUME TypeOK, NEW a \in Accounts, SignInEnd(a)
    PROVE  /\ UNCHANGED <<primary, sw, txn, pc, op, codex, raced, outside, torn>>
           /\ lease[a] = "running" /\ \A x \in Accounts : x # a => lease'[x] = lease[x]
           /\ \A x \in Accounts : x # a => profile'[x] = profile[x] /\ newest'[x] = newest[x]
           /\ \/ /\ newest'[a] = newest[a] + 1 /\ profile'[a] = newest'[a] /\ lease'[a] = "done"
                 /\ later' = later \cup {a}
              \/ UNCHANGED <<newest, profile, later>> /\ lease'[a] = "none"
BY DEF TypeOK, SignInEnd

(* CodexRefresh: the login in place and the newest go on together.         *)
LEMMA RefreshFields ==
    ASSUME TypeOK, CodexRefresh
    PROVE  /\ UNCHANGED <<profile, sw, txn, pc, op, codex, raced, outside, lease, torn>>
           /\ codex /\ later' = {} /\ primary.gen = newest[primary.acct]
           /\ primary'.acct = primary.acct /\ primary'.gen = primary.gen + 1
           /\ newest'[primary.acct] = primary.gen + 1
           /\ \A x \in Accounts : x # primary.acct => newest'[x] = newest[x]
<1>1. primary.acct \in Accounts
  BY LoginFields
<1> QED BY <1>1 DEF TypeOK, CodexRefresh, Login

(* Sync: which of the two files is copied over the other.                  *)
LEMMA SyncFields ==
    ASSUME TypeOK, OpInv, Sync
    PROVE  /\ op.active \in Accounts /\ UNCHANGED <<sw, txn, op, env, torn>> /\ pc' = "backedUp"
           /\ \/ op.target = op.active /\ UNCHANGED <<primary, profile, later>>
              \/ /\ op.target # op.active /\ op.active \in later /\ UNCHANGED profile
                 /\ primary'.acct = op.active /\ primary'.gen = profile[op.active] /\ later' = {}
              \/ /\ op.target # op.active /\ op.active \notin later /\ UNCHANGED primary
                 /\ profile'[op.active] = primary.gen
                 /\ \A x \in Accounts : x # op.active => profile'[x] = profile[x]
                 /\ later' = later \cup {op.active}
<1>1. op.active \in Accounts
  BY OpFields DEF Sync, OpInv
<1> QED BY <1>1 DEF TypeOK, Sync, Login

(* ApplyStart: what the switch is decided to be.                           *)
LEMMA StartFields ==
    ASSUME TypeOK, ApplyStart
    PROVE  /\ op'.active = sw.active /\ op'.target = op.arg /\ op'.snap = profile[op.arg]
           /\ op'.kind = op.kind /\ op'.arg = op.arg
BY DEF TypeOK, ApplyStart, Ops

(* The accounts of a switch under way and of a finalization.               *)
LEMMA SwitchFields ==
    ASSUME TypeOK, OpInv
    PROVE  /\ pc \in Begun => op.target \in Accounts /\ op.active \in Accounts
           /\ op.kind = "finalize" => op.arg \in Accounts
BY OpFields DEF OpInv, Begun

(* Where the operation goes on after its clean-up.                         *)
LEMMA AfterField ==
    ASSUME TypeOK, OpInv, pc \in Cleaning
    PROVE  op.after \in {"dispatch", "failed", "commit"}
BY DEF TypeOK, OpInv, Ops, Places

(* An operation that ends leaves nothing to finalize.                      *)
LEMMA EndFinal == ASSUME End PROVE FinalInv'
BY DEF NoOp, FinalInv, Kinds

---------------------------------------------------------------------------
(* No step puts a login on disk that was not issued.                       *)
LEMMA BoundKept == ASSUME KeepInv, Next PROVE BoundInv'
<1> USE TxnFields, LoginFields
   DEF KeepInv, SwitchInv, AccountInv, EvidenceInv, OpInv, TypeOK, Places, Login, Calm, Begun, BoundInv
<1>1. CASE CodexStart \/ CodexStop \/ CodexRefresh
  <2>1. CASE CodexStart \/ CodexStop
    BY <2>1 DEF CodexStart, CodexStop
  <2>2. CASE CodexRefresh
    BY <2>2, RefreshFields, SwitchFields
  <2> QED BY <1>1, <2>1, <2>2
<1>2. ASSUME NEW a \in Accounts, OutsideLogin(a) PROVE BoundInv'
  BY <1>2 DEF OutsideLogin
<1>3. ASSUME NEW a \in Accounts, SignInStart(a) \/ SignInEnd(a) PROVE BoundInv'
  <2>1. CASE SignInStart(a)
    BY <2>1 DEF SignInStart
  <2>2. CASE SignInEnd(a)
    BY <2>2, SignInFields, SwitchFields
  <2> QED BY <1>3, <2>1, <2>2
<1>4. ASSUME NEW k \in Kinds, NEW a \in Accounts \cup {None},
             (k # "reconcile" => a # None) /\ k # "undo", Begin(k, a)
      PROVE BoundInv'
  BY <1>4 DEF Begin, NoOp
<1>5. CASE EnsureAccounts
  BY <1>5 DEF EnsureAccounts, Ensured
<1>6. CASE RecoverRefused
  BY <1>6 DEF RecoverRefused
<1>7. CASE RecoverIdle
  BY <1>7 DEF RecoverIdle, Refused, Incomplete
<1>8. CASE RecoverInstalled
  BY <1>8 DEF RecoverInstalled, Refused, Incomplete
<1>9. CASE RecoverInterrupted
  BY <1>9 DEF RecoverInterrupted, Refused, Incomplete
<1>10. CASE RestoreAuth
  BY <1>10 DEF RestoreAuth
<1>11. CASE RestoreCatalog
  BY <1>11 DEF RestoreCatalog
<1>12. CASE RollState
  BY <1>12 DEF RollState
<1>13. CASE RmManifest
  BY <1>13 DEF RmManifest
<1>14. CASE RmAuth
  BY <1>14 DEF RmAuth
<1>15. CASE RmDir
  BY <1>15, AfterField DEF RmDir
<1>16. CASE Dispatch
  BY <1>16 DEF Dispatch, Finalization
<1>17. CASE Ensure
  BY <1>17 DEF Ensure, Ensured
<1>18. CASE ApplyRefused
  BY <1>18 DEF ApplyRefused
<1>19. CASE ApplyLater
  BY <1>19 DEF ApplyLater
<1>20. CASE ApplyNothing
  BY <1>20 DEF ApplyNothing
<1>21. CASE ApplyStart
  BY <1>21, StartFields, OpFields DEF ApplyStart, LeaseHeld
<1>22. CASE Stage
  BY <1>22 DEF Stage
<1>23. CASE Publish
  BY <1>23 DEF Publish
<1>24. CASE Preparing
  BY <1>24 DEF Preparing, InPhase
<1>25. CASE Sync
  BY <1>25, SyncFields, SwitchFields DEF Sync, CopyInv, Copied
<1>26. CASE BackedUp
  BY <1>26 DEF BackedUp, InPhase
<1>27. CASE Install
  BY <1>27 DEF Install
<1>28. CASE Check
  BY <1>28 DEF Check, Throw, SnapshotInstalled, Login
<1>29. CASE Refresh
  BY <1>29 DEF Refresh
<1>30. CASE Installed
  BY <1>30 DEF Installed, Throw, SnapshotInstalled, InPhase, Login
<1>31. CASE Idle
  BY <1>31 DEF Idle
<1>32. CASE Commit
  BY <1>32 DEF Commit
<1>33. CASE Failed
  BY <1>33 DEF Failed
<1>34. CASE RestoreFails
  BY <1>34 DEF RestoreFails
<1>35. CASE StageFails
  BY <1>35 DEF StageFails
<1>36. CASE RefreshFails
  BY <1>36 DEF RefreshFails, Throw
<1>37. CASE RemovalFails
  BY <1>37 DEF RemovalFails, Throw
<1>38. CASE CommitFails
  BY <1>38 DEF CommitFails
<1>39. CASE Crash
  BY <1>39 DEF Crash, UndoingCommitted
<1>40. CASE Entry
  <2>1. ASSUME NEW a \in Accounts, Select(a) \/ Finalize(a) PROVE BoundInv'
    BY <2>1, <1>4 DEF Select, Finalize, Kinds
  <2>2. CASE Reconcile
    BY <2>2, <1>4 DEF Reconcile, Kinds
  <2> QED BY <1>40, <1>5, <2>1, <2>2 DEF Entry
<1>41. CASE Recovery
  BY <1>41, <1>6, <1>7, <1>8, <1>9, <1>10, <1>11, <1>12, <1>13, <1>14, <1>15 DEF Recovery
<1>42. CASE Apply
  BY <1>42, <1>16, <1>17, <1>18, <1>19, <1>20, <1>21, <1>22, <1>23, <1>24, <1>25, <1>26, <1>27,
         <1>28, <1>29, <1>30, <1>31, <1>32, <1>33 DEF Apply
<1>43. CASE Failures
  BY <1>43, <1>34, <1>35, <1>36, <1>37, <1>38, <1>39 DEF Failures
<1>44. CASE Environment
  BY <1>44, <1>1, <1>2, <1>3 DEF Environment
<1> QED BY <1>40, <1>41, <1>42, <1>43, <1>44 DEF Next

---------------------------------------------------------------------------
(* Each step leaves the copy that a later one will need.                   *)
LEMMA CopyKept == ASSUME KeepInv, Next PROVE CopyInv'
<1> USE TxnFields, LoginFields
   DEF KeepInv, SwitchInv, AccountInv, EvidenceInv, OpInv, TypeOK, Places, Login,
       Calm, Begun, BoundInv, CopyInv, LeaseInv, Copied, Ahead
<1>1. CASE CodexStart \/ CodexStop \/ CodexRefresh
  <2>1. CASE CodexStart \/ CodexStop
    BY <2>1 DEF CodexStart, CodexStop
  <2>2. CASE CodexRefresh
    BY <2>2, RefreshFields, SwitchFields
  <2> QED BY <1>1, <2>1, <2>2
<1>2. ASSUME NEW a \in Accounts, OutsideLogin(a) PROVE CopyInv'
  BY <1>2 DEF OutsideLogin
<1>3. ASSUME NEW a \in Accounts, SignInStart(a) \/ SignInEnd(a) PROVE CopyInv'
  <2>1. CASE SignInStart(a)
    BY <2>1 DEF SignInStart
  <2>2. CASE SignInEnd(a)
    BY <2>2, SignInFields, SwitchFields
  <2> QED BY <1>3, <2>1, <2>2
<1>4. ASSUME NEW k \in Kinds, NEW a \in Accounts \cup {None},
             (k # "reconcile" => a # None) /\ k # "undo", Begin(k, a)
      PROVE CopyInv'
  BY <1>4 DEF Begin, NoOp
<1>5. CASE EnsureAccounts
  BY <1>5 DEF EnsureAccounts, Ensured
<1>6. CASE RecoverRefused
  BY <1>6 DEF RecoverRefused
<1>7. CASE RecoverIdle
  BY <1>7 DEF RecoverIdle, Refused, Incomplete
<1>8. CASE RecoverInstalled
  BY <1>8 DEF RecoverInstalled, Refused, Incomplete
<1>9. CASE RecoverInterrupted
  BY <1>9 DEF RecoverInterrupted, Refused, Incomplete
<1>10. CASE RestoreAuth
  BY <1>10 DEF RestoreAuth
<1>11. CASE RestoreCatalog
  BY <1>11 DEF RestoreCatalog
<1>12. CASE RollState
  BY <1>12 DEF RollState
<1>13. CASE RmManifest
  BY <1>13 DEF RmManifest
<1>14. CASE RmAuth
  BY <1>14 DEF RmAuth
<1>15. CASE RmDir
  BY <1>15, AfterField DEF RmDir
<1>16. CASE Dispatch
  BY <1>16 DEF Dispatch, Finalization
<1>17. CASE Ensure
  BY <1>17 DEF Ensure, Ensured
<1>18. CASE ApplyRefused
  BY <1>18 DEF ApplyRefused
<1>19. CASE ApplyLater
  BY <1>19 DEF ApplyLater
<1>20. CASE ApplyNothing
  BY <1>20 DEF ApplyNothing
<1>21. CASE ApplyStart
  BY <1>21, StartFields, OpFields DEF ApplyStart, LeaseHeld
<1>22. CASE Stage
  BY <1>22 DEF Stage
<1>23. CASE Publish
  BY <1>23 DEF Publish
<1>24. CASE Preparing
  BY <1>24 DEF Preparing, InPhase
<1>25. CASE Sync
  BY <1>25, SyncFields, SwitchFields DEF Sync, CopyInv, Copied
<1>26. CASE BackedUp
  BY <1>26 DEF BackedUp, InPhase
<1>27. CASE Install
  BY <1>27 DEF Install
<1>28. CASE Check
  BY <1>28 DEF Check, Throw, SnapshotInstalled, Login
<1>29. CASE Refresh
  BY <1>29 DEF Refresh
<1>30. CASE Installed
  BY <1>30 DEF Installed, Throw, SnapshotInstalled, InPhase, Login
<1>31. CASE Idle
  BY <1>31 DEF Idle
<1>32. CASE Commit
  BY <1>32 DEF Commit
<1>33. CASE Failed
  BY <1>33 DEF Failed
<1>34. CASE RestoreFails
  BY <1>34 DEF RestoreFails
<1>35. CASE StageFails
  BY <1>35 DEF StageFails
<1>36. CASE RefreshFails
  BY <1>36 DEF RefreshFails, Throw
<1>37. CASE RemovalFails
  BY <1>37 DEF RemovalFails, Throw
<1>38. CASE CommitFails
  BY <1>38 DEF CommitFails
<1>39. CASE Crash
  BY <1>39 DEF Crash, UndoingCommitted
<1>40. CASE Entry
  <2>1. ASSUME NEW a \in Accounts, Select(a) \/ Finalize(a) PROVE CopyInv'
    BY <2>1, <1>4 DEF Select, Finalize, Kinds
  <2>2. CASE Reconcile
    BY <2>2, <1>4 DEF Reconcile, Kinds
  <2> QED BY <1>40, <1>5, <2>1, <2>2 DEF Entry
<1>41. CASE Recovery
  BY <1>41, <1>6, <1>7, <1>8, <1>9, <1>10, <1>11, <1>12, <1>13, <1>14, <1>15 DEF Recovery
<1>42. CASE Apply
  BY <1>42, <1>16, <1>17, <1>18, <1>19, <1>20, <1>21, <1>22, <1>23, <1>24, <1>25, <1>26, <1>27,
         <1>28, <1>29, <1>30, <1>31, <1>32, <1>33 DEF Apply
<1>43. CASE Failures
  BY <1>43, <1>34, <1>35, <1>36, <1>37, <1>38, <1>39 DEF Failures
<1>44. CASE Environment
  BY <1>44, <1>1, <1>2, <1>3 DEF Environment
<1> QED BY <1>40, <1>41, <1>42, <1>43, <1>44 DEF Next

---------------------------------------------------------------------------
(* A login falls behind the own copy only by a sign-in, which has a lease. *)
LEMMA LeaseKept == ASSUME KeepInv, Next PROVE LeaseInv'
<1> USE TxnFields, LoginFields
   DEF KeepInv, SwitchInv, AccountInv, EvidenceInv, OpInv, TypeOK, Places, Login,
       Calm, Begun, BoundInv, LeaseInv, FinalInv, Ahead
<1>1. CASE CodexStart \/ CodexStop \/ CodexRefresh
  <2>1. CASE CodexStart \/ CodexStop
    BY <2>1 DEF CodexStart, CodexStop
  <2>2. CASE CodexRefresh
    BY <2>2, RefreshFields, SwitchFields
  <2> QED BY <1>1, <2>1, <2>2
<1>2. ASSUME NEW a \in Accounts, OutsideLogin(a) PROVE LeaseInv'
  BY <1>2 DEF OutsideLogin
<1>3. ASSUME NEW a \in Accounts, SignInStart(a) \/ SignInEnd(a) PROVE LeaseInv'
  <2>1. CASE SignInStart(a)
    BY <2>1 DEF SignInStart
  <2>2. CASE SignInEnd(a)
    BY <2>2, SignInFields, SwitchFields
  <2> QED BY <1>3, <2>1, <2>2
<1>4. ASSUME NEW k \in Kinds, NEW a \in Accounts \cup {None},
             (k # "reconcile" => a # None) /\ k # "undo", Begin(k, a)
      PROVE LeaseInv'
  BY <1>4 DEF Begin, NoOp
<1>5. CASE EnsureAccounts
  BY <1>5 DEF EnsureAccounts, Ensured
<1>6. CASE RecoverRefused
  BY <1>6 DEF RecoverRefused
<1>7. CASE RecoverIdle
  BY <1>7 DEF RecoverIdle, Refused, Incomplete
<1>8. CASE RecoverInstalled
  BY <1>8 DEF RecoverInstalled, Refused, Incomplete
<1>9. CASE RecoverInterrupted
  BY <1>9 DEF RecoverInterrupted, Refused, Incomplete
<1>10. CASE RestoreAuth
  BY <1>10 DEF RestoreAuth
<1>11. CASE RestoreCatalog
  BY <1>11 DEF RestoreCatalog
<1>12. CASE RollState
  BY <1>12 DEF RollState
<1>13. CASE RmManifest
  BY <1>13 DEF RmManifest
<1>14. CASE RmAuth
  BY <1>14 DEF RmAuth
<1>15. CASE RmDir
  BY <1>15, AfterField DEF RmDir
<1>16. CASE Dispatch
  BY <1>16 DEF Dispatch, Finalization
<1>17. CASE Ensure
  BY <1>17 DEF Ensure, Ensured
<1>18. CASE ApplyRefused
  BY <1>18 DEF ApplyRefused
<1>19. CASE ApplyLater
  BY <1>19 DEF ApplyLater
<1>20. CASE ApplyNothing
  BY <1>20 DEF ApplyNothing
<1>21. CASE ApplyStart
  BY <1>21, StartFields, OpFields DEF ApplyStart, LeaseHeld
<1>22. CASE Stage
  BY <1>22 DEF Stage
<1>23. CASE Publish
  BY <1>23 DEF Publish
<1>24. CASE Preparing
  BY <1>24 DEF Preparing, InPhase
<1>25. CASE Sync
  BY <1>25, SyncFields, SwitchFields DEF Sync, CopyInv, Copied
<1>26. CASE BackedUp
  BY <1>26 DEF BackedUp, InPhase
<1>27. CASE Install
  BY <1>27 DEF Install
<1>28. CASE Check
  BY <1>28 DEF Check, Throw, SnapshotInstalled, Login
<1>29. CASE Refresh
  BY <1>29 DEF Refresh
<1>30. CASE Installed
  BY <1>30 DEF Installed, Throw, SnapshotInstalled, InPhase, Login
<1>31. CASE Idle
  BY <1>31 DEF Idle
<1>32. CASE Commit
  BY <1>32 DEF Commit
<1>33. CASE Failed
  BY <1>33 DEF Failed
<1>34. CASE RestoreFails
  BY <1>34 DEF RestoreFails
<1>35. CASE StageFails
  BY <1>35 DEF StageFails
<1>36. CASE RefreshFails
  BY <1>36 DEF RefreshFails, Throw
<1>37. CASE RemovalFails
  BY <1>37 DEF RemovalFails, Throw
<1>38. CASE CommitFails
  BY <1>38 DEF CommitFails
<1>39. CASE Crash
  BY <1>39 DEF Crash, UndoingCommitted
<1>40. CASE Entry
  <2>1. ASSUME NEW a \in Accounts, Select(a) \/ Finalize(a) PROVE LeaseInv'
    BY <2>1, <1>4 DEF Select, Finalize, Kinds
  <2>2. CASE Reconcile
    BY <2>2, <1>4 DEF Reconcile, Kinds
  <2> QED BY <1>40, <1>5, <2>1, <2>2 DEF Entry
<1>41. CASE Recovery
  BY <1>41, <1>6, <1>7, <1>8, <1>9, <1>10, <1>11, <1>12, <1>13, <1>14, <1>15 DEF Recovery
<1>42. CASE Apply
  BY <1>42, <1>16, <1>17, <1>18, <1>19, <1>20, <1>21, <1>22, <1>23, <1>24, <1>25, <1>26, <1>27,
         <1>28, <1>29, <1>30, <1>31, <1>32, <1>33 DEF Apply
<1>43. CASE Failures
  BY <1>43, <1>34, <1>35, <1>36, <1>37, <1>38, <1>39 DEF Failures
<1>44. CASE Environment
  BY <1>44, <1>1, <1>2, <1>3 DEF Environment
<1> QED BY <1>40, <1>41, <1>42, <1>43, <1>44 DEF Next

---------------------------------------------------------------------------
(* The finalization keeps the lease until its login is in place.           *)
LEMMA FinalKept == ASSUME KeepInv, Next PROVE FinalInv'
<1> USE TxnFields, LoginFields
   DEF KeepInv, SwitchInv, AccountInv, EvidenceInv, OpInv, TypeOK, Places, Login, Calm, Begun, FinalInv, LeaseInv, Ahead
<1>1. CASE CodexStart \/ CodexStop \/ CodexRefresh
  <2>1. CASE CodexStart \/ CodexStop
    BY <2>1 DEF CodexStart, CodexStop
  <2>2. CASE CodexRefresh
    BY <2>2, RefreshFields, SwitchFields DEF BoundInv
  <2> QED BY <1>1, <2>1, <2>2
<1>2. ASSUME NEW a \in Accounts, OutsideLogin(a) PROVE FinalInv'
  BY <1>2 DEF OutsideLogin
<1>3. ASSUME NEW a \in Accounts, SignInStart(a) \/ SignInEnd(a) PROVE FinalInv'
  <2>1. CASE SignInStart(a)
    BY <2>1 DEF SignInStart
  <2>2. CASE SignInEnd(a)
    BY <2>2, SignInFields, SwitchFields
  <2> QED BY <1>3, <2>1, <2>2
<1>4. ASSUME NEW k \in Kinds, NEW a \in Accounts \cup {None},
             (k # "reconcile" => a # None) /\ k # "undo", Begin(k, a)
      PROVE FinalInv'
  BY <1>4 DEF Begin, NoOp
<1>5. CASE EnsureAccounts
  BY <1>5 DEF EnsureAccounts, Ensured
<1>6. CASE RecoverRefused
  BY <1>6, EndFinal DEF RecoverRefused
<1>7. CASE RecoverIdle
  BY <1>7 DEF RecoverIdle, Refused, Incomplete
<1>8. CASE RecoverInstalled
  BY <1>8 DEF RecoverInstalled, Refused, Incomplete
<1>9. CASE RecoverInterrupted
  BY <1>9 DEF RecoverInterrupted, Refused, Incomplete
<1>10. CASE RestoreAuth
  BY <1>10 DEF RestoreAuth
<1>11. CASE RestoreCatalog
  BY <1>11 DEF RestoreCatalog
<1>12. CASE RollState
  BY <1>12 DEF RollState
<1>13. CASE RmManifest
  BY <1>13 DEF RmManifest
<1>14. CASE RmAuth
  BY <1>14 DEF RmAuth
<1>15. CASE RmDir
  BY <1>15, AfterField DEF RmDir
<1>16. CASE Dispatch
  <2>1. CASE op.kind = "finalize"
    BY <1>16, <2>1, EndFinal, SwitchFields DEF Dispatch, Finalization
  <2>2. CASE op.kind # "finalize"
    BY <1>16, <2>2, EndFinal DEF Dispatch, Ops
  <2> QED BY <2>1, <2>2
<1>17. CASE Ensure
  BY <1>17 DEF Ensure, Ensured
<1>18. CASE ApplyRefused
  BY <1>18 DEF ApplyRefused
<1>19. CASE ApplyLater
  BY <1>19 DEF ApplyLater
<1>20. CASE ApplyNothing
  BY <1>20 DEF ApplyNothing, RefreshPending
<1>21. CASE ApplyStart
  BY <1>21, StartFields, OpFields DEF ApplyStart, LeaseHeld
<1>22. CASE Stage
  BY <1>22 DEF Stage
<1>23. CASE Publish
  BY <1>23 DEF Publish
<1>24. CASE Preparing
  BY <1>24 DEF Preparing, InPhase
<1>25. CASE Sync
  BY <1>25, SyncFields, SwitchFields DEF Sync, CopyInv, Copied
<1>26. CASE BackedUp
  BY <1>26 DEF BackedUp, InPhase
<1>27. CASE Install
  BY <1>27 DEF Install
<1>28. CASE Check
  <2>1. /\ op'.kind = op.kind /\ op'.arg = op.arg /\ pc' \in {"refresh", "restoreAuth"}
        /\ pc' = "restoreAuth" => op'.after = "failed"
    BY <1>28 DEF Check, Throw, Ops
  <2> QED BY <1>28, <2>1 DEF Check
<1>29. CASE Refresh
  BY <1>29 DEF Refresh
<1>30. CASE Installed
  <2>1. /\ op'.kind = op.kind /\ op'.arg = op.arg /\ pc' \in {"idle", "restoreAuth"}
        /\ pc' = "restoreAuth" => op'.after = "failed"
    BY <1>30 DEF Installed, Throw, Ops
  <2>2. pc' = "idle" => SnapshotInstalled
    BY <1>30 DEF Installed, Throw
  <2> QED BY <1>30, <2>1, <2>2 DEF Installed, Throw, SnapshotInstalled
<1>31. CASE Idle
  BY <1>31 DEF Idle
<1>32. CASE Commit
  BY <1>32, EndFinal DEF Commit
<1>33. CASE Failed
  <2>1. [op EXCEPT !.kind = "undo", !.arg = op.before.sw.active].kind = "undo"
    BY DEF Ops
  <2>2. End \/ op'.kind # "finalize"
    BY <1>33, <2>1 DEF Failed
  <2> QED BY <2>2, EndFinal
<1>34. CASE RestoreFails
  BY <1>34, EndFinal, AfterField DEF RestoreFails
<1>35. CASE StageFails
  BY <1>35 DEF StageFails
<1>36. CASE RefreshFails
  BY <1>36 DEF RefreshFails, Throw
<1>37. CASE RemovalFails
  BY <1>37 DEF RemovalFails, Throw
<1>38. CASE CommitFails
  BY <1>38 DEF CommitFails
<1>39. CASE Crash
  BY <1>39, EndFinal DEF Crash
<1>40. CASE Entry
  <2>1. ASSUME NEW a \in Accounts, Select(a) \/ Finalize(a) PROVE FinalInv'
    BY <2>1, <1>4 DEF Select, Finalize, Kinds
  <2>2. CASE Reconcile
    BY <2>2, <1>4 DEF Reconcile, Kinds
  <2> QED BY <1>40, <1>5, <2>1, <2>2 DEF Entry
<1>41. CASE Recovery
  BY <1>41, <1>6, <1>7, <1>8, <1>9, <1>10, <1>11, <1>12, <1>13, <1>14, <1>15 DEF Recovery
<1>42. CASE Apply
  BY <1>42, <1>16, <1>17, <1>18, <1>19, <1>20, <1>21, <1>22, <1>23, <1>24, <1>25, <1>26, <1>27,
         <1>28, <1>29, <1>30, <1>31, <1>32, <1>33 DEF Apply
<1>43. CASE Failures
  BY <1>43, <1>34, <1>35, <1>36, <1>37, <1>38, <1>39 DEF Failures
<1>44. CASE Environment
  BY <1>44, <1>1, <1>2, <1>3 DEF Environment
<1> QED BY <1>40, <1>41, <1>42, <1>43, <1>44 DEF Next

---------------------------------------------------------------------------
LEMMA KeepStarts == Init => KeepInv
<1> SUFFICES ASSUME Init PROVE KeepInv
  OBVIOUS
<1>1. SwitchInv
  BY SwitchStarts
<1>2. pc = "rest" /\ txn = None /\ op = NoOp /\ First \in Accounts
  BY DEF Init
<1>3. primary.acct = First /\ primary.gen = 0 /\ \A a \in Accounts : profile[a] = 0 /\ newest[a] = 0
  BY DEF Init, Login
<1>4. BoundInv
  BY <1>2, <1>3 DEF Init, BoundInv, Begun
<1>5. CopyInv /\ LeaseInv
  BY <1>2, <1>3 DEF CopyInv, LeaseInv, Begun, Copied, Ahead
<1>6. FinalInv
  BY <1>2 DEF FinalInv, NoOp, Kinds
<1> QED BY <1>1, <1>4, <1>5, <1>6 DEF KeepInv

LEMMA KeepStep == KeepInv /\ [Next]_vars => KeepInv'
<1>1. ASSUME KeepInv, Next PROVE KeepInv'
  BY <1>1, SwitchStep, BoundKept, CopyKept, LeaseKept, FinalKept DEF KeepInv
<1>2. ASSUME KeepInv, UNCHANGED vars PROVE KeepInv'
  <2>1. SwitchInv'
    BY <1>2, SwitchStep DEF KeepInv
  <2>2. BoundInv' /\ CopyInv' /\ LeaseInv' /\ FinalInv'
    BY <1>2
       DEF KeepInv, vars, BoundInv, CopyInv, LeaseInv, FinalInv, Calm, Begun, Copied, Ahead, Login
  <2> QED BY <2>1, <2>2 DEF KeepInv
<1> QED BY <1>1, <1>2

(* One step, one account: where the copy goes, another one is.             *)
LEMMA LoginKept ==
    ASSUME KeepInv, Next, Calm, NEW a \in Accounts, Held(a), newest' = newest
    PROVE  Held(a)' \/ (txn # None /\ txn.active = txn.target)
<1> USE TxnFields, LoginFields DEF KeepInv, SwitchInv, Calm, Held, Login
<1> DEFINE Frame == UNCHANGED <<primary, profile, txn>>
<1>1. CASE Frame
  BY <1>1
<1>2. CASE Environment
  <2>1. CASE CodexRefresh
    BY <2>1, RefreshFields
  <2>2. ASSUME NEW b \in Accounts, OutsideLogin(b) PROVE newest' # newest
    BY <2>2 DEF OutsideLogin, TypeOK
  <2>3. ASSUME NEW b \in Accounts, SignInStart(b) \/ SignInEnd(b) PROVE Frame
    BY <2>3, SignInFields DEF SignInStart
  <2>4. CodexStart \/ CodexStop => Frame
    BY DEF CodexStart, CodexStop
  <2> QED BY <1>1, <1>2, <2>1, <2>2, <2>3, <2>4 DEF Environment
<1>3. CASE RestoreAuth
  BY <1>3 DEF RestoreAuth, EvidenceInv, CopyInv, Copied
<1>4. CASE RmManifest \/ RmAuth
  BY <1>4 DEF RmManifest, RmAuth, CopyInv, Copied
<1>5. CASE RmDir
  BY <1>5 DEF RmDir, CopyInv
<1>6. CASE Publish
  BY <1>6 DEF Publish, EvidenceInv
<1>7. CASE Sync
  BY <1>7, SyncFields DEF Sync, EvidenceInv, AccountInv, CopyInv, LeaseInv, Copied, Ahead
<1>8. CASE Install
  BY <1>8 DEF Install, EvidenceInv, CopyInv, Copied
<1>9. CASE Entry
  <2>1. ASSUME NEW k, NEW b, Begin(k, b) PROVE Frame
    BY <2>1 DEF Begin
  <2>2. EnsureAccounts => Frame
    BY DEF EnsureAccounts
  <2> QED BY <1>1, <1>9, <2>1, <2>2 DEF Entry, Select, Finalize, Reconcile
<1>10. CASE Recovery
  BY <1>1, <1>3, <1>4, <1>5, <1>10 DEF Recovery, RecoverRefused, RecoverIdle, RecoverInstalled,
     RecoverInterrupted, RestoreCatalog, RollState
<1>11. CASE Apply
  BY <1>1, <1>6, <1>7, <1>8, <1>11
     DEF Apply, Dispatch, Ensure, ApplyRefused, ApplyLater, ApplyNothing,
     ApplyStart, Stage, Preparing, BackedUp, Check, Refresh, Installed, Idle, Commit, Failed
<1>12. CASE Failures
  BY <1>1, <1>12
     DEF Failures, RestoreFails, StageFails, RefreshFails, RemovalFails, CommitFails, Crash
<1> QED BY <1>2, <1>9, <1>10, <1>11, <1>12 DEF Next

(* Without a login by hand and a Codex that writes into a switch, no step, *)
(* crash, rollback or retry of applyLocked and of the recovery destroys    *)
(* the last copy of an account's newest login; only the refresh of the     *)
(* active account can.                                                     *)
THEOREM LoginsSurvive == Spec => SwitchKeepsBoth
<1>1. KeepInv /\ [Next]_vars =>
        [\A a \in Accounts : ~raced /\ ~outside /\ "marker" \notin torn /\ Held(a) /\ newest' = newest =>
           Held(a)' \/ (txn # None /\ txn.active = txn.target)]_vars
  BY LoginKept DEF Calm
<1> QED BY <1>1, KeepStarts, KeepStep, PTL DEF Spec, SwitchKeepsBoth
=============================================================================
