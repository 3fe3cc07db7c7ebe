---------------------- MODULE OverlayPublicationProofs ----------------------
(***************************************************************************)
(* What OverlayPublication keeps, for any number of processes and crashes. *)
(* A rollback is exact because the snapshot of the process at work is the  *)
(* last change that was made, and the files agree at the end because each  *)
(* step of the publication finds what the ones before it have left.        *)
(***************************************************************************)
EXTENDS OverlayPublication, TLAPS

Working == {"mutate", "gateway", "targets", "reload", "restore"}
Settled == holder = None \/ proc[holder].pc \in Over \cup {"mutate"}

(* The process at work holds the state its rollback goes back to.          *)
SnapInv == \A p \in Procs : proc[p].pc \in Working =>
    /\ proc[p].snap \in Values
    /\ ~lost => proc[p].snap = committed
    /\ proc[p].back => overlay = proc[p].snap

(* What each phase of the publication has done.                            *)
PhaseInv == \A p \in Procs :
    /\ proc[p].pc \in {"idle", "wait"} => holder # p
    /\ proc[p].pc \in {"wait", "mutate", "restore"} => ~proc[p].back
    /\ proc[p].pc \in {"targets", "reload"} => gateway = overlay
    /\ proc[p].pc = "reload" => targets = overlay

(* Between transactions, before the first change and after the last step.  *)
SettledInv == Settled =>
    /\ ~lost => overlay = committed
    /\ ~doubt => gateway = overlay /\ targets = overlay

OverlayInv == TypeOK /\ SnapInv /\ PhaseInv /\ SettledInv

Rec == [pc : Busy \cup Over, restart : BOOLEAN, warningOnly : BOOLEAN,
        snap : Values \cup {None}, back : BOOLEAN]

---------------------------------------------------------------------------
(* A process that goes on keeps all but its place; the others stay put.    *)
LEMMA GoFacts ==
    ASSUME TypeOK, NEW p \in Procs, NEW to \in Busy \cup Over, Go(p, to)
    PROVE  /\ proc' \in [Procs -> Rec]
           /\ proc'[p].pc = to
           /\ to \notin Over => proc'[p].snap = proc[p].snap /\ proc'[p].back = proc[p].back
           /\ \A q \in Procs \ {p} : proc'[q] = proc[q]
<1>1. proc \in [Procs -> Rec]
  BY DEF TypeOK, Rec
<1>2. CASE to \in Over
  <2>1. [Idle EXCEPT !.pc = to] \in Rec /\ [Idle EXCEPT !.pc = to].pc = to
    BY <1>2 DEF Idle, Rec
  <2>2. proc' = [proc EXCEPT ![p] = [Idle EXCEPT !.pc = to]]
    BY <1>2 DEF Go
  <2> HIDE DEF Rec, Idle
  <2> QED BY <1>1, <1>2, <2>1, <2>2
<1>3. CASE to \notin Over
  <2> DEFINE r == [proc[p] EXCEPT !.pc = to]
  <2>1. proc[p] \in Rec
    BY <1>1
  <2>2. r \in Rec /\ r.pc = to /\ r.snap = proc[p].snap /\ r.back = proc[p].back
    BY <2>1 DEF Rec
  <2>3. proc' = [proc EXCEPT ![p] = r]
    BY <1>3 DEF Go
  <2> HIDE DEF Rec, r
  <2> QED BY <1>1, <1>3, <2>2, <2>3
<1> QED BY <1>2, <1>3

(* Only the process that holds the lock is at work.                        *)
LEMMA Alone ==
    ASSUME TypeOK, NEW p \in Procs, proc[p].pc \in Working
    PROVE  /\ holder = p
           /\ \A q \in Procs \ {p} : proc[q].pc \notin Working
BY DEF TypeOK, Working, Over

(* A transaction that ends: every place is over, and what SettledInv says  *)
(* of the files is left to show.                                           *)
LEMMA EndFacts ==
    ASSUME OverlayInv, OverlayAssumption, NEW p \in Procs, proc[p].pc \in Working,
           NEW how \in Over \ {"dead"}, End(p, how),
           overlay' \in Values, gateway' \in Values, targets' \in Values,
           running' \in Values \cup {None}, crashes' = crashes,
           how \in {"made", "warned"} => overlay' = overlay,
           how = "threw" => overlay' = proc[p].snap,
           how \in {"made", "threw"} => gateway' = overlay' /\ targets' = overlay'
    PROVE  OverlayInv'
<1>1. /\ proc' \in [Procs -> Rec] /\ proc'[p].pc = how
      /\ \A q \in Procs \ {p} : proc'[q] = proc[q]
  BY GoFacts DEF End, OverlayInv
<1>2. \A q \in Procs : proc'[q].pc \notin Working
  BY <1>1, Alone DEF OverlayInv, Over, Working
<1>3. committed' \in Values /\ lost' \in BOOLEAN /\ doubt' \in BOOLEAN
  BY DEF End, OverlayInv, TypeOK
<1>4. TypeOK'
  BY <1>1, <1>2, <1>3 DEF TypeOK, Rec, End, Working, Busy, Over, OverlayInv
<1>5. SnapInv' /\ PhaseInv'
  BY <1>1, <1>2 DEF SnapInv, PhaseInv, Working, Over, OverlayInv, End
<1>6. ~lost' => overlay' = committed'
  BY DEF End, OverlayInv, SnapInv, TypeOK, Over
<1>7. ~doubt' => gateway' = overlay' /\ targets' = overlay'
  BY DEF End, Over, OverlayInv, TypeOK
<1> QED BY <1>4, <1>5, <1>6, <1>7 DEF OverlayInv, SettledInv

(* A step of the forward phase or of the rollback fails.                   *)
LEMMA FailFacts ==
    ASSUME OverlayInv, OverlayAssumption, NEW p \in Procs, proc[p].pc \in Working,
           NEW excused \in BOOLEAN, Fail(p, excused),
           overlay' \in Values, gateway' \in Values, targets' \in Values,
           running' \in Values \cup {None}, crashes' = crashes,
           excused => overlay' = overlay
    PROVE  OverlayInv'
<1>1. CASE proc[p].back
  BY <1>1, EndFacts DEF Fail, Over
<1>2. CASE ~proc[p].back /\ excused /\ proc[p].warningOnly
  BY <1>2, EndFacts DEF Fail, Over
<1>3. CASE ~proc[p].back /\ ~(excused /\ proc[p].warningOnly)
  <2>1. Go(p, "restore") /\ UNCHANGED <<holder, history>>
    BY <1>3 DEF Fail
  <2>2. /\ proc' \in [Procs -> Rec] /\ proc'[p].pc = "restore"
        /\ proc'[p].snap = proc[p].snap /\ proc'[p].back = proc[p].back
        /\ \A q \in Procs \ {p} : proc'[q] = proc[q]
    BY <2>1, GoFacts DEF OverlayInv, Busy, Over
  <2>3. /\ holder = p /\ holder' = p
        /\ \A q \in Procs \ {p} : proc'[q].pc \notin Working
    BY <2>1, <2>2, Alone DEF OverlayInv
  <2>4. TypeOK'
    BY <2>1, <2>2, <2>3 DEF TypeOK, Rec, Working, Busy, Over, OverlayInv, history
  <2>5. SnapInv'
    BY <1>3, <2>1, <2>2, <2>3 DEF SnapInv, OverlayInv, history
  <2>6. PhaseInv'
    BY <1>3, <2>2, <2>3 DEF PhaseInv, Working, OverlayInv
  <2>7. SettledInv'
    BY <2>2, <2>3, OverlayAssumption DEF SettledInv, Settled, Over
  <2> QED BY <2>4, <2>5, <2>6, <2>7 DEF OverlayInv
<1> QED BY <1>1, <1>2, <1>3

(* A step of the process at work that goes on to another phase.            *)
LEMMA OnFacts ==
    ASSUME OverlayInv, OverlayAssumption, NEW p \in Procs, proc[p].pc \in Working,
           NEW to \in {"gateway", "targets", "reload"}, Go(p, to),
           UNCHANGED <<holder, history>>, crashes' = crashes,
           overlay' \in Values, gateway' \in Values, targets' \in Values,
           running' \in Values \cup {None},
           proc[p].back => overlay' = overlay,
           to \in {"targets", "reload"} => gateway' = overlay',
           to = "reload" => targets' = overlay'
    PROVE  OverlayInv'
<1>1. /\ proc' \in [Procs -> Rec] /\ proc'[p].pc = to
      /\ proc'[p].snap = proc[p].snap /\ proc'[p].back = proc[p].back
      /\ \A q \in Procs \ {p} : proc'[q] = proc[q]
  BY GoFacts DEF OverlayInv, Busy, Over
<1>2. /\ holder = p /\ holder' = p
      /\ \A q \in Procs \ {p} : proc'[q].pc \notin Working
  BY <1>1, Alone DEF OverlayInv
<1>3. TypeOK'
  BY <1>1, <1>2 DEF TypeOK, Rec, Working, Busy, Over, OverlayInv, history
<1>4. SnapInv'
  BY <1>1, <1>2 DEF SnapInv, OverlayInv, history
<1>5. PhaseInv'
  BY <1>1, <1>2 DEF PhaseInv, Working, OverlayInv
<1>6. SettledInv'
  BY <1>1, <1>2, OverlayAssumption DEF SettledInv, Settled, Over
<1> QED BY <1>3, <1>4, <1>5, <1>6 DEF OverlayInv

---------------------------------------------------------------------------
LEMMA OverlayInit == Init => OverlayInv
<1> SUFFICES ASSUME Init PROVE OverlayInv
  OBVIOUS
<1>1. Idle \in Rec /\ Idle.pc = "idle"
  BY DEF Idle, Rec, Busy
<1>2. TypeOK
  <2>1. proc \in [Procs -> Rec] /\ \A p \in Procs : proc[p].pc = "idle"
    BY <1>1 DEF Init
  <2>2. /\ overlay \in Values /\ running \in Values /\ committed \in Values
        /\ gateway \in Values /\ targets \in Values
    BY DEF Init, Values
  <2>3. 0 \in 0..MaxCrashes
    BY OverlayAssumption
  <2> QED BY <2>1, <2>2, <2>3 DEF Init, TypeOK, Rec
<1>3. \A p \in Procs : proc[p].pc = "idle"
  BY <1>1 DEF Init
<1>4. SnapInv /\ PhaseInv
  BY <1>3, OverlayAssumption DEF SnapInv, PhaseInv, Working, Init
<1>5. SettledInv
  BY DEF Init, SettledInv
<1> QED BY <1>2, <1>4, <1>5 DEF OverlayInv

LEMMA OverlayStep == OverlayInv /\ [Next]_vars => OverlayInv'
<1> SUFFICES ASSUME OverlayInv, [Next]_vars PROVE OverlayInv'
  OBVIOUS
<1> USE OverlayAssumption
<1>t. /\ proc \in [Procs -> Rec] /\ overlay \in Values /\ gateway \in Values
      /\ targets \in Values /\ running \in Values \cup {None}
      /\ \A p \in Procs : p \in Values /\ p # None
      /\ Torn \in Values
  BY DEF OverlayInv, TypeOK, Rec, Values
<1>0. CASE UNCHANGED vars
  BY <1>0 DEF OverlayInv, TypeOK, SnapInv, PhaseInv, SettledInv, Settled, vars
<1>1. ASSUME NEW p \in Procs, Begin(p) PROVE OverlayInv'
  <2>1. PICK r, w \in BOOLEAN :
          proc' = [proc EXCEPT ![p] = [Idle EXCEPT !.pc = "wait", !.restart = r, !.warningOnly = w]]
    BY <1>1 DEF Begin
  <2> DEFINE rec == [Idle EXCEPT !.pc = "wait", !.restart = r, !.warningOnly = w]
  <2>2. rec \in Rec /\ rec.pc = "wait" /\ rec.back = FALSE
    BY DEF Idle, Rec, Busy
  <2>3. proc' = [proc EXCEPT ![p] = rec]
    BY <2>1
  <2> HIDE DEF rec
  <2>4. /\ proc' \in [Procs -> Rec] /\ proc'[p].pc = "wait" /\ ~proc'[p].back
        /\ \A q \in Procs \ {p} : proc'[q] = proc[q]
    BY <1>t, <2>2, <2>3
  <2>5. TypeOK'
    BY <1>1, <2>4 DEF TypeOK, Rec, OverlayInv, Begin, files, history
  <2>6. SnapInv' /\ PhaseInv'
    BY <1>1, <2>4 DEF SnapInv, PhaseInv, OverlayInv, Begin, files, history, Working
  <2>7. SettledInv'
    BY <1>1, <2>4 DEF SettledInv, Settled, OverlayInv, TypeOK, Begin, files, history, Over
  <2> QED BY <2>5, <2>6, <2>7 DEF OverlayInv
<1>2. ASSUME NEW p \in Procs, Acquire(p) PROVE OverlayInv'
  <2> DEFINE rec == [proc[p] EXCEPT !.pc = "mutate", !.snap = overlay]
  <2>1. proc' = [proc EXCEPT ![p] = rec]
    BY <1>2, <1>t DEF Acquire
  <2>2. rec \in Rec /\ rec.pc = "mutate" /\ rec.snap = overlay /\ rec.back = proc[p].back
    BY <1>t DEF Rec, Busy
  <2> HIDE DEF rec
  <2>3. /\ proc' \in [Procs -> Rec] /\ proc'[p].pc = "mutate" /\ proc'[p].snap = overlay
        /\ proc'[p].back = proc[p].back
        /\ \A q \in Procs \ {p} : proc'[q] = proc[q]
    BY <1>t, <2>1, <2>2
  <2>4. \A q \in Procs : proc[q].pc \notin Working
    BY <1>2, <1>t, Alone DEF Acquire, OverlayInv
  <2>5. TypeOK'
    BY <1>2, <2>3 DEF Acquire, OverlayInv, TypeOK, Rec, files, history
  <2>6. SnapInv'
    BY <1>2, <1>t, <2>3, <2>4
    DEF Acquire, OverlayInv, SnapInv, PhaseInv, SettledInv, Settled, files, history
  <2>7. PhaseInv'
    BY <1>2, <2>3, <2>4 DEF Acquire, OverlayInv, PhaseInv, Working, files
  <2>8. SettledInv'
    BY <1>2 DEF Acquire, OverlayInv, SettledInv, Settled, files, history
  <2> QED BY <2>5, <2>6, <2>7, <2>8 DEF OverlayInv
<1>3. ASSUME NEW p \in Procs, Locked(p) PROVE OverlayInv'
  <2>1. /\ proc' \in [Procs -> Rec] /\ proc'[p].pc = "threw"
        /\ \A q \in Procs \ {p} : proc'[q] = proc[q]
    BY <1>3, GoFacts DEF Locked, OverlayInv, Over
  <2>2. TypeOK'
    BY <1>3, <2>1 DEF Locked, OverlayInv, TypeOK, Rec, Over, files, history
  <2>3. SnapInv' /\ PhaseInv'
    BY <1>3, <2>1 DEF Locked, OverlayInv, SnapInv, PhaseInv, Working, files, history
  <2>4. SettledInv'
    BY <1>3, <2>1 DEF PhaseInv, Locked, OverlayInv, SettledInv, Settled, TypeOK, Over, files, history
  <2> QED BY <2>2, <2>3, <2>4 DEF OverlayInv
<1>4. ASSUME NEW p \in Procs, Refuse(p) PROVE OverlayInv'
  <2>1. /\ proc' \in [Procs -> Rec] /\ proc'[p].pc = "threw"
        /\ \A q \in Procs \ {p} : proc'[q] = proc[q]
    BY <1>4, GoFacts DEF Refuse, OverlayInv, Over
  <2>2. /\ holder = p
        /\ \A q \in Procs : proc'[q].pc \notin Working
    BY <1>4, <2>1, Alone DEF Refuse, OverlayInv, Working
  <2>3. TypeOK'
    BY <1>4, <2>1, <2>2 DEF Refuse, OverlayInv, TypeOK, Rec, Over, Busy, Working, files, history
  <2>4. SnapInv' /\ PhaseInv'
    BY <1>4, <2>1, <2>2 DEF Refuse, OverlayInv, SnapInv, PhaseInv, Working
  <2>5. SettledInv'
    BY <1>4, <2>2 DEF Refuse, OverlayInv, SettledInv, Settled, files, history
  <2> QED BY <2>3, <2>4, <2>5 DEF OverlayInv
<1>5. ASSUME NEW p \in Procs, Mutate(p) PROVE OverlayInv'
  <2>1. proc[p].pc \in Working /\ ~proc[p].back
    BY <1>5 DEF Mutate, Working, OverlayInv, PhaseInv
  <2>2. CASE overlay' = p /\ Go(p, "gateway") /\ UNCHANGED <<holder, history>>
    BY <1>5, <1>t, <2>1, <2>2, OnFacts DEF Mutate
  <2>3. CASE overlay' \in {overlay, p, Torn} /\ Fail(p, FALSE)
    BY <1>5, <1>t, <2>1, <2>3, FailFacts DEF Mutate
  <2> QED BY <1>5, <2>2, <2>3 DEF Mutate
<1>6. ASSUME NEW p \in Procs, Restore(p) PROVE OverlayInv'
  <2>1. /\ proc[p].pc \in Working /\ ~proc[p].back
        /\ proc[p].snap \in Values /\ (~lost => proc[p].snap = committed)
    BY <1>6 DEF Restore, Working, OverlayInv, PhaseInv, SnapInv
  <2>2. CASE overlay' \in {overlay, Torn} /\ End(p, "aggregate")
    BY <1>6, <1>t, <2>1, <2>2, EndFacts DEF Restore, Over
  <2>3. CASE /\ overlay' = proc[p].snap
             /\ proc' = [proc EXCEPT ![p].pc = "gateway", ![p].back = TRUE]
             /\ UNCHANGED <<holder, history>>
    <3> DEFINE rec == [proc[p] EXCEPT !.pc = "gateway", !.back = TRUE]
    <3>1. proc' = [proc EXCEPT ![p] = rec]
      BY <2>3, <1>t
    <3>2. rec \in Rec /\ rec.pc = "gateway" /\ rec.snap = proc[p].snap /\ rec.back
      BY <1>t DEF Rec, Busy
    <3> HIDE DEF rec
    <3>3. /\ proc' \in [Procs -> Rec] /\ proc'[p].pc = "gateway" /\ proc'[p].snap = proc[p].snap
          /\ \A q \in Procs \ {p} : proc'[q] = proc[q]
      BY <1>t, <3>1, <3>2
    <3>4. /\ holder = p /\ holder' = p
          /\ \A q \in Procs \ {p} : proc'[q].pc \notin Working
      BY <2>1, <2>3, <3>3, Alone DEF OverlayInv
    <3>5. TypeOK'
      BY <1>6, <2>1, <2>3, <3>3, <3>4
      DEF Restore, OverlayInv, TypeOK, Rec, Working, Busy, Over, history
    <3>6. SnapInv'
      BY <2>1, <2>3, <3>3, <3>4 DEF SnapInv, history
    <3>7. PhaseInv'
      BY <3>3, <3>4 DEF PhaseInv, Working, OverlayInv
    <3>8. SettledInv'
      BY <3>3, <3>4 DEF SettledInv, Settled, Over
    <3> QED BY <3>5, <3>6, <3>7, <3>8 DEF OverlayInv
  <2> QED BY <1>6, <2>2, <2>3 DEF Restore
<1>7. ASSUME NEW p \in Procs, Gateway(p) PROVE OverlayInv'
  <2>1. proc[p].pc \in Working
    BY <1>7 DEF Gateway, Working
  <2>2. CASE gateway' = overlay /\ Go(p, "targets") /\ UNCHANGED <<holder, history>>
    BY <1>7, <1>t, <2>1, <2>2, OnFacts DEF Gateway
  <2>3. CASE UNCHANGED gateway /\ Fail(p, TRUE)
    BY <1>7, <1>t, <2>1, <2>3, FailFacts DEF Gateway
  <2> QED BY <1>7, <2>2, <2>3 DEF Gateway
<1>8. ASSUME NEW p \in Procs, Targets(p) PROVE OverlayInv'
  <2>1. proc[p].pc \in Working /\ gateway = overlay
        /\ (proc[p].back => overlay = proc[p].snap)
    BY <1>8 DEF Targets, Working, OverlayInv, PhaseInv, SnapInv
  <2>2. CASE targets' = overlay /\ proc[p].restart
    BY <1>8, <1>t, <2>1, <2>2, OnFacts, FailFacts DEF Targets
  <2>3. CASE targets' = overlay /\ Whole(p)
    BY <1>8, <1>t, <2>1, <2>3, EndFacts DEF Targets, Whole, Over
  <2>4. CASE targets' \in {targets, overlay, Torn} /\ Fail(p, TRUE)
    BY <1>8, <1>t, <2>1, <2>4, FailFacts DEF Targets
  <2> QED BY <1>8, <2>2, <2>3, <2>4 DEF Targets
<1>9. ASSUME NEW p \in Procs, Reload(p) PROVE OverlayInv'
  <2>1. /\ proc[p].pc \in Working /\ gateway = overlay /\ targets = overlay
        /\ (proc[p].back => overlay = proc[p].snap)
        /\ UNCHANGED files /\ crashes' = crashes
    BY <1>9 DEF Reload, Working, OverlayInv, PhaseInv, SnapInv
  <2>2. CASE running' = gateway /\ Whole(p)
    BY <1>t, <2>1, <2>2, EndFacts DEF Whole, Over, files
  <2>3. CASE running' \in {running, gateway, None} /\ Fail(p, TRUE)
    BY <1>t, <2>1, <2>3, FailFacts DEF files
  <2> QED BY <1>9, <2>2, <2>3 DEF Reload
<1>10. ASSUME NEW p \in Procs, Crash(p) PROVE OverlayInv'
  <2>1. /\ proc' \in [Procs -> Rec] /\ proc'[p].pc = "dead"
        /\ \A q \in Procs \ {p} : proc'[q] = proc[q]
    BY <1>10, GoFacts DEF Crash, OverlayInv, Over
  <2>2. /\ overlay' \in Values /\ targets' \in Values /\ crashes' \in 0..MaxCrashes
    BY <1>10, <1>t DEF Crash, OverlayInv, TypeOK
  <2>3. TypeOK'
    BY <1>10, <2>1, <2>2 DEF Crash, OverlayInv, TypeOK, Rec, Over
  <2>4. CASE holder = p
    <3>1. \A q \in Procs : proc'[q].pc \notin Working
      BY <2>1, <2>4 DEF OverlayInv, TypeOK, Working, Over
    <3>2. SnapInv' /\ PhaseInv'
      BY <1>10, <2>1, <2>4, <3>1 DEF Crash, SnapInv, PhaseInv, Working, OverlayInv
    <3>3. SettledInv'
      BY <1>10, <2>4 DEF Crash, SettledInv
    <3> QED BY <2>3, <3>2, <3>3 DEF OverlayInv
  <2>5. CASE holder # p
    <3>1. proc[p].pc \notin Working
      BY <2>5, Alone DEF OverlayInv
    <3>2. UNCHANGED <<files, running, holder, history>>
      BY <1>10, <2>5, <3>1 DEF Crash, Working, files, history, OverlayInv, TypeOK
    <3>3. SnapInv' /\ PhaseInv'
      BY <2>1, <3>2 DEF SnapInv, PhaseInv, Working, OverlayInv, files, history
    <3>4. SettledInv'
      BY <2>1, <2>5, <3>2 DEF SettledInv, Settled, OverlayInv, TypeOK, files, history
    <3> QED BY <2>3, <3>3, <3>4 DEF OverlayInv
  <2> QED BY <2>4, <2>5
<1>11. CASE Stale
  BY <1>11 DEF Stale, OverlayInv, TypeOK, SnapInv, PhaseInv, SettledInv, Settled, files, history
<1> QED
  BY <1>0, <1>1, <1>2, <1>3, <1>4, <1>5, <1>6, <1>7, <1>8, <1>9, <1>10, <1>11 DEF Next, Run

(* Every variable keeps its type and only the holder of the lock is at     *)
(* work, whatever fails and whoever dies.                                  *)
THEOREM TypeCorrect == Spec => []TypeOK
<1>1. OverlayInv => TypeOK
  BY DEF OverlayInv
<1> QED BY <1>1, OverlayInit, OverlayStep, PTL DEF Spec

(* A failed transaction leaves exactly the last change that was made.      *)
THEOREM RollbackIsExact == Spec => []ExactRollback
<1>1. OverlayInv => ExactRollback
  BY DEF OverlayInv, SettledInv, Settled, ExactRollback
<1> QED BY <1>1, OverlayInit, OverlayStep, PTL DEF Spec

(* The overlay, the gateway and the clients agree between transactions     *)
(* unless a caller was warned.                                             *)
THEOREM FilesAgree == Spec => []Agree
<1>1. OverlayInv => Agree
  BY DEF OverlayInv, SettledInv, Settled, Agree
<1> QED BY <1>1, OverlayInit, OverlayStep, PTL DEF Spec

(* A transaction has the service load only what is published in full.      *)
THEOREM OnlyPublishedIsLoaded == Spec => LoadsPublished
<1>1. OverlayInv /\ [Next]_vars
      => [running' \notin {running, None} => gateway = overlay /\ targets = overlay]_vars
  <2> SUFFICES ASSUME OverlayInv, Next, running' \notin {running, None}
               PROVE  gateway = overlay /\ targets = overlay
    BY DEF vars
  <2>1. PICK p \in Procs : Reload(p)
    BY DEF Next, Run, Begin, Acquire, Locked, Refuse, Mutate, Restore, Gateway, Targets, Crash, Stale
  <2> QED BY <2>1 DEF Reload, OverlayInv, PhaseInv
<1> QED BY <1>1, OverlayInit, OverlayStep, PTL DEF Spec, LoadsPublished
=============================================================================
