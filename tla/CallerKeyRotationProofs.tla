---------------------- MODULE CallerKeyRotationProofs ----------------------
(***************************************************************************)
(* What CallerKeyRotation keeps, for any number of clients, rotations,     *)
(* exceptions and crashes.  The argument is the file exchange: while a     *)
(* rotation is open its rollback file is absent, and then the live secret  *)
(* is the old generation, or it holds the old generation itself; every     *)
(* place of the process says which, and what service and clients have.     *)
(***************************************************************************)
EXTENDS CallerKeyRotation, TLAPS

Have(S) == \A t \in S : clients[t] = live
Comes == wanted = "before" => service # None
Rollback == files[Op].rollback

(* Only the journal's operation has a rollback file, and an operation that *)
(* is yet to begin has no file at all.                                     *)
FilesInv ==
    /\ \A o \in Ops : o >= nextOp => files[o] = NoFiles
    /\ \A o \in Ops : journal = None \/ o # Op => files[o].rollback = None
    /\ journal # None => Op < nextOp

(* Without a journal nothing is in progress and all agree.                 *)
ClosedInv == journal = None =>
    /\ pc \in {"idle", "rec.read", "rot.begin"}
    /\ live # None /\ service \in {live, None} /\ Have(Installed) /\ Comes

(* With one, the old generation can be had back until "verified" is        *)
(* written, and from then on the new one is in use.                        *)
Kept == Rollback \in {None, journal.prev} /\ (Rollback = None => live = journal.prev)
OpenInv == journal # None =>
    /\ pc # "rot.begin" /\ Installed = journal.targets
    /\ wanted = "before" => journal.was
    /\ journal.phase # "verified" => Kept
    /\ journal.phase = "verified" =>
         /\ live = journal.cur /\ service \in {live, None} /\ Have(journal.targets) /\ Comes
         /\ pc \in {"idle", "rec.read", "rec.discard", "rec.clear", "rot.discard", "rot.clear"}

(* What holds at each place of a recovery.                                 *)
RecoveryInv == journal # None =>
    /\ pc \in {"res.displace", "res.swap", "res.unlink", "rec.refresh", "rec.start"} => service = None
    /\ pc \in {"rec.stop", "res.displace", "res.swap", "res.unlink", "rec.refresh", "rec.start",
               "rec.verify"}
         => journal.phase # "verified" /\ (journal.was => shouldRun)
    /\ pc = "res.displace" => Rollback # None
    /\ pc \in {"res.swap", "undo.displaced"} => Rollback # None /\ live = None
    /\ pc \in {"res.unlink", "undo.rollback", "rec.refresh", "rec.start", "rec.verify"} => Rollback = None
    /\ pc = "rec.refresh" => left \subseteq journal.targets /\ Have(journal.targets \ left)
    /\ pc \in {"rec.start", "rec.verify", "rec.discard", "rec.clear"} => Have(journal.targets)
    /\ pc = "rec.start" => shouldRun
    /\ pc = "rec.verify" => service = live
    /\ pc \in {"rec.discard", "rec.clear"} => live # None /\ service \in {live, None} /\ Comes
    /\ pc = "rec.discard" /\ journal.phase # "verified" => Rollback = None
    /\ pc = "rec.clear" => Rollback = None

(* What holds at each place of a rotation.                                 *)
RotationInv == journal # None =>
    /\ pc \in {"rot.stop", "rot.stopped"} => journal.phase = "prepared" /\ journal.was
    /\ pc \in SwapSteps \cup {"rot.swapped"} => journal.phase \in {"prepared", "service-stopped"}
    /\ pc \in {"rot.stop", "rot.stopped", "swap.write", "swap.rollback"} => Rollback = None
    /\ pc \in {"swap.live", "swap.restore"} => live = None /\ Rollback # None
    /\ pc \in {"swap.rollback", "swap.live"} => files[Op].new # None
    /\ pc \in {"swap.done", "swap.drop", "rot.swapped"} => live # None /\ Rollback # None
    /\ pc \in SwapSteps \cup {"rot.stopped", "rot.swapped", "rot.refresh", "rot.refreshed", "rot.start"}
         => service = None
    /\ pc \in {"rot.refresh", "rot.refreshed"} => journal.phase = "secret-swapped"
    /\ pc \in {"rot.start", "rot.started"} => journal.phase = "clients-refreshed" /\ journal.was
    /\ pc = "rot.verify" => journal.phase = "service-started" /\ journal.was
    /\ pc = "rot.verified" => IF journal.was THEN service = live /\ journal.phase = "service-started"
                              ELSE service = None /\ journal.phase = "clients-refreshed"
    /\ pc \in {"rot.refresh", "rot.refreshed", "rot.start", "rot.started", "rot.verify", "rot.verified"}
         => live = journal.cur /\ live # None
    /\ pc \in {"rot.started", "rot.verify"} => service = live
    /\ pc = "rot.refresh" => left \subseteq journal.targets /\ Have(journal.targets \ left)
    /\ pc \in {"rot.refreshed", "rot.start", "rot.started", "rot.verify", "rot.verified"}
         => Have(journal.targets)
    /\ pc \in {"rot.discard", "rot.clear"} => journal.phase = "verified"
    /\ pc = "rot.clear" => Rollback = None

KeyInv == TypeOK /\ FilesInv /\ ClosedInv /\ OpenInv /\ RecoveryInv /\ RotationInv

---------------------------------------------------------------------------
FileSets == [new : Generations, rollback : Generations, displaced : Generations]
Resting == {"idle", "rec.read", "rot.begin"}

(* A process at any other place has a journal, and files of its own.       *)
LEMMA AtWork ==
    ASSUME KeyInv, pc \notin Resting
    PROVE  journal \in Journals /\ journal # None /\ Op \in Ops /\ files[Op] \in FileSets
<1>1. journal # None
  BY DEF KeyInv, ClosedInv, Resting
<1>2. journal \in Journals
  BY <1>1 DEF KeyInv, TypeOK
<1>3. Op \in Ops
  BY <1>2 DEF Journals, Op
<1> QED BY <1>1, <1>2, <1>3 DEF KeyInv, TypeOK, FileSets

(* A rename that changes one name of the journal's operation.              *)
LEMMA Renamed ==
    ASSUME files \in [Ops -> FileSets], NEW o \in Ops, NEW v \in Generations
    PROVE  /\ [files EXCEPT ![o].new = v] \in [Ops -> FileSets]
           /\ [files EXCEPT ![o].rollback = v] \in [Ops -> FileSets]
           /\ [files EXCEPT ![o].displaced = v] \in [Ops -> FileSets]
           /\ [files EXCEPT ![o].rollback = None, ![o].new = None] \in [Ops -> FileSets]
<1>1. files[o] \in FileSets /\ None \in Generations
  BY DEF Generations
<1>2. /\ [files[o] EXCEPT !.new = v] \in FileSets
      /\ [files[o] EXCEPT !.rollback = v] \in FileSets
      /\ [files[o] EXCEPT !.displaced = v] \in FileSets
      /\ [[files[o] EXCEPT !.rollback = None] EXCEPT !.new = None] \in FileSets
  BY <1>1 DEF FileSets
<1> QED BY <1>1, <1>2

(* An advance of the journal writes the phase, and with the swap the new   *)
(* generation; the rest of it stays.                                       *)
AdvancedTo(phase) ==
    /\ journal' \in Journals /\ journal' # None /\ <<journal.phase, phase>> \in Transitions
    /\ journal'.phase = phase
    /\ journal'.cur = IF phase = "secret-swapped" THEN live ELSE journal.cur
    /\ journal'.op = journal.op /\ journal'.targets = journal.targets
    /\ journal'.was = journal.was /\ journal'.prev = journal.prev
LEMMA Advanced ==
    ASSUME journal \in Journals, live \in Generations,
           NEW p, NEW q, NEW phase \in Phases, Advance(p, q, phase)
    PROVE  AdvancedTo(phase)
<1> DEFINE c == IF phase = "secret-swapped" THEN live ELSE journal.cur
<1>1. c \in Gens \cup {None}
  BY DEF Journals, Generations
<1>2. journal' = [journal EXCEPT !.phase = phase, !.cur = c]
  BY DEF Advance, Journals
<1>3. /\ journal' \in Journals /\ journal'.phase = phase /\ journal'.cur = c
      /\ journal'.op = journal.op /\ journal'.targets = journal.targets
      /\ journal'.was = journal.was /\ journal'.prev = journal.prev
  <2> HIDE DEF c
  <2> QED BY <1>1, <1>2 DEF Journals
<1> QED BY <1>3, RotationAssumption DEF Advance, AdvancedTo

(* Initially nothing has begun and everything has generation 0.            *)
LEMMA InitInv == Init => KeyInv
<1> SUFFICES ASSUME Init PROVE KeyInv
  OBVIOUS
<1>1. 0 \in Gens /\ 1 \in 1..(MaxOps + 1) /\ 0 \in 0..MaxFaults /\ 0 \in 0..MaxCrashes
  BY RotationAssumption DEF Gens
<1>2. files = [o \in Ops |-> NoFiles] /\ NoFiles \in FileSets
  BY DEF Init, NoFiles, FileSets, Generations
<1>3. TypeOK
  <2>1. files \in [Ops -> FileSets]
    BY <1>2
  <2>2. live = 0 /\ live \in Generations /\ service \in {0, None} /\ service \in Generations
    BY <1>1 DEF Init, Generations
  <2>3. clients \in [Targets -> Generations]
    BY <1>1 DEF Init, Generations
  <2>4. wanted \in Intents
    BY DEF Init, Intents
  <2> QED BY <1>1, <2>1, <2>2, <2>3, <2>4 DEF Init, TypeOK, FileSets
<1>4. FilesInv /\ ClosedInv
  <2>1. \A o \in Ops : files[o] = NoFiles /\ files[o].rollback = None
    BY <1>2 DEF NoFiles
  <2>2. live # None /\ service \in {live, None} /\ Comes
    BY RotationAssumption DEF Init, Comes
  <2>3. Have(Installed)
    BY DEF Init, Have, Installed
  <2> QED BY <2>1, <2>2, <2>3 DEF Init, FilesInv, ClosedInv
<1> QED BY <1>3, <1>4 DEF Init, KeyInv, OpenInv, RecoveryInv, RotationInv

---------------------------------------------------------------------------
(* The steps.  Every leaf sees the invariant and the names it is made of.  *)
USE RotationAssumption
    DEF KeyInv, TypeOK, FilesInv, ClosedInv, OpenInv, RecoveryInv, RotationInv, Kept, Have, Comes,
        Rollback, Installed, Op, Ops, Gens, Generations, Journals, NoFiles, Phases, PostSwapPhases,
        RecoverySteps, SwapSteps, RotationSteps, Intents, At, StartService, disk, locals, counts

(* The operator's commands keep the invariant.                             *)
LEMMA OperatorStep == KeyInv /\ (OperatorStart \/ OperatorStop \/ Rotate) => KeyInv'
<1>1. KeyInv /\ OperatorStart => KeyInv'
  BY DEF OperatorStart
<1>2. KeyInv /\ OperatorStop => KeyInv'
  BY DEF OperatorStop
<1>3. KeyInv /\ Rotate => KeyInv'
  BY DEF Rotate
<1> QED BY <1>1, <1>2, <1>3

(* The steps of a recovery outside the restore.                            *)
LEMMA RecoverStep ==
    /\ KeyInv
    /\ RecoverNothing \/ RecoverVerified \/ RecoverPrepare
       \/ RecoverStop \/ RecoverStart \/ RecoverVerify
    => KeyInv'
<1>1. KeyInv /\ RecoverNothing => KeyInv'
  BY DEF RecoverNothing, RecoveryDone
<1>2. KeyInv /\ RecoverVerified => KeyInv'
  BY DEF RecoverVerified
<1>3. KeyInv /\ RecoverPrepare => KeyInv'
  BY DEF RecoverPrepare, RollbackProven
<1>4. KeyInv /\ RecoverStop => KeyInv'
  BY DEF RecoverStop
<1>5. KeyInv /\ RecoverStart => KeyInv'
  BY DEF RecoverStart
<1>6. KeyInv /\ RecoverVerify => KeyInv'
  BY DEF RecoverVerify
<1> QED BY <1>1, <1>2, <1>3, <1>4, <1>5, <1>6

(* The restore and its catch block.                                        *)
LEMMA RestoreStep ==
    /\ KeyInv
    /\ RestoreRefuse \/ RestoreDisplace \/ RestoreSwap
       \/ RestoreUnlink \/ UndoRollback \/ UndoDisplaced
    => KeyInv'
<1>1. KeyInv /\ RestoreRefuse => KeyInv'
  BY DEF RestoreRefuse
<1>2. ASSUME KeyInv, RestoreDisplace PROVE KeyInv'
  <2>1. Op \in Ops /\ Op \in Generations /\ journal \in Journals /\ files[Op] \in FileSets
    BY <1>2, AtWork DEF RestoreDisplace, Resting
  <2>2. files' \in [Ops -> FileSets]
    BY <1>2, <2>1, Renamed DEF RestoreDisplace, FileSets
  <2>3. TypeOK'
    BY <1>2, <2>1, <2>2 DEF RestoreDisplace, FileSets
  <2>4. FilesInv' /\ ClosedInv' /\ OpenInv'
    BY <1>2, <2>1 DEF RestoreDisplace
  <2>5. RecoveryInv' /\ RotationInv'
    BY <1>2, <2>1 DEF RestoreDisplace
  <2> QED BY <2>3, <2>4, <2>5
<1>3. ASSUME KeyInv, RestoreSwap PROVE KeyInv'
  <2>1. Op \in Ops /\ Op \in Generations /\ journal \in Journals /\ files[Op] \in FileSets
    BY <1>3, AtWork DEF RestoreSwap, Resting
  <2>2. files' \in [Ops -> FileSets]
    BY <1>3, <2>1, Renamed DEF RestoreSwap, FileSets
  <2>3. TypeOK'
    BY <1>3, <2>1, <2>2 DEF RestoreSwap, FileSets
  <2>4. FilesInv' /\ ClosedInv' /\ OpenInv'
    BY <1>3, <2>1 DEF RestoreSwap
  <2>5. RecoveryInv' /\ RotationInv'
    BY <1>3, <2>1 DEF RestoreSwap
  <2> QED BY <2>3, <2>4, <2>5
<1>4. ASSUME KeyInv, RestoreUnlink PROVE KeyInv'
  <2>1. Op \in Ops /\ Op \in Generations /\ journal \in Journals /\ files[Op] \in FileSets
    BY <1>4, AtWork DEF RestoreUnlink, Resting
  <2>2. files' \in [Ops -> FileSets]
    BY <1>4, <2>1, Renamed DEF RestoreUnlink, FileSets
  <2>3. TypeOK'
    BY <1>4, <2>1, <2>2 DEF RestoreUnlink, FileSets
  <2>4. FilesInv' /\ ClosedInv' /\ OpenInv'
    BY <1>4, <2>1 DEF RestoreUnlink
  <2>5. RecoveryInv' /\ RotationInv'
    BY <1>4, <2>1 DEF RestoreUnlink
  <2> QED BY <2>3, <2>4, <2>5
<1>5. ASSUME KeyInv, UndoRollback PROVE KeyInv'
  <2>1. Op \in Ops /\ Op \in Generations /\ journal \in Journals /\ files[Op] \in FileSets
    BY <1>5, AtWork DEF UndoRollback, Resting
  <2>2. files' \in [Ops -> FileSets]
    BY <1>5, <2>1, Renamed DEF UndoRollback, FileSets
  <2>3. TypeOK'
    BY <1>5, <2>1, <2>2 DEF UndoRollback, FileSets
  <2>4. FilesInv' /\ ClosedInv' /\ OpenInv'
    BY <1>5, <2>1 DEF UndoRollback
  <2>5. RecoveryInv' /\ RotationInv'
    BY <1>5, <2>1 DEF UndoRollback
  <2> QED BY <2>3, <2>4, <2>5
<1>6. ASSUME KeyInv, UndoDisplaced PROVE KeyInv'
  <2>1. Op \in Ops /\ Op \in Generations /\ journal \in Journals /\ files[Op] \in FileSets
    BY <1>6, AtWork DEF UndoDisplaced, Resting
  <2>2. files' \in [Ops -> FileSets]
    BY <1>6, <2>1, Renamed DEF UndoDisplaced, FileSets
  <2>3. TypeOK'
    BY <1>6, <2>1, <2>2 DEF UndoDisplaced, FileSets
  <2>4. FilesInv' /\ ClosedInv' /\ OpenInv'
    BY <1>6, <2>1 DEF UndoDisplaced
  <2>5. RecoveryInv' /\ RotationInv'
    BY <1>6, <2>1 DEF UndoDisplaced
  <2> QED BY <2>3, <2>4, <2>5
<1> QED BY <1>1, <1>2, <1>3, <1>4, <1>5, <1>6

(* The swap and its catch block.                                           *)
LEMMA SwapStep ==
    /\ KeyInv
    /\ SwapWrite \/ SwapRollback \/ SwapLive
       \/ SwapDone \/ SwapDrop \/ SwapRestore
    => KeyInv'
<1>1. ASSUME KeyInv, SwapWrite PROVE KeyInv'
  <2>1. Op \in Ops /\ Op \in Generations /\ journal \in Journals /\ files[Op] \in FileSets
    BY <1>1, AtWork DEF SwapWrite, Resting
  <2>2. files' \in [Ops -> FileSets]
    BY <1>1, <2>1, Renamed DEF SwapWrite, FileSets
  <2>3. TypeOK'
    BY <1>1, <2>1, <2>2 DEF SwapWrite, FileSets
  <2>4. FilesInv' /\ ClosedInv' /\ OpenInv'
    BY <1>1, <2>1 DEF SwapWrite
  <2>5. RecoveryInv' /\ RotationInv'
    BY <1>1, <2>1 DEF SwapWrite
  <2> QED BY <2>3, <2>4, <2>5
<1>2. ASSUME KeyInv, SwapRollback PROVE KeyInv'
  <2>1. Op \in Ops /\ Op \in Generations /\ journal \in Journals /\ files[Op] \in FileSets
    BY <1>2, AtWork DEF SwapRollback, Resting
  <2>2. files' \in [Ops -> FileSets]
    BY <1>2, <2>1, Renamed DEF SwapRollback, FileSets
  <2>3. TypeOK'
    BY <1>2, <2>1, <2>2 DEF SwapRollback, FileSets
  <2>4. FilesInv' /\ ClosedInv' /\ OpenInv'
    BY <1>2, <2>1 DEF SwapRollback
  <2>5. RecoveryInv' /\ RotationInv'
    BY <1>2, <2>1 DEF SwapRollback
  <2> QED BY <2>3, <2>4, <2>5
<1>3. ASSUME KeyInv, SwapLive PROVE KeyInv'
  <2>1. Op \in Ops /\ Op \in Generations /\ journal \in Journals /\ files[Op] \in FileSets
    BY <1>3, AtWork DEF SwapLive, Resting
  <2>2. files' \in [Ops -> FileSets]
    BY <1>3, <2>1, Renamed DEF SwapLive, FileSets
  <2>3. TypeOK'
    BY <1>3, <2>1, <2>2 DEF SwapLive, FileSets
  <2>4. FilesInv' /\ ClosedInv' /\ OpenInv'
    BY <1>3, <2>1 DEF SwapLive
  <2>5. RecoveryInv' /\ RotationInv'
    BY <1>3, <2>1 DEF SwapLive
  <2> QED BY <2>3, <2>4, <2>5
<1>4. KeyInv /\ SwapDone => KeyInv'
  BY DEF SwapDone
<1>5. KeyInv /\ SwapDrop => KeyInv'
  BY DEF SwapDrop
<1>6. ASSUME KeyInv, SwapRestore PROVE KeyInv'
  <2>1. Op \in Ops /\ Op \in Generations /\ journal \in Journals /\ files[Op] \in FileSets
    BY <1>6, AtWork DEF SwapRestore, Resting
  <2>2. files' \in [Ops -> FileSets]
    BY <1>6, <2>1, Renamed DEF SwapRestore, FileSets
  <2>3. TypeOK'
    BY <1>6, <2>1, <2>2 DEF SwapRestore, FileSets
  <2>4. FilesInv' /\ ClosedInv' /\ OpenInv'
    BY <1>6, <2>1 DEF SwapRestore
  <2>5. RecoveryInv' /\ RotationInv'
    BY <1>6, <2>1 DEF SwapRestore
  <2> QED BY <2>3, <2>4, <2>5
<1> QED BY <1>1, <1>2, <1>3, <1>4, <1>5, <1>6

(* The advances of the journal.                                            *)
LEMMA MarkStep ==
    /\ KeyInv
    /\ MarkStopped \/ MarkSwapped \/ MarkRefreshed
       \/ MarkStarted \/ MarkVerified
    => KeyInv'
<1>1. ASSUME KeyInv, MarkStopped PROVE KeyInv'
  <2>1. journal \in Journals /\ live \in Generations /\ "service-stopped" \in Phases /\ journal # None
    BY <1>1, AtWork DEF MarkStopped, Resting, Advance
  <2>2. Advance("rot.stopped", "swap.write", "service-stopped")
    BY <1>1 DEF MarkStopped
  <2>3. AdvancedTo("service-stopped")
    <3> HIDE DEF Journals, Phases
    <3> QED BY <2>1, <2>2, Advanced
  <2>4. TypeOK'
    BY <1>1, <2>1, <2>3 DEF MarkStopped, Advance, AdvancedTo, Transitions
  <2>5. FilesInv' /\ ClosedInv' /\ OpenInv'
    BY <1>1, <2>1, <2>3 DEF MarkStopped, Advance, AdvancedTo, Transitions
  <2>6. RecoveryInv' /\ RotationInv'
    BY <1>1, <2>1, <2>3 DEF MarkStopped, Advance, AdvancedTo, Transitions
  <2> QED BY <2>4, <2>5, <2>6
<1>2. ASSUME KeyInv, MarkSwapped PROVE KeyInv'
  <2>1. journal \in Journals /\ live \in Generations /\ "secret-swapped" \in Phases /\ journal # None
    BY <1>2, AtWork DEF MarkSwapped, Resting, Advance
  <2>2. Advance("rot.swapped", "rot.refresh", "secret-swapped")
    BY <1>2 DEF MarkSwapped
  <2>3. AdvancedTo("secret-swapped")
    <3> HIDE DEF Journals, Phases
    <3> QED BY <2>1, <2>2, Advanced
  <2>4. TypeOK'
    BY <1>2, <2>1, <2>3 DEF MarkSwapped, Advance, AdvancedTo, Transitions
  <2>5. FilesInv' /\ ClosedInv' /\ OpenInv'
    BY <1>2, <2>1, <2>3 DEF MarkSwapped, Advance, AdvancedTo, Transitions
  <2>6. RecoveryInv' /\ RotationInv'
    BY <1>2, <2>1, <2>3 DEF MarkSwapped, Advance, AdvancedTo, Transitions
  <2> QED BY <2>4, <2>5, <2>6
<1>3. ASSUME KeyInv, MarkRefreshed PROVE KeyInv'
  <2>1. journal \in Journals /\ live \in Generations /\ "clients-refreshed" \in Phases /\ journal # None
    BY <1>3, AtWork DEF MarkRefreshed, Resting, Advance
  <2>2. PICK q \in {"rot.start", "rot.verified"} :
           Advance("rot.refreshed", q, "clients-refreshed") /\ q = IF journal.was THEN "rot.start" ELSE "rot.verified"
    BY <1>3 DEF MarkRefreshed
  <2>3. AdvancedTo("clients-refreshed")
    <3> HIDE DEF Journals, Phases
    <3> QED BY <2>1, <2>2, Advanced
  <2>4. TypeOK'
    BY <1>3, <2>1, <2>2, <2>3 DEF MarkRefreshed, Advance, AdvancedTo, Transitions
  <2>5. FilesInv' /\ ClosedInv' /\ OpenInv'
    BY <1>3, <2>1, <2>2, <2>3 DEF MarkRefreshed, Advance, AdvancedTo, Transitions
  <2>6. RecoveryInv' /\ RotationInv'
    BY <1>3, <2>1, <2>2, <2>3 DEF MarkRefreshed, Advance, AdvancedTo, Transitions
  <2> QED BY <2>4, <2>5, <2>6
<1>4. ASSUME KeyInv, MarkStarted PROVE KeyInv'
  <2>1. journal \in Journals /\ live \in Generations /\ "service-started" \in Phases /\ journal # None
    BY <1>4, AtWork DEF MarkStarted, Resting, Advance
  <2>2. Advance("rot.started", "rot.verify", "service-started")
    BY <1>4 DEF MarkStarted
  <2>3. AdvancedTo("service-started")
    <3> HIDE DEF Journals, Phases
    <3> QED BY <2>1, <2>2, Advanced
  <2>4. TypeOK'
    BY <1>4, <2>1, <2>3 DEF MarkStarted, Advance, AdvancedTo, Transitions
  <2>5. FilesInv' /\ ClosedInv' /\ OpenInv'
    BY <1>4, <2>1, <2>3 DEF MarkStarted, Advance, AdvancedTo, Transitions
  <2>6. RecoveryInv' /\ RotationInv'
    BY <1>4, <2>1, <2>3 DEF MarkStarted, Advance, AdvancedTo, Transitions
  <2> QED BY <2>4, <2>5, <2>6
<1>5. ASSUME KeyInv, MarkVerified PROVE KeyInv'
  <2>1. journal \in Journals /\ live \in Generations /\ "verified" \in Phases /\ journal # None
    BY <1>5, AtWork DEF MarkVerified, Resting, Advance
  <2>2. Advance("rot.verified", "rot.discard", "verified")
    BY <1>5 DEF MarkVerified
  <2>3. AdvancedTo("verified")
    <3> HIDE DEF Journals, Phases
    <3> QED BY <2>1, <2>2, Advanced
  <2>4. TypeOK'
    BY <1>5, <2>1, <2>3 DEF MarkVerified, Advance, AdvancedTo, Transitions
  <2>5. FilesInv' /\ ClosedInv' /\ OpenInv'
    BY <1>5, <2>1, <2>3 DEF MarkVerified, Advance, AdvancedTo, Transitions
  <2>6. RecoveryInv' /\ RotationInv'
    BY <1>5, <2>1, <2>3 DEF MarkVerified, Advance, AdvancedTo, Transitions
  <2> QED BY <2>4, <2>5, <2>6
<1> QED BY <1>1, <1>2, <1>3, <1>4, <1>5

(* The other steps of a rotation.                                          *)
LEMMA RotateStep ==
    /\ KeyInv
    /\ RotateRefuse \/ BeginJournal \/ RotateStop
       \/ RotateStart \/ RotateVerify
    => KeyInv'
<1>1. KeyInv /\ RotateRefuse => KeyInv'
  BY DEF RotateRefuse
<1>2. ASSUME KeyInv, BeginJournal PROVE KeyInv'
  <2>1. journal = None /\ nextOp \in Ops /\ live \in Gens /\ live # None
    BY <1>2 DEF BeginJournal
  <2>2. /\ journal' \in Journals /\ journal' # None /\ journal'.op = nextOp
        /\ journal'.phase = "prepared" /\ journal'.targets = Installed
        /\ journal'.was = (service # None) /\ journal'.prev = live /\ journal'.cur = None
    <3> DEFINE was == service # None
    <3> DEFINE T == Installed
    <3>1. was \in BOOLEAN /\ T \in SUBSET Targets
      OBVIOUS
    <3>2. journal' = [op |-> nextOp, phase |-> "prepared", targets |-> T,
                      was |-> was, prev |-> live, cur |-> None]
      BY <1>2 DEF BeginJournal
    <3> HIDE DEF was, T
    <3>3. /\ journal' \in Journals /\ journal'.op = nextOp
          /\ journal'.phase = "prepared" /\ journal'.targets = T
          /\ journal'.was = was /\ journal'.prev = live /\ journal'.cur = None
      BY <2>1, <3>1, <3>2
    <3> QED BY <3>3 DEF was, T
  <2>3. files[nextOp] = NoFiles /\ files'[journal'.op].rollback = None
    BY <1>2, <2>1, <2>2 DEF BeginJournal
  <2>4. TypeOK'
    BY <1>2, <2>1, <2>2 DEF BeginJournal
  <2>5. FilesInv'
    BY <1>2, <2>1, <2>2 DEF BeginJournal
  <2>6. ClosedInv' /\ RecoveryInv'
    BY <1>2, <2>2 DEF BeginJournal
  <2>7. OpenInv'
    BY <1>2, <2>1, <2>2, <2>3 DEF BeginJournal
  <2>8. RotationInv'
    BY <1>2, <2>1, <2>2, <2>3 DEF BeginJournal
  <2> QED BY <2>4, <2>5, <2>6, <2>7, <2>8
<1>3. KeyInv /\ RotateStop => KeyInv'
  BY DEF RotateStop
<1>4. KeyInv /\ RotateStart => KeyInv'
  BY DEF RotateStart
<1>5. ASSUME KeyInv, RotateVerify PROVE KeyInv'
  <2>1. TypeOK'
    BY <1>5 DEF RotateVerify
  <2>2. FilesInv' /\ ClosedInv' /\ OpenInv'
    BY <1>5 DEF RotateVerify
  <2>3. RecoveryInv' /\ RotationInv'
    BY <1>5 DEF RotateVerify
  <2> QED BY <2>1, <2>2, <2>3
<1> QED BY <1>1, <1>2, <1>3, <1>4, <1>5

(* The end of a recovery and of a rotation.                                *)
LEMMA CloseStep ==
    KeyInv /\ (Discard \/ Clear) => KeyInv'
<1>1. ASSUME KeyInv, Discard PROVE KeyInv'
  <2>1. Op \in Ops /\ Op \in Generations /\ journal \in Journals /\ files[Op] \in FileSets
    BY <1>1, AtWork DEF Discard, Resting
  <2>2. files' \in [Ops -> FileSets]
    BY <1>1, <2>1, Renamed DEF Discard, FileSets
  <2>3. TypeOK'
    BY <1>1, <2>1, <2>2 DEF Discard, FileSets
  <2>4. FilesInv' /\ ClosedInv' /\ OpenInv'
    BY <1>1, <2>1 DEF Discard
  <2>5. RecoveryInv' /\ RotationInv'
    BY <1>1, <2>1 DEF Discard
  <2> QED BY <2>3, <2>4, <2>5
<1>2. KeyInv /\ Clear => KeyInv'
  BY DEF Clear, RecoveryDone
<1> QED BY <1>1, <1>2

(* An exception or a death at any place.                                   *)
LEMMA FailStep ==
    KeyInv /\ (Fault \/ Crash) => KeyInv'
<1>1. ASSUME KeyInv, Fault PROVE KeyInv'
  <2>1. TypeOK'
    <3>1. faults' \in 0..MaxFaults
      BY <1>1 DEF Fault
    <3>2. pc' \in {"idle"} \cup RecoverySteps \cup SwapSteps \cup RotationSteps
      BY <1>1 DEF Fault, Handler
    <3>3. files' \in [Ops -> FileSets]
      BY <1>1, AtWork, Renamed DEF Fault, FileSets, Resting
    <3> QED BY <1>1, <3>1, <3>2, <3>3 DEF Fault, FileSets
  <2>2. FilesInv' /\ ClosedInv' /\ OpenInv'
    BY <1>1 DEF Fault, Handler
  <2>3. RecoveryInv' /\ RotationInv'
    BY <1>1 DEF Fault, Handler
  <2> QED BY <2>1, <2>2, <2>3
<1>2. ASSUME KeyInv, Crash PROVE KeyInv'
  <2>1. TypeOK'
    <3>1. crashes' \in 0..MaxCrashes
      BY <1>2 DEF Crash
    <3> QED BY <1>2, <3>1 DEF Crash
  <2>2. FilesInv' /\ ClosedInv' /\ OpenInv'
    BY <1>2 DEF Crash
  <2>3. RecoveryInv' /\ RotationInv'
    BY <1>2 DEF Crash
  <2> QED BY <2>1, <2>2, <2>3
<1> QED BY <1>1, <1>2

(* The refresh of one client, and of the last.                             *)
LEMMA RefreshStep == KeyInv /\ (Refreshed \/ \E t \in Targets : Refresh(t)) => KeyInv'
<1>1. KeyInv /\ Refreshed => KeyInv'
  BY DEF Refreshed
<1>2. ASSUME KeyInv, NEW t \in Targets, Refresh(t) PROVE KeyInv'
  <2>1. journal # None /\ live # None /\ clients'[t] = live
    BY <1>2 DEF Refresh
  <2>2. TypeOK' /\ FilesInv'
    BY <1>2, <2>1 DEF Refresh
  <2>3. Installed' = journal.targets /\ \A u \in journal.targets \ left' : clients'[u] = live
    BY <1>2, <2>1 DEF Refresh
  <2>4. ClosedInv' /\ OpenInv'
    BY <1>2, <2>1, <2>3 DEF Refresh
  <2>5. RecoveryInv' /\ RotationInv'
    BY <1>2, <2>1, <2>3 DEF Refresh
  <2> QED BY <2>2, <2>4, <2>5
<1> QED BY <1>1, <1>2

(* No step breaks the invariant.                                           *)
LEMMA NextInv == KeyInv /\ [Next]_vars => KeyInv'
<1>1. KeyInv /\ UNCHANGED vars => KeyInv'
  BY DEF vars
<1> HIDE DEF KeyInv
<1> QED
  BY <1>1, OperatorStep, RecoverStep, RestoreStep, SwapStep, MarkStep, RotateStep, CloseStep,
     FailStep, RefreshStep
  DEF Next, Work, Recover, Swap, Mark

HIDE DEF KeyInv, TypeOK, FilesInv, ClosedInv, OpenInv, RecoveryInv, RotationInv, Kept, Have, Comes,
         Rollback, Installed, Op, Ops, Gens, Generations, Journals, NoFiles, Phases, PostSwapPhases,
         RecoverySteps, SwapSteps, RotationSteps, Intents, At, StartService, disk, locals, counts

(* The inductive invariant holds in every state of every rotation.         *)
THEOREM KeyInvariant == Spec => []KeyInv
  BY InitInv, NextInv, PTL DEF Spec

(* Every variable keeps its type, and a journal past the swap names the    *)
(* new generation, as validJournal demands of the file it reads.           *)
THEOREM RotationTypes == Spec => []TypeOK
<1>1. KeyInv => TypeOK
  BY DEF KeyInv
<1> QED BY <1>1, KeyInvariant, PTL

(* Once no rotation is pending, secret file, clients and router agree, and *)
(* "verified" is written only over a generation that is in use.            *)
THEOREM CapabilitiesAgree == Spec => []Agreement
<1>1. KeyInv => Agreement
  BY DEF KeyInv, FilesInv, ClosedInv, OpenInv, Have, Agreement, Settled
<1> QED BY <1>1, KeyInvariant, PTL

(* Until it is verified, a rotation's old generation is on disk.           *)
THEOREM OldGenerationKept == Spec => []PreviousKept
<1>1. KeyInv => PreviousKept
  BY DEF KeyInv, OpenInv, Kept, Rollback, PreviousKept
<1> QED BY <1>1, KeyInvariant, PTL

(* A router that ran before a rotation runs when nothing is pending.       *)
THEOREM RouterRunsAgain == Spec => []ServiceComesBack
<1>1. KeyInv => ServiceComesBack
  BY DEF KeyInv, ClosedInv, Comes, ServiceComesBack, Settled
<1> QED BY <1>1, KeyInvariant, PTL
============================================================================
