-------------------------- MODULE StateLockProofs --------------------------
(***************************************************************************)
(* The state lock, for any number of processes, crashes and pauses: no     *)
(* call leaves its lock behind, and until a lock is overtaken it makes its *)
(* users' read-modify-write the atomic change AtomicUpdates specifies.     *)
(***************************************************************************)
EXTENDS StateLock, TLAPS

\* The processes that will still remove the directory, or died before.
Bound == {"owner", "read", "write", "release", "releaseDir",
          "takeOwner", "takeDir", "dropOwner", "dropDir", "dead"}
LeftInv ==
    /\ TypeOK
    /\ \A p \in Procs : pc[p] = "sleep" => waits[p] < MaxWaits
    /\ dir # None => \E p \in Procs : pc[p] \in Bound

Dirs == [own : Procs \cup {None}, old : BOOLEAN]

\* At the start there is no lock.
LEMMA LeftInit == Init => LeftInv
<1> SUFFICES ASSUME Init PROVE LeftInv
  OBVIOUS
<1>1. overtaken \in BOOLEAN
  BY Zenon DEF Init
<1> QED BY <1>1, LockAssumption DEF Init, LeftInv, TypeOK, Working, Stopped

\* Who makes a lock, or finds one, removes it, times out or dies.
LEMMA LeftStep == LeftInv /\ [Next]_vars => LeftInv'
<1> SUFFICES ASSUME LeftInv, [Next]_vars PROVE LeftInv'
  OBVIOUS
<1> USE LockAssumption DEF LeftInv, TypeOK, Working, Stopped, Bound, Goto, Lock, Only
<1>1. CASE UNCHANGED vars
  BY <1>1 DEF vars
<1>2. CASE Age
  <2>1. dir \in Dirs
    BY <1>2 DEF Age, Dirs
  <2>2. dir' \in Dirs
    BY <1>2, <2>1 DEF Age, Dirs
  <2> QED BY <1>2, <2>2 DEF Age, Dirs
<1>3. ASSUME NEW p \in Procs, Mkdir(p) PROVE LeftInv'
  BY <1>3 DEF Mkdir
<1>4. ASSUME NEW p \in Procs, Exists(p) PROVE LeftInv'
  BY <1>4 DEF Exists
<1>5. ASSUME NEW p \in Procs, WriteOwner(p) PROVE LeftInv'
  BY <1>5 DEF WriteOwner
<1>6. ASSUME NEW p \in Procs, InitFails(p) PROVE LeftInv'
  BY <1>6 DEF InitFails
<1>7. ASSUME NEW p \in Procs, Judge(p) PROVE LeftInv'
  BY <1>7 DEF Judge
<1>8. ASSUME NEW p \in Procs, Sleep(p) PROVE LeftInv'
  BY <1>8 DEF Sleep
<1>9. ASSUME NEW p \in Procs, TakeOver(p) PROVE LeftInv'
  <2>1. CASE dir' = Unlinked
    <3>1. dir' \in {None} \cup Dirs /\ (dir' # None => dir # None)
      BY <2>1 DEF Unlinked, Dirs
    <3> QED BY <1>9, <3>1 DEF TakeOver, RmOwner, RmDir, Dirs
  <2>2. CASE dir' = None
    BY <1>9, <2>2 DEF TakeOver, RmOwner, RmDir
  <2> QED BY <1>9, <2>1, <2>2 DEF TakeOver, RmOwner, RmDir
<1>10. ASSUME NEW p \in Procs, Drop(p) PROVE LeftInv'
  <2>1. CASE dir' = Unlinked
    <3>1. dir' \in {None} \cup Dirs /\ (dir' # None => dir # None)
      BY <2>1 DEF Unlinked, Dirs
    <3> QED BY <1>10, <3>1 DEF Drop, RmOwner, RmDir, Dirs
  <2>2. CASE dir' = None
    BY <1>10, <2>2 DEF Drop, RmOwner, RmDir
  <2> QED BY <1>10, <2>1, <2>2 DEF Drop, RmOwner, RmDir
<1>11. ASSUME NEW p \in Procs, Release(p) PROVE LeftInv'
  <2>1. CASE dir' = Unlinked
    <3>1. dir' \in {None} \cup Dirs /\ (dir' # None => dir # None)
      BY <2>1 DEF Unlinked, Dirs
    <3> QED BY <1>11, <3>1 DEF Release, RmOwner, RmDir, Dirs
  <2>2. CASE dir' = None
    BY <1>11, <2>2 DEF Release, RmOwner, RmDir
  <2> QED BY <1>11, <2>1, <2>2 DEF Release, RmOwner, RmDir
<1>12. ASSUME NEW p \in Procs, Read(p) PROVE LeftInv'
  BY <1>12 DEF Read
<1>13. ASSUME NEW p \in Procs, Write(p) PROVE LeftInv'
  BY <1>13 DEF Write
<1>14. ASSUME NEW p \in Procs, Throws(p) PROVE LeftInv'
  BY <1>14 DEF Throws
<1>15. ASSUME NEW p \in Procs, Crash(p) PROVE LeftInv'
  BY <1>15 DEF Crash
<1> QED BY <1>1, <1>2, <1>3, <1>4, <1>5, <1>6, <1>7, <1>8, <1>9, <1>10, <1>11, <1>12, <1>13,
           <1>14, <1>15 DEF Next, Step

\* Every variable stays within its type, whatever dies or is held up.
THEOREM TypeCorrect == Spec => []TypeOK
<1>1. LeftInv => TypeOK
  BY DEF LeftInv
<1> QED BY <1>1, LeftInit, LeftStep, PTL DEF Spec

\* When every process has returned, no lock directory is left, for any
\* number of processes, crashes and pauses (withAtomicStateLock's finally,
\* acquire's clean-up and the takeover).
THEOREM NoLockLeft == Spec => []NothingLeftBehind
<1>1. LeftInv => NothingLeftBehind
  <2> SUFFICES ASSUME LeftInv, \A p \in Procs : pc[p] \in {"done", "failed"}, dir # None PROVE FALSE
    BY DEF NothingLeftBehind
  <2>1. PICK p \in Procs : pc[p] \in Bound
    BY DEF LeftInv
  <2> QED BY <2>1 DEF Bound
<1> QED BY <1>1, LeftInit, LeftStep, PTL DEF Spec

-----------------------------------------------------------------------------
(* Until a lock is overtaken.                                                *)

Unnamed == {"owner", "dropOwner", "dropDir", "releaseDir"}
Owning(p) == pc[p] \in Unnamed \cup {"read", "write", "release"}
Taking(p) == pc[p] \in {"takeOwner", "takeDir"}

\* The directory belongs to the one process between mkdir and the removal, and
\* while there is one nobody is taking a lock over.
MutexInv ==
    /\ dir # None => ~dir.old
    /\ \A p \in Procs :
         /\ Owning(p) => dir # None
         /\ pc[p] \in {"read", "write", "release"} => dir.own = p
         /\ pc[p] \in Unnamed => dir.own = None
    /\ \A p, q \in Procs : Owning(p) /\ (Owning(q) \/ Taking(q)) => p = q

\* What the owner has read is the document, and its change is in there once
\* it has written.
CopyInv ==
    \A p \in Procs :
        /\ pc[p] = "write" => copy[p] = store
        /\ p \in copy[p] => p \in store
        /\ p \in store => pc[p] \in {"release", "releaseDir", "done", "dead"} /\ p \in copy[p]

SoundInv == LeftInv /\ (overtaken \/ (MutexInv /\ CopyInv))

\* A directory is never mistaken for none.
LEMMA NewDir ==
    ASSUME NEW o \in Procs \cup {None}, NEW d, d = [own |-> o, old |-> FALSE]
    PROVE  d # None /\ d.own = o /\ ~d.old
<1>1. d \in [own : Procs \cup {None}, old : BOOLEAN]
  OBVIOUS
<1> QED BY <1>1, LockAssumption

\* At the start nobody has the lock and nothing is written.
LEMMA SoundInit == Init => SoundInv
BY LeftInit DEF Init, SoundInv, MutexInv, CopyInv, Unnamed, Owning, Taking

\* Once a lock has been overtaken, it stays so.
LEMMA OvertakenStays == ASSUME TypeOK, [Next]_vars, overtaken PROVE overtaken'
BY DEF Next, Step, Age, Crash, Mkdir, Exists, WriteOwner, InitFails, Judge, Sleep, TakeOver, Drop,
       Release, RmOwner, RmDir, Read, Write, Throws, Lock, Only, vars

\* A step that overtakes no lock keeps the lock exclusive and the copy of its
\* owner up to date.
LEMMA CalmStep ==
    ASSUME TypeOK, MutexInv, CopyInv, [Next]_vars, ~overtaken'
    PROVE  MutexInv' /\ CopyInv'
<1> USE LockAssumption DEF TypeOK, Working, Stopped, MutexInv, CopyInv, Unnamed, Owning, Taking, Goto, Lock, Only
<1>1. CASE UNCHANGED vars
  BY <1>1 DEF vars
<1>2. CASE Age
  BY <1>2 DEF Age
<1>3. ASSUME NEW p \in Procs, Mkdir(p) PROVE MutexInv' /\ CopyInv'
  <2>1. dir' # None /\ dir'.own = None /\ ~dir'.old
    BY <1>3, NewDir DEF Mkdir
  <2>2. \A q \in Procs : pc[q] \notin Removing
    BY <1>3 DEF Mkdir
  <2> QED BY <1>3, <2>1, <2>2 DEF Mkdir, Removing
<1>4. ASSUME NEW p \in Procs, Exists(p) PROVE MutexInv' /\ CopyInv'
  BY <1>4 DEF Exists
<1>5. ASSUME NEW p \in Procs, WriteOwner(p) PROVE MutexInv' /\ CopyInv'
  <2>1. dir' # None /\ dir'.own = p /\ ~dir'.old
    BY <1>5, NewDir DEF WriteOwner
  <2> QED BY <1>5, <2>1 DEF WriteOwner
<1>6. ASSUME NEW p \in Procs, InitFails(p) PROVE MutexInv' /\ CopyInv'
  BY <1>6 DEF InitFails
<1>7. ASSUME NEW p \in Procs, Judge(p) PROVE MutexInv' /\ CopyInv'
  <2>1. Abandoned => \A q \in Procs : ~Owning(q)
    BY DEF Abandoned
  <2> QED BY <1>7, <2>1 DEF Judge
<1>8. ASSUME NEW p \in Procs, Sleep(p) PROVE MutexInv' /\ CopyInv'
  BY <1>8 DEF Sleep
<1>9. ASSUME NEW p \in Procs, TakeOver(p) PROVE MutexInv' /\ CopyInv'
  <2>1. \A q \in Procs : ~Owning(q)
    BY <1>9 DEF TakeOver, RmOwner, RmDir
  <2>2. dir' # None => ~dir'.old
    BY <1>9, NewDir DEF TakeOver, RmOwner, RmDir, Unlinked
  <2> QED BY <1>9, <2>1, <2>2 DEF TakeOver, RmOwner, RmDir
<1>10. ASSUME NEW p \in Procs, Drop(p) PROVE MutexInv' /\ CopyInv'
  <2>1. CASE RmOwner(p, "dropOwner", "dropDir")
    <3>1. dir' # None /\ dir'.own = None /\ ~dir'.old
      BY <2>1, NewDir DEF RmOwner, Unlinked
    <3> QED BY <2>1, <3>1 DEF RmOwner
  <2>2. CASE RmDir(p, "dropDir", "failed")
    BY <2>2 DEF RmDir
  <2> QED BY <1>10, <2>1, <2>2 DEF Drop
<1>11. ASSUME NEW p \in Procs, Release(p) PROVE MutexInv' /\ CopyInv'
  <2>1. CASE RmOwner(p, "release", "releaseDir")
    <3>1. dir' # None /\ dir'.own = None /\ ~dir'.old
      BY <2>1, NewDir DEF RmOwner, Unlinked
    <3> QED BY <2>1, <3>1 DEF RmOwner
  <2>2. CASE RmDir(p, "releaseDir", IF p \in copy[p] THEN "done" ELSE "failed")
    BY <2>2 DEF RmDir
  <2> QED BY <1>11, <2>1, <2>2 DEF Release
<1>12. ASSUME NEW p \in Procs, Read(p) PROVE MutexInv' /\ CopyInv'
  BY <1>12 DEF Read
<1>13. ASSUME NEW p \in Procs, Write(p) PROVE MutexInv' /\ CopyInv'
  BY <1>13 DEF Write
<1>14. ASSUME NEW p \in Procs, Throws(p) PROVE MutexInv' /\ CopyInv'
  BY <1>14 DEF Throws
<1>15. ASSUME NEW p \in Procs, Crash(p) PROVE MutexInv' /\ CopyInv'
  BY <1>15 DEF Crash
<1> QED BY <1>1, <1>2, <1>3, <1>4, <1>5, <1>6, <1>7, <1>8, <1>9, <1>10, <1>11, <1>12, <1>13,
           <1>14, <1>15 DEF Next, Step

\* The invariant is inductive.
LEMMA SoundStep == SoundInv /\ [Next]_vars => SoundInv'
BY LeftStep, CalmStep, OvertakenStays DEF SoundInv, LeftInv

\* Every step of the lock is a step of AtomicUpdates or changes nothing it
\* can see: Write is the update, the removal of the directory the return.
LEMMA StepRefines ==
    ASSUME TypeOK, CopyInv, [Next]_vars
    PROVE  Atomic!Next \/ UNCHANGED Atomic!vars
<1> USE LockAssumption DEF TypeOK, Goto, Lock, Only, Atomic!vars, Atomic!Next, Atomic!Update, Atomic!Return
<1>1. CASE UNCHANGED vars
  BY <1>1 DEF vars
<1>2. CASE Age
  BY <1>2 DEF Age
<1>3. ASSUME NEW p \in Procs, Write(p) PROVE Atomic!Update(p)
  BY <1>3 DEF Write, CopyInv
<1>4. ASSUME NEW p \in Procs, RmDir(p, "releaseDir", IF p \in copy[p] THEN "done" ELSE "failed")
      PROVE  Atomic!Return(p) \/ UNCHANGED Atomic!vars
  BY <1>4 DEF RmDir, CopyInv
<1>5. ASSUME NEW p \in Procs, Step(p) \/ Crash(p), ~Write(p),
             ~RmDir(p, "releaseDir", IF p \in copy[p] THEN "done" ELSE "failed")
      PROVE  UNCHANGED Atomic!vars
  BY <1>5 DEF Step, Crash, Mkdir, Exists, WriteOwner, InitFails, Judge, Sleep, TakeOver, Drop, Release,
              RmOwner, RmDir, Read, Throws
<1> QED BY <1>1, <1>2, <1>3, <1>4, <1>5 DEF Next, Step

\* The lock implements AtomicUpdates for any number of processes, whatever
\* their interleaving, waits, timeouts, errors and deaths, as long as no lock
\* is overtaken: none is made while another process is still to remove one,
\* and none stays without its owner file for STALE_MS.
THEOREM LockRefines == Spec => Implements
<1>1. Init => Atomic!Init
  BY DEF Init, Atomic!Init
<1>2. ASSUME SoundInv, [Next]_vars, ~overtaken' PROVE Atomic!Next \/ UNCHANGED Atomic!vars
  BY <1>2, StepRefines, OvertakenStays DEF SoundInv, LeftInv
<1>3. SoundInv /\ [Next]_vars => [~overtaken' => Atomic!Next \/ UNCHANGED Atomic!vars]_vars
  BY <1>2
<1> QED BY <1>1, <1>3, SoundInit, SoundStep, PTL DEF Spec, Implements
============================================================================
