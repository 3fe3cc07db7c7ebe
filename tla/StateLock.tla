----------------------------- MODULE StateLock -----------------------------
(***************************************************************************)
(* The directory lock around the router's small state documents:           *)
(* src/router/src/atomic-state-lock.mjs, used by provider-credential-store *)
(* generic-providers, search-sidecar-state and skills-install.             *)
(*                                                                         *)
(* Each process makes one call: it changes the document (adds itself to    *)
(* store) by reading, modifying and writing it under the lock.  Processes  *)
(* interleave at every file operation and may die between any two.         *)
(***************************************************************************)
EXTENDS Naturals, FiniteSets

CONSTANTS Procs, None,
          MaxWaits,     \* sleeps before a waiter times out; 80 in the code
          MaxCrashes,
          MaxPauses     \* times an ownerless directory grows older than STALE_MS

ASSUME LockAssumption ==
    /\ None \notin Procs /\ None \notin [own : Procs \cup {None}, old : BOOLEAN]
    /\ MaxWaits \in Nat /\ MaxCrashes \in Nat /\ MaxPauses \in Nat

VARIABLES dir,       \* the lock directory: its owner file and whether it is old
          store,     \* the changes in the document
          copy,      \* what each process read of it
          pc, waits, crashes, pauses,
          overtaken  \* a lock was made that another process will still remove, or
                     \* grew old before its owner file was written (history)

vars == <<dir, store, copy, pc, waits, crashes, pauses, overtaken>>

Init ==
    /\ dir = None /\ store = {} /\ copy = [p \in Procs |-> {}]
    /\ pc = [p \in Procs |-> "mkdir"] /\ waits = [p \in Procs |-> 0]
    /\ crashes = 0 /\ pauses = 0 /\ overtaken = FALSE

Goto(p, q) == pc' = [pc EXCEPT ![p] = q]
Lock(d) == dir' = d /\ UNCHANGED <<store, copy, waits, crashes, pauses, overtaken>>
Only == UNCHANGED <<dir, store, copy, waits, crashes, pauses, overtaken>>

---------------------------------------------------------------------------
(* acquire                                                                 *)

Removing == {"takeOwner", "takeDir", "dropOwner", "dropDir", "release", "releaseDir"}
Mkdir(p) ==
    /\ pc[p] = "mkdir" /\ dir = None /\ Goto(p, "owner") /\ dir' = [own |-> None, old |-> FALSE]
    /\ overtaken' = (overtaken \/ \E q \in Procs : pc[q] \in Removing)
    /\ UNCHANGED <<store, copy, waits, crashes, pauses>>
Exists(p) == pc[p] = "mkdir" /\ dir # None /\ Goto(p, "judge") /\ Only
WriteOwner(p) ==
    /\ pc[p] = "owner" /\ dir # None /\ dir.own = None
    /\ Goto(p, "read") /\ Lock([own |-> p, old |-> FALSE])
(* The directory is gone, another process's owner file is in it, or the    *)
(* write fails by itself and leaves no pid, as on a full disk.             *)
InitFails(p) == pc[p] = "owner" /\ Goto(p, "dropOwner") /\ Only

(* Mutant: a lock without an owner file is taken at once. *)
AbandonedUnowned == dir # None /\ (dir.own # None => pc[dir.own] = "dead")
(* abandonedLock, and the waiter's timeout: the clock decides it, after at *)
(* most MaxWaits sleeps and earlier for a process that was held up.        *)
Abandoned == dir # None /\ IF dir.own # None THEN pc[dir.own] = "dead" ELSE dir.old
(* Mutant: the waiter's clock is never read, the wait is not bounded.      *)
JudgeForever(p) ==
    /\ pc[p] = "judge" /\ Only
    /\ IF Abandoned THEN Goto(p, "takeOwner") ELSE Goto(p, "mkdir")
Judge(p) ==
    /\ pc[p] = "judge" /\ Only
    /\ \/ dir = None /\ Goto(p, "mkdir")
       \/ Abandoned /\ Goto(p, "takeOwner")
       \/ dir # None /\ ~Abandoned /\ waits[p] < MaxWaits /\ Goto(p, "sleep")
       \/ dir # None /\ ~Abandoned /\ Goto(p, "failed")
Sleep(p) ==
    /\ pc[p] = "sleep" /\ Goto(p, "mkdir") /\ waits' = [waits EXCEPT ![p] = @ + 1]
    /\ UNCHANGED <<dir, store, copy, crashes, pauses, overtaken>>

---------------------------------------------------------------------------
(* rmSync of the directory by its path, recursive and forced: the file in  *)
(* it, then the directory with whatever has been put into it meanwhile.    *)

Unlinked == IF dir = None THEN None ELSE [own |-> None, old |-> FALSE]
RmOwner(p, from, to) == pc[p] = from /\ Goto(p, to) /\ Lock(Unlinked)
RmDir(p, from, to) == pc[p] = from /\ Goto(p, to) /\ Lock(None)

TakeOver(p) == RmOwner(p, "takeOwner", "takeDir") \/ RmDir(p, "takeDir", "mkdir")
Drop(p) == RmOwner(p, "dropOwner", "dropDir") \/ RmDir(p, "dropDir", "failed")
Release(p) ==
    \/ RmOwner(p, "release", "releaseDir")
    \/ RmDir(p, "releaseDir", IF p \in copy[p] THEN "done" ELSE "failed")

---------------------------------------------------------------------------
(* withAtomicStateLock: the operation, here the read-modify-write all its  *)
(* users make; it may throw in between.                                    *)

Read(p) ==
    /\ pc[p] = "read" /\ Goto(p, "write") /\ copy' = [copy EXCEPT ![p] = store]
    /\ UNCHANGED <<dir, store, waits, crashes, pauses, overtaken>>
Write(p) ==
    /\ pc[p] = "write" /\ Goto(p, "release")
    /\ store' = copy[p] \cup {p} /\ copy' = [copy EXCEPT ![p] = @ \cup {p}]
    /\ UNCHANGED <<dir, waits, crashes, pauses, overtaken>>
(* Mutant: the lock is not released in a finally block.                    *)
ThrowsKept(p) == pc[p] \in {"read", "write"} /\ Goto(p, "failed") /\ Only
Throws(p) == pc[p] \in {"read", "write"} /\ Goto(p, "release") /\ Only

Crash(p) ==
    /\ pc[p] \notin {"done", "failed", "dead"} /\ crashes < MaxCrashes
    /\ Goto(p, "dead") /\ crashes' = crashes + 1
    /\ UNCHANGED <<dir, store, copy, waits, pauses, overtaken>>
Age ==
    /\ dir # None /\ dir.own = None /\ ~dir.old /\ pauses < MaxPauses
    /\ dir' = [dir EXCEPT !.old = TRUE] /\ pauses' = pauses + 1 /\ overtaken' = TRUE
    /\ UNCHANGED <<store, copy, pc, waits, crashes>>

---------------------------------------------------------------------------
Step(p) ==
    \/ Mkdir(p) \/ Exists(p) \/ WriteOwner(p) \/ InitFails(p) \/ Judge(p) \/ Sleep(p)
    \/ TakeOver(p) \/ Drop(p) \/ Release(p) \/ Read(p) \/ Write(p) \/ Throws(p)
Next == Age \/ \E p \in Procs : Step(p) \/ Crash(p)
Fairness == \A p \in Procs : WF_vars(Step(p))
Spec == Init /\ [][Next]_vars /\ Fairness

---------------------------------------------------------------------------
Working == {"mkdir", "owner", "judge", "sleep", "takeOwner", "takeDir", "dropOwner", "dropDir",
            "read", "write", "release", "releaseDir"}
Stopped == {"done", "failed", "dead"}

(* Every variable stays within its type.                                   *)
TypeOK ==
    /\ dir \in {None} \cup [own : Procs \cup {None}, old : BOOLEAN]
    /\ store \subseteq Procs /\ copy \in [Procs -> SUBSET Procs]
    /\ pc \in [Procs -> Working \cup Stopped] /\ waits \in [Procs -> 0..MaxWaits]
    /\ crashes \in 0..MaxCrashes /\ pauses \in 0..MaxPauses /\ overtaken \in BOOLEAN

(* The lock makes the users' read-modify-write one atomic change: no       *)
(* process overwrites a change it has not read, whatever the interleaving, *)
(* the timeouts, the errors and the deaths, until a lock is overtaken by a *)
(* removal that was decided on before the lock was made.                   *)
Atomic == INSTANCE AtomicUpdates WITH returned <- {p \in Procs : pc[p] = "done"}
Implements == Atomic!Init /\ [][~overtaken' => Atomic!Next \/ UNCHANGED Atomic!vars]_vars

(* Every call returns: with the change, or with an error, at the latest    *)
(* when its wait is over.                                                  *)
EveryCallReturns == \A p \in Procs : <>(pc[p] \in Stopped)

(* When every process has returned and none has died, no lock directory is *)
(* left to block the next call: not by an error, a timeout or a takeover.  *)
NothingLeftBehind ==
    (\A p \in Procs : pc[p] \in {"done", "failed"}) => dir = None
============================================================================
