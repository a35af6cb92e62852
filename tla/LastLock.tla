------------------------------- MODULE LastLock -------------------------------
(***************************************************************************)
(* withLastLock (src/src/claude/state.ts): the strict lock of last.json.  It  *)
(* has no lease and no unlocked way in; its file names the writer's process,  *)
(* and holds until that process is dead or has marked it complete.  Callers   *)
(* look at the file under the rename guard (GuardMutex), and so does the      *)
(* orphan sweep of prune.  The marker is written outside the guard.          *)
(***************************************************************************)
EXTENDS Naturals

CONSTANTS
    Proc,            \* process ids
    MaxAttempts,     \* LAST_LOCK_ATTEMPTS
    Faults           \* what may fail: "guard" and "lock" system calls, the "marker"

VARIABLES
    guard,           \* who is inside withLockMutation
    wedged,          \* the guard still names a process that died inside
    alive,           \* process ids in use, by this program or another one
    lock,            \* the lock file at its path
    pc, attempts

vars == <<guard, wedged, alive, lock, pc, attempts>>

Nobody == "nobody"
NoFile == [text |-> "missing", by |-> Nobody, age |-> "fresh"]

(* The file's text: "empty", "complete" (the marker over it) or a process id. *)
(* `by` is the live process that created it.                                 *)
LockFiles == [text : {"missing", "empty", "complete"} \cup Proc, by : Proc \cup {Nobody},
              age : {"fresh", "stale", "orphan"}]

Guard == INSTANCE GuardMutex WITH inside <- guard

Init ==
    /\ guard = {} /\ wedged = FALSE
    /\ alive = Proc
    /\ lock = NoFile
    /\ pc = [p \in Proc |-> "idle"]
    /\ attempts = [p \in Proc |-> 0]

At(p, step) == pc[p] = step
Goto(p, step) == pc' = [pc EXCEPT ![p] = step]

EnterGuard(p, step) == Guard!Enter(p) /\ wedged' = FALSE /\ Goto(p, step)
Refused(p, step) == (guard # {} \/ wedged) /\ Goto(p, step) /\ UNCHANGED <<guard, wedged>>
LeaveGuard(p, step) == Guard!Leave(p) /\ Goto(p, step) /\ UNCHANGED wedged
StayInGuard(p, step) == Goto(p, step) /\ UNCHANGED <<guard, wedged>>

\* Mutated Held: an old lock is nobody's.
HeldWhileFresh ==
    \/ lock.text \in alive /\ lock.age # "orphan"
    \/ lock.text = "empty" /\ lock.age = "fresh"

\* lastLockHeld: a live process, or an empty file younger than LAST_LOCK_STALE_MS.
Held ==
    \/ lock.text \in alive
    \/ lock.text = "empty" /\ lock.age = "fresh"

-------------------------------------------------------------------------------
Call(p) ==
    /\ At(p, "idle") /\ p \in alive
    /\ Goto(p, "try")
    /\ attempts' = [attempts EXCEPT ![p] = 1]
    /\ UNCHANGED <<guard, wedged, alive, lock>>

(* withLockMutation: the callback runs, is refused, or everything throws.     *)
Try(p) ==
    /\ At(p, "try")
    /\ \/ EnterGuard(p, "look")
       \/ Refused(p, "busy")
       \/ "guard" \in Faults /\ Goto(p, "idle") /\ UNCHANGED <<guard, wedged>>
    /\ UNCHANGED <<alive, lock, attempts>>

Look(p) ==
    /\ At(p, "look")
    /\ IF Held THEN LeaveGuard(p, "busy") ELSE StayInGuard(p, "unlink")
    /\ UNCHANGED <<alive, lock, attempts>>

UnlinkLeftOver(p) ==
    /\ At(p, "unlink")
    /\ \/ lock' = NoFile /\ StayInGuard(p, "open")
       \/ "lock" \in Faults /\ LeaveGuard(p, "idle") /\ UNCHANGED lock
    /\ UNCHANGED <<alive, attempts>>

OpenLock(p) ==
    /\ At(p, "open")
    /\ \/ lock' = [text |-> "empty", by |-> p, age |-> "fresh"] /\ StayInGuard(p, "pid")
       \/ "lock" \in Faults /\ LeaveGuard(p, "idle") /\ UNCHANGED lock
    /\ UNCHANGED <<alive, attempts>>

(* The process id is written; if that fails the file is closed and unlinked.  *)
WritePid(p) ==
    /\ At(p, "pid")
    /\ \/ lock' = [lock EXCEPT !.text = p] /\ LeaveGuard(p, "body")
       \/ "lock" \in Faults /\ lock' \in {NoFile, lock} /\ LeaveGuard(p, "idle")
    /\ UNCHANGED <<alive, attempts>>

(* Atomics.wait, then another attempt, or false.                              *)
TryAgain(p) ==
    /\ At(p, "busy")
    /\ IF attempts[p] < MaxAttempts
       THEN Goto(p, "try") /\ attempts' = [attempts EXCEPT ![p] = @ + 1]
       ELSE Goto(p, "idle") /\ UNCHANGED attempts
    /\ UNCHANGED <<guard, wedged, alive, lock>>

(* body returned or threw.                                                   *)
EndBody(p) ==
    /\ At(p, "body")
    /\ Goto(p, "mark")
    /\ UNCHANGED <<guard, wedged, alive, lock, attempts>>

\* Mutated Mark: the guarded removal is all there is.
MarkNothing(p) ==
    /\ At(p, "mark")
    /\ Goto(p, "release")
    /\ UNCHANGED <<guard, wedged, alive, lock, attempts>>

(* The marker goes to the inode this process opened, wherever its name is now. *)
Mark(p) ==
    /\ At(p, "mark")
    /\ \/ lock' = IF lock.by = p THEN [lock EXCEPT !.text = "complete"] ELSE lock
       \/ "marker" \in Faults /\ UNCHANGED lock
    /\ Goto(p, "release")
    /\ UNCHANGED <<guard, wedged, alive, attempts>>

(* The removal is tried once, under the guard.                                *)
Release(p) ==
    /\ At(p, "release")
    /\ \/ EnterGuard(p, "compare")
       \/ Refused(p, "idle")
       \/ "guard" \in Faults /\ Goto(p, "idle") /\ UNCHANGED <<guard, wedged>>
    /\ UNCHANGED <<alive, lock, attempts>>

(* Same device and inode: nobody else's file is removed.                      *)
Compare(p) ==
    /\ At(p, "compare")
    /\ \/ lock.by = p /\ StayInGuard(p, "remove")
       \/ lock.by # p /\ LeaveGuard(p, "idle")
    /\ UNCHANGED <<alive, lock, attempts>>

Remove(p) ==
    /\ At(p, "remove")
    /\ lock' = NoFile \/ ("lock" \in Faults /\ UNCHANGED lock)
    /\ LeaveGuard(p, "idle")
    /\ UNCHANGED <<alive, attempts>>

-------------------------------------------------------------------------------
(* sweepOrphans: an hour-old lock file, unless it is held.                    *)
Sweep(p) ==
    /\ At(p, "idle") /\ p \in alive
    /\ lock.age = "orphan"
    /\ EnterGuard(p, "sweep")
    /\ UNCHANGED <<alive, lock, attempts>>

SweepLook(p) ==
    /\ At(p, "sweep")
    /\ IF lock.age = "orphan" /\ ~Held THEN StayInGuard(p, "sweepUnlink")
       ELSE LeaveGuard(p, "idle")
    /\ UNCHANGED <<alive, lock, attempts>>

SweepUnlink(p) ==
    /\ At(p, "sweepUnlink")
    /\ lock' = NoFile
    /\ LeaveGuard(p, "idle")
    /\ UNCHANGED <<alive, attempts>>

-------------------------------------------------------------------------------
Crash(p) ==
    /\ p \in alive
    /\ alive' = alive \ {p}
    /\ guard' = guard \ {p}
    /\ wedged' = (wedged \/ p \in guard)
    /\ lock' = [lock EXCEPT !.by = IF @ = p THEN Nobody ELSE @]
    /\ Goto(p, "idle")
    /\ UNCHANGED attempts

(* The id is used again: by a new process of this program, or by another one. *)
Reuse(p) ==
    /\ p \notin alive
    /\ alive' = alive \cup {p}
    /\ UNCHANGED <<guard, wedged, lock, pc, attempts>>

(* Time passes for the lock file.                                            *)
Age ==
    /\ lock.text # "missing" /\ lock.age # "orphan"
    /\ lock' = [lock EXCEPT !.age = IF @ = "fresh" THEN "stale" ELSE "orphan"]
    /\ UNCHANGED <<guard, wedged, alive, pc, attempts>>

Next ==
    \/ Age
    \/ \E p \in Proc :
          \/ Call(p) \/ Try(p) \/ Look(p) \/ UnlinkLeftOver(p) \/ OpenLock(p) \/ WritePid(p)
          \/ TryAgain(p) \/ EndBody(p) \/ Mark(p) \/ Release(p) \/ Compare(p) \/ Remove(p)
          \/ Sweep(p) \/ SweepLook(p) \/ SweepUnlink(p) \/ Crash(p) \/ Reuse(p)

Spec == Init /\ [][Next]_vars
-------------------------------------------------------------------------------
TypeOK ==
    /\ guard \subseteq alive /\ wedged \in BOOLEAN /\ alive \subseteq Proc
    /\ lock \in LockFiles
    /\ pc \in [Proc -> {"idle", "try", "look", "unlink", "open", "pid", "busy", "body", "mark",
                        "release", "compare", "remove", "sweep", "sweepUnlink"}]
    /\ attempts \in [Proc -> 0..MaxAttempts]

(* "Exclusive lock for last.json": the bodies of its callers run one at a      *)
(* time, whatever crashes, process ids used again and sweeps do: the strict   *)
(* lock keeps the same promise as the guard it is built on.                   *)
Bodies == INSTANCE GuardMutex WITH inside <- {p \in Proc : At(p, "body")}
BodiesTakeTurns == Bodies!Spec

(* "A live host PID must not keep a finished writer held": where the marker    *)
(* can be written, a lock file names a live writer only until its body is     *)
(* over, even when the guarded removal fails or meets a busy guard.           *)
FinishedNotHeld ==
    \A p \in Proc : (lock.by = p /\ lock.text = p) =>
                         pc[p] \in {"body", "mark"} \/ "marker" \in Faults
===============================================================================
