-------------------------------- MODULE FileLock --------------------------------
(***************************************************************************)
(* `withFileLock` of src/src/claude/atomic.ts around one read-modify-write  *)
(* of a session record or of control.json (src/src/claude/state.ts), and    *)
(* the orphan sweep of src/src/retention/prune.ts that removes old locks.   *)
(*                                                                          *)
(* Every look at or change of the lock file happens in a callback of        *)
(* withLockMutation, used here through its abstract specification           *)
(* GuardMutex; the file system calls inside a callback are separate steps,  *)
(* and a process may die between any two.  The lock is a lease: its age is  *)
(* the age of the file, and a lock older than StaleMs may be taken over.  A  *)
(* caller that cannot get the lock within TimeoutMs runs unlocked.          *)
(*                                                                          *)
(* Time is the ages themselves, so no clock grows without bound: ages stop   *)
(* one tick past the last value the code compares them with.                *)
(***************************************************************************)
EXTENDS Naturals

CONSTANTS
    Proc,           \* processes
    StaleMs,        \* a lock older than this is an expired lease
    TimeoutMs,      \* how long acquire and release wait
    OrphanMs,       \* prune removes a lock older than this
    MaxAttempts,    \* immediate retries after reclaiming (1000 in the code)
    FsFaults        \* whether a file system call may fail for no reason of ours

NoFile == "none"    \* no lock file
Blank == "blank"    \* created, its token not written
Orphan == "orphan"  \* holds a token that no call in progress knows

ASSUME LockAssumption ==
    /\ StaleMs \in Nat /\ TimeoutMs \in Nat /\ OrphanMs \in Nat /\ MaxAttempts \in Nat
    /\ StaleMs < OrphanMs
    /\ FsFaults \in BOOLEAN
    /\ Proc \cap {NoFile, Blank, Orphan} = {}

VARIABLES
    guard,      \* processes inside a withLockMutation callback of this lock
    wedged,     \* a process died in the guard and nobody has recovered it
    lock,       \* the lock file: NoFile, Blank, Orphan, or whose token it holds
    lockAge,    \* time since the file was last written
    pc,         \* pc[p]: the next step of p
    locked,     \* processes whose acquire returned a token
    held,       \* held[p]: time since p wrote its token
    waited,     \* waited[p]: time since p's acquire or release started, while one runs
    attempts,   \* attempts[p]: immediate retries of this acquire
    overtaken   \* overtaken[p]: kinds of write to the target since p read it

timers == <<held, waited, attempts>>
vars == <<guard, wedged, lock, lockAge, pc, locked, timers, overtaken>>

Guard == INSTANCE GuardMutex WITH inside <- guard

InGuard == {"open", "token", "stat", "unlinkStale", "relRead", "relUnlink",
            "sweepStat", "sweepUnlink"}
InFn == {"read", "update"}
Steps == InGuard \cup InFn \cup
         {"idle", "try", "refused", "asleep", "relTry", "relRefused", "relAsleep", "sweepTry"}

Init ==
    /\ guard = {}
    /\ wedged = FALSE
    /\ lock = NoFile
    /\ lockAge = 0
    /\ pc = [p \in Proc |-> "idle"]
    /\ locked = {}
    /\ held = [p \in Proc |-> 0]
    /\ waited = [p \in Proc |-> 0]
    /\ attempts = [p \in Proc |-> 0]
    /\ overtaken = [p \in Proc |-> {}]

At(p, step) == pc[p] = step
Goto(p, step) == pc' = [pc EXCEPT ![p] = step]
Reset(f, p) == [f EXCEPT ![p] = 0]

-------------------------------------------------------------------------------
(* withLockMutation runs the callback (a dead owner is recovered on the way) *)
(* or returns undefined because the guard is held, be it by a dead owner     *)
(* whose process id is in use again.                                         *)
EnterGuard(p, body) ==
    /\ Guard!Enter(p)
    /\ wedged' = FALSE
    /\ Goto(p, body)

RefusedByGuard(p, next) ==
    /\ guard # {} \/ wedged
    /\ UNCHANGED <<guard, wedged>>
    /\ Goto(p, next)

LeaveGuard(p, next) ==
    /\ Guard!Leave(p)
    /\ UNCHANGED wedged
    /\ Goto(p, next)

StayInGuard(p, next) ==
    /\ UNCHANGED <<guard, wedged>>
    /\ Goto(p, next)

-------------------------------------------------------------------------------
(* acquire returned, with a token or without: what it counted is gone.       *)
AcquireEnds(p) ==
    /\ waited' = Reset(waited, p)
    /\ attempts' = Reset(attempts, p)

(* acquire: a new token and a new start time. *)
Acquire(p) ==
    /\ At(p, "idle")
    /\ Goto(p, "try")
    /\ UNCHANGED <<guard, wedged, lock, lockAge, locked, timers, overtaken>>

TryLock(p) ==
    /\ At(p, "try")
    /\ EnterGuard(p, "open") \/ RefusedByGuard(p, "refused")
    /\ UNCHANGED <<lock, lockAge, locked, timers, overtaken>>

(* openSync(lockPath, "wx"): creates the file, or finds one (EEXIST), or     *)
(* fails otherwise, and then the callback of withFileLock runs unlocked.     *)
OpenLock(p) ==
    /\ At(p, "open")
    /\ \/ /\ lock = NoFile
          /\ lock' = Blank
          /\ lockAge' = 0
          /\ StayInGuard(p, "token")
          /\ UNCHANGED <<waited, attempts>>
       \/ /\ lock # NoFile
          /\ StayInGuard(p, "stat")
          /\ UNCHANGED <<lock, lockAge, waited, attempts>>
       \/ /\ FsFaults
          /\ LeaveGuard(p, "read")
          /\ AcquireEnds(p)
          /\ UNCHANGED <<lock, lockAge>>
    /\ UNCHANGED <<locked, held, overtaken>>

(* writeSync(fd, token); when that fails the file is unlinked if possible.   *)
WriteToken(p) ==
    /\ At(p, "token")
    /\ LeaveGuard(p, "read")
    /\ \/ lock' = p /\ lockAge' = 0 /\ locked' = locked \cup {p} /\ held' = Reset(held, p)
       \/ FsFaults /\ lock' \in {NoFile, lock} /\ UNCHANGED <<lockAge, locked, held>>
    /\ AcquireEnds(p)
    /\ UNCHANGED overtaken

(* Mutated StatLock: a lease ends one tick early, or never. *)
StatLockOneEarly(p) ==
    /\ At(p, "stat")
    /\ \/ lockAge < StaleMs /\ LeaveGuard(p, "refused")
       \/ lockAge >= StaleMs /\ StayInGuard(p, "unlinkStale")
    /\ UNCHANGED <<lock, lockAge, locked, timers, overtaken>>

StatLockNeverStale(p) ==
    /\ At(p, "stat")
    /\ LeaveGuard(p, "refused")
    /\ UNCHANGED <<lock, lockAge, locked, timers, overtaken>>

(* reclaimStale: fresh while the age does not exceed StaleMs. *)
StatLock(p) ==
    /\ At(p, "stat")
    /\ \/ lockAge <= StaleMs /\ LeaveGuard(p, "refused")
       \/ lockAge > StaleMs /\ StayInGuard(p, "unlinkStale")
    /\ UNCHANGED <<lock, lockAge, locked, timers, overtaken>>

(* The name is free again: retry at once, at most MaxAttempts times.  A file *)
(* that cannot be unlinked counts as fresh.                                  *)
UnlinkStale(p) ==
    /\ At(p, "unlinkStale")
    /\ \/ /\ attempts[p] < MaxAttempts
          /\ lock' = NoFile
          /\ attempts' = [attempts EXCEPT ![p] = @ + 1]
          /\ LeaveGuard(p, "try")
       \/ /\ attempts[p] = MaxAttempts
          /\ lock' = NoFile
          /\ UNCHANGED attempts
          /\ LeaveGuard(p, "refused")
       \/ /\ FsFaults
          /\ LeaveGuard(p, "refused")
          /\ UNCHANGED <<lock, attempts>>
    /\ UNCHANGED <<lockAge, locked, held, waited, overtaken>>

(* Mutated WaitOrDegrade: the timeout is not looked at. *)
WaitOrDegradeWaits(p) ==
    /\ At(p, "refused")
    /\ Goto(p, "asleep")
    /\ UNCHANGED <<guard, wedged, lock, lockAge, locked, timers, overtaken>>

(* Past the timeout fn runs unlocked, else acquire sleeps for one poll.      *)
WaitOrDegrade(p) ==
    /\ At(p, "refused")
    /\ \/ waited[p] >= TimeoutMs /\ Goto(p, "read") /\ AcquireEnds(p)
       \/ waited[p] < TimeoutMs /\ Goto(p, "asleep") /\ UNCHANGED <<waited, attempts>>
    /\ UNCHANGED <<guard, wedged, lock, lockAge, locked, held, overtaken>>

-------------------------------------------------------------------------------
(* fn: the target is read, ... *)
ReadTarget(p) ==
    /\ At(p, "read")
    /\ Goto(p, "update")
    /\ overtaken' = [overtaken EXCEPT ![p] = {}]
    /\ UNCHANGED <<guard, wedged, lock, lockAge, locked, timers>>

InLease(p) == p \in locked /\ held[p] <= StaleMs

(* ... merged, and replaced by rename (writeFileAtomic); or fn throws or has *)
(* nothing to write.  `finally` releases when there is a token.              *)
EndFn(p) == Goto(p, IF p \in locked THEN "relTry" ELSE "idle")

WriteTarget(p) ==
    /\ At(p, "update")
    /\ EndFn(p)
    /\ overtaken' = [q \in Proc |->
           IF q # p /\ At(q, "update")
           THEN overtaken[q] \cup {IF InLease(p) THEN "lease" ELSE "open"}
           ELSE IF q = p THEN {} ELSE overtaken[q]]
    /\ UNCHANGED <<guard, wedged, lock, lockAge, locked, timers>>

SkipWrite(p) ==
    /\ At(p, "update")
    /\ EndFn(p)
    /\ overtaken' = [overtaken EXCEPT ![p] = {}]
    /\ UNCHANGED <<guard, wedged, lock, lockAge, locked, timers>>

-------------------------------------------------------------------------------
(* The token is forgotten; a file that still holds it has no owner any more. *)
Forget(p) ==
    /\ locked' = locked \ {p}
    /\ held' = Reset(held, p)
    /\ waited' = Reset(waited, p)

Abandon(p) ==
    /\ Forget(p)
    /\ lock' = IF lock = p THEN Orphan ELSE lock

TryRelease(p) ==
    /\ At(p, "relTry")
    /\ \/ EnterGuard(p, "relRead") /\ UNCHANGED <<lock, locked, held, waited>>
       \/ RefusedByGuard(p, "relRefused") /\ UNCHANGED <<lock, locked, held, waited>>
       \/ FsFaults /\ Abandon(p) /\ Goto(p, "idle") /\ UNCHANGED <<guard, wedged>>
    /\ UNCHANGED <<lockAge, attempts, overtaken>>

(* Mutated ReadToken: any lock file is taken for the caller's own. *)
ReadTokenAnyOwner(p) ==
    /\ At(p, "relRead")
    /\ \/ lock # NoFile /\ StayInGuard(p, "relUnlink") /\ UNCHANGED <<locked, held, waited>>
       \/ lock = NoFile /\ LeaveGuard(p, "idle") /\ Forget(p)
    /\ UNCHANGED <<lock, lockAge, attempts, overtaken>>

(* readFileSync(lockPath) === token *)
ReadToken(p) ==
    /\ At(p, "relRead")
    /\ \/ lock = p /\ StayInGuard(p, "relUnlink") /\ UNCHANGED <<locked, held, waited>>
       \/ lock # p /\ LeaveGuard(p, "idle") /\ Forget(p)
    /\ UNCHANGED <<lock, lockAge, attempts, overtaken>>

(* A failing unlink is ignored and leaves the file to its age. *)
UnlinkOwn(p) ==
    /\ At(p, "relUnlink")
    /\ lock' = NoFile \/ (FsFaults /\ lock' = Orphan)
    /\ LeaveGuard(p, "idle")
    /\ Forget(p)
    /\ UNCHANGED <<lockAge, attempts, overtaken>>

WaitOrAbandon(p) ==
    /\ At(p, "relRefused")
    /\ \/ waited[p] >= TimeoutMs /\ Abandon(p) /\ Goto(p, "idle")
       \/ waited[p] < TimeoutMs /\ Goto(p, "relAsleep") /\ UNCHANGED <<lock, locked, held, waited>>
    /\ UNCHANGED <<guard, wedged, lockAge, attempts, overtaken>>

-------------------------------------------------------------------------------
(* sweepOrphans: an old lock file is looked at again under the guard.        *)
Sweep(p) ==
    /\ At(p, "idle")
    /\ lock # NoFile /\ lockAge > OrphanMs
    /\ Goto(p, "sweepTry")
    /\ UNCHANGED <<guard, wedged, lock, lockAge, locked, timers, overtaken>>

SweepTry(p) ==
    /\ At(p, "sweepTry")
    /\ EnterGuard(p, "sweepStat") \/ RefusedByGuard(p, "idle")
    /\ UNCHANGED <<lock, lockAge, locked, timers, overtaken>>

SweepStat(p) ==
    /\ At(p, "sweepStat")
    /\ \/ lock # NoFile /\ lockAge > OrphanMs /\ StayInGuard(p, "sweepUnlink")
       \/ (lock = NoFile \/ lockAge <= OrphanMs) /\ LeaveGuard(p, "idle")
    /\ UNCHANGED <<lock, lockAge, locked, timers, overtaken>>

SweepUnlink(p) ==
    /\ At(p, "sweepUnlink")
    /\ lock' = NoFile
    /\ LeaveGuard(p, "idle")
    /\ UNCHANGED <<lockAge, locked, timers, overtaken>>

-------------------------------------------------------------------------------
(* The process dies; another one may start under its name at any time.       *)
Crash(p) ==
    /\ ~At(p, "idle")
    /\ Goto(p, "idle")
    /\ Abandon(p)
    /\ guard' = guard \ {p}
    /\ wedged' = (wedged \/ p \in guard)
    /\ attempts' = Reset(attempts, p)
    /\ overtaken' = [overtaken EXCEPT ![p] = {}]
    /\ UNCHANGED lockAge

(* The steps of acquire and release. *)
Waiting == {"try", "open", "token", "stat", "unlinkStale", "refused", "asleep",
            "relTry", "relRead", "relUnlink", "relRefused", "relAsleep"}

Older(age, last) == IF age > last THEN age ELSE age + 1

(* One poll interval passes for everybody; sleepers wake.                    *)
Tick ==
    /\ lockAge' = IF lock = NoFile THEN 0 ELSE Older(lockAge, OrphanMs)
    /\ held' = [p \in Proc |-> IF p \in locked THEN Older(held[p], StaleMs) ELSE 0]
    /\ waited' = [p \in Proc |->
           IF pc[p] \in Waiting /\ waited[p] < TimeoutMs THEN waited[p] + 1 ELSE waited[p]]
    /\ pc' = [p \in Proc |-> CASE pc[p] = "asleep" -> "try"
                               [] pc[p] = "relAsleep" -> "relTry"
                               [] OTHER -> pc[p]]
    /\ UNCHANGED <<guard, wedged, lock, locked, attempts, overtaken>>

CallStep(p) ==
    \/ TryLock(p) \/ OpenLock(p) \/ WriteToken(p) \/ StatLock(p) \/ UnlinkStale(p)
    \/ WaitOrDegrade(p) \/ ReadTarget(p) \/ WriteTarget(p) \/ SkipWrite(p)
    \/ TryRelease(p) \/ ReadToken(p) \/ UnlinkOwn(p) \/ WaitOrAbandon(p)
    \/ SweepTry(p) \/ SweepStat(p) \/ SweepUnlink(p)

Next ==
    \/ \E p \in Proc : Acquire(p) \/ Sweep(p) \/ CallStep(p) \/ Crash(p)
    \/ Tick

Spec == Init /\ [][Next]_vars

(* A running process gets to its next step (sleeps end, callbacks return),   *)
(* and time passes.                                                          *)
Fairness == WF_vars(Tick) /\ \A p \in Proc : WF_vars(CallStep(p))

-------------------------------------------------------------------------------
TypeOK ==
    /\ guard \subseteq Proc
    /\ wedged \in BOOLEAN
    /\ lock \in Proc \cup {NoFile, Blank, Orphan}
    /\ lockAge \in 0..(OrphanMs + 1)
    /\ pc \in [Proc -> Steps]
    /\ locked \subseteq Proc
    /\ held \in [Proc -> 0..(StaleMs + 1)]
    /\ waited \in [Proc -> 0..TimeoutMs]
    /\ attempts \in [Proc -> 0..MaxAttempts]
    /\ overtaken \in [Proc -> SUBSET {"lease", "open"}]

(* The lease: from the moment acquire returned a token until the call itself  *)
(* gives it up, or StaleMs passed, the lock file holds that token, whatever   *)
(* other callers, sweeps and crashes do.                                      *)
LeaseKeepsLock == \A p \in Proc : InLease(p) => lock = p

(* "Overlapping processes take turns on one read-modify-write": a caller       *)
(* within its lease writes from a snapshot that no other caller within its     *)
(* lease has overwritten.                                                      *)
TakeTurns == \A p \in Proc : (At(p, "update") /\ InLease(p)) => "lease" \notin overtaken[p]

(* "Two toggles never undo each other" (the comment on writeControl), taken    *)
(* literally: no write replaces a toggle its snapshot does not have.           *)
TogglesNeverUndone == \A p \in Proc : At(p, "update") => overtaken[p] = {}

(* "A stale or unobtainable lock never blocks": every call ends, whatever the  *)
(* other processes hold, abandon or crash on.                                  *)
NeverBlocks == \A p \in Proc : ~At(p, "idle") ~> At(p, "idle")

(* A lock left by a dead process, or by a release that gave up, is reclaimed   *)
(* once it is stale, provided somebody keeps asking for it and crashes end.    *)
CrashesEnd == <>[][\A p \in Proc : ~Crash(p)]_vars
OrphanReclaimed ==
    \A p \in Proc :
        (CrashesEnd /\ []<><<StatLock(p)>>_vars) => []<>(lock \notin {Orphan, Blank})
===============================================================================
