---------------------------- MODULE FileLock_proofs ----------------------------
(***************************************************************************)
(* Proofs about FileLock, for any processes and any lease, timeout and       *)
(* sweep bounds with StaleMs < OrphanMs.                                     *)
(*                                                                          *)
(* LeaseKeepsLock is not inductive: it does not know why a process about to  *)
(* unlink the lock file may do so.  The strengthening adds what the guard    *)
(* gives a callback (what it saw of the lock still holds at its next call)   *)
(* and that the age of a file and the time its owner counts are the same.    *)
(***************************************************************************)
EXTENDS FileLock, TLAPS

(* The guard's occupants are the processes in a callback, one at a time.      *)
GuardOccupied ==
    /\ \A p \in Proc : p \in guard <=> pc[p] \in InGuard
    /\ \A p, q \in guard : p = q

(* A token is held from the end of acquire to the end of release.             *)
HoldingSteps == InFn \cup {"relTry", "relRefused", "relAsleep", "relRead", "relUnlink"}
LockedInCall == \A p \in locked : pc[p] \in HoldingSteps

(* What a callback saw of the lock file still holds at its next step.         *)
SightHolds ==
    \A p \in Proc :
        /\ pc[p] = "token" => lock = Blank
        /\ pc[p] = "stat" => lock # NoFile
        /\ pc[p] = "unlinkStale" => lock # NoFile /\ lockAge > StaleMs
        /\ pc[p] = "sweepUnlink" => lock # NoFile /\ lockAge > OrphanMs
        /\ pc[p] = "relUnlink" => lock = p

(* Inside its lease the owner's clock and the file's age agree.               *)
AgesAgree == \A p \in Proc : InLease(p) => lockAge = held[p]

IInv ==
    /\ TypeOK
    /\ GuardOccupied
    /\ LockedInCall
    /\ SightHolds
    /\ AgesAgree
    /\ LeaseKeepsLock
    /\ TakeTurns

-------------------------------------------------------------------------------
(* Every variable keeps its type. *)
LEMMA TypeInductive == TypeOK /\ [Next]_vars => TypeOK'
<1> SUFFICES ASSUME TypeOK, [Next]_vars PROVE TypeOK'
  OBVIOUS
<1> USE LockAssumption DEF TypeOK, Steps, InGuard, InFn, At, Goto, Reset, timers,
                           Guard!Enter, Guard!Leave, NoFile, Blank, Orphan
<1>1. ASSUME NEW p \in Proc, Acquire(p) PROVE TypeOK'
  BY <1>1 DEF Acquire
<1>2. ASSUME NEW p \in Proc, TryLock(p) PROVE TypeOK'
  BY <1>2 DEF TryLock, EnterGuard, RefusedByGuard
<1>3. ASSUME NEW p \in Proc, OpenLock(p) PROVE TypeOK'
  BY <1>3 DEF OpenLock, StayInGuard, LeaveGuard, AcquireEnds
<1>4. ASSUME NEW p \in Proc, WriteToken(p) PROVE TypeOK'
  BY <1>4 DEF WriteToken, LeaveGuard, AcquireEnds
<1>5. ASSUME NEW p \in Proc, StatLock(p) PROVE TypeOK'
  BY <1>5 DEF StatLock, LeaveGuard, StayInGuard
<1>6. ASSUME NEW p \in Proc, UnlinkStale(p) PROVE TypeOK'
  BY <1>6 DEF UnlinkStale, LeaveGuard
<1>7. ASSUME NEW p \in Proc, WaitOrDegrade(p) PROVE TypeOK'
  BY <1>7 DEF WaitOrDegrade, AcquireEnds
<1>8. ASSUME NEW p \in Proc, ReadTarget(p) PROVE TypeOK'
  BY <1>8 DEF ReadTarget
<1>9. ASSUME NEW p \in Proc, WriteTarget(p) PROVE TypeOK'
  BY <1>9 DEF WriteTarget, EndFn, InLease
<1>10. ASSUME NEW p \in Proc, SkipWrite(p) PROVE TypeOK'
  BY <1>10 DEF SkipWrite, EndFn
<1>11. ASSUME NEW p \in Proc, TryRelease(p) PROVE TypeOK'
  <2>1. CASE EnterGuard(p, "relRead")
    BY <1>11, <2>1 DEF TryRelease, EnterGuard, RefusedByGuard, Abandon, Forget
  <2>2. CASE RefusedByGuard(p, "relRefused")
    BY <1>11, <2>2 DEF TryRelease, EnterGuard, RefusedByGuard, Abandon, Forget
  <2>3. CASE Abandon(p) /\ Goto(p, "idle") /\ UNCHANGED <<guard, wedged>>
    <3>1. UNCHANGED <<guard, wedged, lockAge, attempts, overtaken>>
      BY <1>11, <2>3 DEF TryRelease
    <3>2. locked' \subseteq Proc /\ lock' \in Proc \cup {NoFile, Blank, Orphan}
      BY <2>3 DEF Abandon, Forget
    <3>3. held' \in [Proc -> 0..(StaleMs + 1)] /\ waited' \in [Proc -> 0..TimeoutMs]
      BY <2>3 DEF Abandon, Forget
    <3>4. pc' \in [Proc -> Steps]
      BY <2>3
    <3> QED
      BY <3>1, <3>2, <3>3, <3>4
  <2> QED
    BY <1>11, <2>1, <2>2, <2>3 DEF TryRelease
<1>12. ASSUME NEW p \in Proc, ReadToken(p) PROVE TypeOK'
  BY <1>12 DEF ReadToken, StayInGuard, LeaveGuard, Forget
<1>13. ASSUME NEW p \in Proc, UnlinkOwn(p) PROVE TypeOK'
  BY <1>13 DEF UnlinkOwn, LeaveGuard, Forget
<1>14. ASSUME NEW p \in Proc, WaitOrAbandon(p) PROVE TypeOK'
  BY <1>14 DEF WaitOrAbandon, Abandon, Forget
<1>15. ASSUME NEW p \in Proc, Sweep(p) PROVE TypeOK'
  BY <1>15 DEF Sweep
<1>16. ASSUME NEW p \in Proc, SweepTry(p) PROVE TypeOK'
  BY <1>16 DEF SweepTry, EnterGuard, RefusedByGuard
<1>17. ASSUME NEW p \in Proc, SweepStat(p) PROVE TypeOK'
  BY <1>17 DEF SweepStat, StayInGuard, LeaveGuard
<1>18. ASSUME NEW p \in Proc, SweepUnlink(p) PROVE TypeOK'
  BY <1>18 DEF SweepUnlink, LeaveGuard
<1>19. ASSUME NEW p \in Proc, Crash(p) PROVE TypeOK'
  BY <1>19 DEF Crash, Abandon, Forget
<1>20. CASE Tick
  BY <1>20 DEF Tick, Older, Waiting
<1>21. CASE UNCHANGED vars
  BY <1>21 DEF vars
<1> QED
  BY <1>1, <1>2, <1>3, <1>4, <1>5, <1>6, <1>7, <1>8, <1>9, <1>10, <1>11, <1>12, <1>13, <1>14, <1>15, <1>16, <1>17, <1>18, <1>19, <1>20, <1>21 DEF Next, CallStep

(* The strengthening is inductive. *)
LEMMA IInvInductive == IInv /\ [Next]_vars => IInv'
<1> SUFFICES ASSUME IInv, [Next]_vars PROVE IInv'
  OBVIOUS
<1> TypeOK'
  BY TypeInductive DEF IInv
<1> USE LockAssumption DEF IInv, TypeOK, InGuard, InFn, At, Goto, Reset, timers, NoFile, Blank, Orphan,
      Guard!Enter, Guard!Leave, InLease, HoldingSteps, GuardOccupied, LockedInCall, SightHolds,
      AgesAgree, LeaseKeepsLock, TakeTurns
<1>1. ASSUME NEW p \in Proc, Acquire(p) PROVE IInv'
  <2>1. GuardOccupied'
    BY <1>1 DEF Acquire
  <2>2. LockedInCall'
    BY <1>1 DEF Acquire
  <2>3. SightHolds'
    BY <1>1 DEF Acquire
  <2>4. AgesAgree'
    BY <1>1 DEF Acquire
  <2>5. LeaseKeepsLock'
    BY <1>1 DEF Acquire
  <2>6. TakeTurns'
    BY <1>1 DEF Acquire
  <2> QED
    BY <2>1, <2>2, <2>3, <2>4, <2>5, <2>6
<1>2. ASSUME NEW p \in Proc, TryLock(p) PROVE IInv'
  <2>1. GuardOccupied'
    BY <1>2 DEF TryLock, EnterGuard, RefusedByGuard
  <2>2. LockedInCall'
    BY <1>2 DEF TryLock, EnterGuard, RefusedByGuard
  <2>3. SightHolds'
    BY <1>2 DEF TryLock, EnterGuard, RefusedByGuard
  <2>4. AgesAgree'
    BY <1>2 DEF TryLock, EnterGuard, RefusedByGuard
  <2>5. LeaseKeepsLock'
    BY <1>2 DEF TryLock, EnterGuard, RefusedByGuard
  <2>6. TakeTurns'
    BY <1>2 DEF TryLock, EnterGuard, RefusedByGuard
  <2> QED
    BY <2>1, <2>2, <2>3, <2>4, <2>5, <2>6
<1>3. ASSUME NEW p \in Proc, OpenLock(p) PROVE IInv'
  <2>1. GuardOccupied'
    BY <1>3 DEF OpenLock, StayInGuard, LeaveGuard, AcquireEnds
  <2>2. LockedInCall'
    BY <1>3 DEF OpenLock, StayInGuard, LeaveGuard, AcquireEnds
  <2>3. SightHolds'
    BY <1>3 DEF OpenLock, StayInGuard, LeaveGuard, AcquireEnds
  <2>4. AgesAgree'
    BY <1>3 DEF OpenLock, StayInGuard, LeaveGuard, AcquireEnds
  <2>5. LeaseKeepsLock'
    BY <1>3 DEF OpenLock, StayInGuard, LeaveGuard, AcquireEnds
  <2>6. TakeTurns'
    BY <1>3 DEF OpenLock, StayInGuard, LeaveGuard, AcquireEnds
  <2> QED
    BY <2>1, <2>2, <2>3, <2>4, <2>5, <2>6
<1>4. ASSUME NEW p \in Proc, WriteToken(p) PROVE IInv'
  <2>1. GuardOccupied'
    BY <1>4 DEF WriteToken, LeaveGuard, AcquireEnds
  <2>2. LockedInCall'
    BY <1>4 DEF WriteToken, LeaveGuard, AcquireEnds
  <2>3. SightHolds'
    BY <1>4 DEF WriteToken, LeaveGuard, AcquireEnds
  <2>4. AgesAgree'
    BY <1>4 DEF WriteToken, LeaveGuard, AcquireEnds
  <2>5. LeaseKeepsLock'
    BY <1>4 DEF WriteToken, LeaveGuard, AcquireEnds
  <2>6. TakeTurns'
    BY <1>4 DEF WriteToken, LeaveGuard, AcquireEnds
  <2> QED
    BY <2>1, <2>2, <2>3, <2>4, <2>5, <2>6
<1>5. ASSUME NEW p \in Proc, StatLock(p) PROVE IInv'
  <2>1. GuardOccupied'
    BY <1>5 DEF StatLock, LeaveGuard, StayInGuard
  <2>2. LockedInCall'
    BY <1>5 DEF StatLock, LeaveGuard, StayInGuard
  <2>3. SightHolds'
    BY <1>5 DEF StatLock, LeaveGuard, StayInGuard
  <2>4. AgesAgree'
    BY <1>5 DEF StatLock, LeaveGuard, StayInGuard
  <2>5. LeaseKeepsLock'
    BY <1>5 DEF StatLock, LeaveGuard, StayInGuard
  <2>6. TakeTurns'
    BY <1>5 DEF StatLock, LeaveGuard, StayInGuard
  <2> QED
    BY <2>1, <2>2, <2>3, <2>4, <2>5, <2>6
<1>6. ASSUME NEW p \in Proc, UnlinkStale(p) PROVE IInv'
  <2>1. GuardOccupied'
    BY <1>6 DEF UnlinkStale, LeaveGuard
  <2>2. LockedInCall'
    BY <1>6 DEF UnlinkStale, LeaveGuard
  <2>3. SightHolds'
    BY <1>6 DEF UnlinkStale, LeaveGuard
  <2>4. AgesAgree'
    BY <1>6 DEF UnlinkStale, LeaveGuard
  <2>5. LeaseKeepsLock'
    BY <1>6 DEF UnlinkStale, LeaveGuard
  <2>6. TakeTurns'
    BY <1>6 DEF UnlinkStale, LeaveGuard
  <2> QED
    BY <2>1, <2>2, <2>3, <2>4, <2>5, <2>6
<1>7. ASSUME NEW p \in Proc, WaitOrDegrade(p) PROVE IInv'
  <2>1. GuardOccupied'
    BY <1>7 DEF WaitOrDegrade, AcquireEnds
  <2>2. LockedInCall'
    BY <1>7 DEF WaitOrDegrade, AcquireEnds
  <2>3. SightHolds'
    BY <1>7 DEF WaitOrDegrade, AcquireEnds
  <2>4. AgesAgree'
    BY <1>7 DEF WaitOrDegrade, AcquireEnds
  <2>5. LeaseKeepsLock'
    BY <1>7 DEF WaitOrDegrade, AcquireEnds
  <2>6. TakeTurns'
    BY <1>7 DEF WaitOrDegrade, AcquireEnds
  <2> QED
    BY <2>1, <2>2, <2>3, <2>4, <2>5, <2>6
<1>8. ASSUME NEW p \in Proc, ReadTarget(p) PROVE IInv'
  <2>1. GuardOccupied'
    BY <1>8 DEF ReadTarget
  <2>2. LockedInCall'
    BY <1>8 DEF ReadTarget
  <2>3. SightHolds'
    BY <1>8 DEF ReadTarget
  <2>4. AgesAgree'
    BY <1>8 DEF ReadTarget
  <2>5. LeaseKeepsLock'
    BY <1>8 DEF ReadTarget
  <2>6. TakeTurns'
    BY <1>8 DEF ReadTarget
  <2> QED
    BY <2>1, <2>2, <2>3, <2>4, <2>5, <2>6
<1>9. ASSUME NEW p \in Proc, WriteTarget(p) PROVE IInv'
  <2>1. GuardOccupied'
    BY <1>9 DEF WriteTarget, EndFn
  <2>2. LockedInCall'
    BY <1>9 DEF WriteTarget, EndFn
  <2>3. SightHolds'
    BY <1>9 DEF WriteTarget, EndFn
  <2>4. AgesAgree'
    BY <1>9 DEF WriteTarget, EndFn
  <2>5. LeaseKeepsLock'
    BY <1>9 DEF WriteTarget, EndFn
  <2>6. TakeTurns'
    BY <1>9 DEF WriteTarget, EndFn
  <2> QED
    BY <2>1, <2>2, <2>3, <2>4, <2>5, <2>6
<1>10. ASSUME NEW p \in Proc, SkipWrite(p) PROVE IInv'
  <2>1. GuardOccupied'
    BY <1>10 DEF SkipWrite, EndFn
  <2>2. LockedInCall'
    BY <1>10 DEF SkipWrite, EndFn
  <2>3. SightHolds'
    BY <1>10 DEF SkipWrite, EndFn
  <2>4. AgesAgree'
    BY <1>10 DEF SkipWrite, EndFn
  <2>5. LeaseKeepsLock'
    BY <1>10 DEF SkipWrite, EndFn
  <2>6. TakeTurns'
    BY <1>10 DEF SkipWrite, EndFn
  <2> QED
    BY <2>1, <2>2, <2>3, <2>4, <2>5, <2>6
<1>11. ASSUME NEW p \in Proc, TryRelease(p) PROVE IInv'
  <2>1. GuardOccupied'
    BY <1>11 DEF TryRelease, EnterGuard, RefusedByGuard, Abandon, Forget
  <2>2. LockedInCall'
    BY <1>11 DEF TryRelease, EnterGuard, RefusedByGuard, Abandon, Forget
  <2>3. SightHolds'
    BY <1>11 DEF TryRelease, EnterGuard, RefusedByGuard, Abandon, Forget
  <2>4. AgesAgree'
    BY <1>11 DEF TryRelease, EnterGuard, RefusedByGuard, Abandon, Forget
  <2>5. LeaseKeepsLock'
    BY <1>11 DEF TryRelease, EnterGuard, RefusedByGuard, Abandon, Forget
  <2>6. TakeTurns'
    BY <1>11 DEF TryRelease, EnterGuard, RefusedByGuard, Abandon, Forget
  <2> QED
    BY <2>1, <2>2, <2>3, <2>4, <2>5, <2>6
<1>12. ASSUME NEW p \in Proc, ReadToken(p) PROVE IInv'
  <2>1. GuardOccupied'
    BY <1>12 DEF ReadToken, StayInGuard, LeaveGuard, Forget
  <2>2. LockedInCall'
    BY <1>12 DEF ReadToken, StayInGuard, LeaveGuard, Forget
  <2>3. SightHolds'
    BY <1>12 DEF ReadToken, StayInGuard, LeaveGuard, Forget
  <2>4. AgesAgree'
    BY <1>12 DEF ReadToken, StayInGuard, LeaveGuard, Forget
  <2>5. LeaseKeepsLock'
    BY <1>12 DEF ReadToken, StayInGuard, LeaveGuard, Forget
  <2>6. TakeTurns'
    BY <1>12 DEF ReadToken, StayInGuard, LeaveGuard, Forget
  <2> QED
    BY <2>1, <2>2, <2>3, <2>4, <2>5, <2>6
<1>13. ASSUME NEW p \in Proc, UnlinkOwn(p) PROVE IInv'
  <2>1. GuardOccupied'
    BY <1>13 DEF UnlinkOwn, LeaveGuard, Forget
  <2>2. LockedInCall'
    BY <1>13 DEF UnlinkOwn, LeaveGuard, Forget
  <2>3. SightHolds'
    BY <1>13 DEF UnlinkOwn, LeaveGuard, Forget
  <2>4. AgesAgree'
    BY <1>13 DEF UnlinkOwn, LeaveGuard, Forget
  <2>5. LeaseKeepsLock'
    BY <1>13 DEF UnlinkOwn, LeaveGuard, Forget
  <2>6. TakeTurns'
    BY <1>13 DEF UnlinkOwn, LeaveGuard, Forget
  <2> QED
    BY <2>1, <2>2, <2>3, <2>4, <2>5, <2>6
<1>14. ASSUME NEW p \in Proc, WaitOrAbandon(p) PROVE IInv'
  <2>1. GuardOccupied'
    BY <1>14 DEF WaitOrAbandon, Abandon, Forget
  <2>2. LockedInCall'
    BY <1>14 DEF WaitOrAbandon, Abandon, Forget
  <2>3. SightHolds'
    BY <1>14 DEF WaitOrAbandon, Abandon, Forget
  <2>4. AgesAgree'
    BY <1>14 DEF WaitOrAbandon, Abandon, Forget
  <2>5. LeaseKeepsLock'
    BY <1>14 DEF WaitOrAbandon, Abandon, Forget
  <2>6. TakeTurns'
    BY <1>14 DEF WaitOrAbandon, Abandon, Forget
  <2> QED
    BY <2>1, <2>2, <2>3, <2>4, <2>5, <2>6
<1>15. ASSUME NEW p \in Proc, Sweep(p) PROVE IInv'
  <2>1. GuardOccupied'
    BY <1>15 DEF Sweep
  <2>2. LockedInCall'
    BY <1>15 DEF Sweep
  <2>3. SightHolds'
    BY <1>15 DEF Sweep
  <2>4. AgesAgree'
    BY <1>15 DEF Sweep
  <2>5. LeaseKeepsLock'
    BY <1>15 DEF Sweep
  <2>6. TakeTurns'
    BY <1>15 DEF Sweep
  <2> QED
    BY <2>1, <2>2, <2>3, <2>4, <2>5, <2>6
<1>16. ASSUME NEW p \in Proc, SweepTry(p) PROVE IInv'
  <2>1. GuardOccupied'
    BY <1>16 DEF SweepTry, EnterGuard, RefusedByGuard
  <2>2. LockedInCall'
    BY <1>16 DEF SweepTry, EnterGuard, RefusedByGuard
  <2>3. SightHolds'
    BY <1>16 DEF SweepTry, EnterGuard, RefusedByGuard
  <2>4. AgesAgree'
    BY <1>16 DEF SweepTry, EnterGuard, RefusedByGuard
  <2>5. LeaseKeepsLock'
    BY <1>16 DEF SweepTry, EnterGuard, RefusedByGuard
  <2>6. TakeTurns'
    BY <1>16 DEF SweepTry, EnterGuard, RefusedByGuard
  <2> QED
    BY <2>1, <2>2, <2>3, <2>4, <2>5, <2>6
<1>17. ASSUME NEW p \in Proc, SweepStat(p) PROVE IInv'
  <2>1. GuardOccupied'
    BY <1>17 DEF SweepStat, StayInGuard, LeaveGuard
  <2>2. LockedInCall'
    BY <1>17 DEF SweepStat, StayInGuard, LeaveGuard
  <2>3. SightHolds'
    BY <1>17 DEF SweepStat, StayInGuard, LeaveGuard
  <2>4. AgesAgree'
    BY <1>17 DEF SweepStat, StayInGuard, LeaveGuard
  <2>5. LeaseKeepsLock'
    BY <1>17 DEF SweepStat, StayInGuard, LeaveGuard
  <2>6. TakeTurns'
    BY <1>17 DEF SweepStat, StayInGuard, LeaveGuard
  <2> QED
    BY <2>1, <2>2, <2>3, <2>4, <2>5, <2>6
<1>18. ASSUME NEW p \in Proc, SweepUnlink(p) PROVE IInv'
  <2>1. GuardOccupied'
    BY <1>18 DEF SweepUnlink, LeaveGuard
  <2>2. LockedInCall'
    BY <1>18 DEF SweepUnlink, LeaveGuard
  <2>3. SightHolds'
    BY <1>18 DEF SweepUnlink, LeaveGuard
  <2>4. AgesAgree'
    BY <1>18 DEF SweepUnlink, LeaveGuard
  <2>5. LeaseKeepsLock'
    BY <1>18 DEF SweepUnlink, LeaveGuard
  <2>6. TakeTurns'
    BY <1>18 DEF SweepUnlink, LeaveGuard
  <2> QED
    BY <2>1, <2>2, <2>3, <2>4, <2>5, <2>6
<1>19. ASSUME NEW p \in Proc, Crash(p) PROVE IInv'
  <2>1. GuardOccupied'
    BY <1>19 DEF Crash, Abandon, Forget
  <2>2. LockedInCall'
    BY <1>19 DEF Crash, Abandon, Forget
  <2>3. SightHolds'
    BY <1>19 DEF Crash, Abandon, Forget
  <2>4. AgesAgree'
    BY <1>19 DEF Crash, Abandon, Forget
  <2>5. LeaseKeepsLock'
    BY <1>19 DEF Crash, Abandon, Forget
  <2>6. TakeTurns'
    BY <1>19 DEF Crash, Abandon, Forget
  <2> QED
    BY <2>1, <2>2, <2>3, <2>4, <2>5, <2>6
<1>20. CASE Tick
  <2>1. GuardOccupied'
    BY <1>20 DEF Tick, Older
  <2>2. LockedInCall'
    BY <1>20 DEF Tick, Older
  <2>3. SightHolds'
    BY <1>20 DEF Tick, Older
  <2>4. AgesAgree'
    BY <1>20 DEF Tick, Older
  <2>5. LeaseKeepsLock'
    BY <1>20 DEF Tick, Older
  <2>6. TakeTurns'
    BY <1>20 DEF Tick, Older
  <2> QED
    BY <2>1, <2>2, <2>3, <2>4, <2>5, <2>6
<1>21. CASE UNCHANGED vars
  BY <1>21 DEF vars
<1> QED
  BY <1>1, <1>2, <1>3, <1>4, <1>5, <1>6, <1>7, <1>8, <1>9, <1>10, <1>11, <1>12, <1>13, <1>14, <1>15, <1>16, <1>17, <1>18, <1>19, <1>20, <1>21 DEF Next, CallStep

(* The initial state satisfies it. *)
LEMMA InvariantHolds == Spec => []IInv
<1>1. Init => IInv
  <2> SUFFICES ASSUME Init PROVE IInv
    OBVIOUS
  <2>1. TypeOK
    <3>1. /\ guard \subseteq Proc
          /\ wedged \in BOOLEAN
          /\ lock \in Proc \cup {NoFile, Blank, Orphan}
          /\ locked \subseteq Proc
      BY DEF Init
    <3>2. /\ lockAge \in 0..(OrphanMs + 1)
          /\ held \in [Proc -> 0..(StaleMs + 1)]
          /\ waited \in [Proc -> 0..TimeoutMs]
          /\ attempts \in [Proc -> 0..MaxAttempts]
      BY LockAssumption DEF Init
    <3>3. pc \in [Proc -> Steps] /\ overtaken \in [Proc -> SUBSET {"lease", "open"}]
      BY DEF Init, Steps
    <3> QED
      BY <3>1, <3>2, <3>3 DEF TypeOK
  <2>2. GuardOccupied /\ LockedInCall /\ SightHolds
    BY DEF Init, GuardOccupied, LockedInCall, SightHolds, InGuard
  <2>3. AgesAgree /\ LeaseKeepsLock /\ TakeTurns
    BY DEF Init, AgesAgree, LeaseKeepsLock, TakeTurns, InLease
  <2> QED
    BY <2>1, <2>2, <2>3 DEF IInv
<1> QED
  BY <1>1, IInvInductive, PTL DEF Spec

(* Types: the states of the model are well formed. *)
THEOREM TypeCorrect == Spec => []TypeOK
<1>1. IInv => TypeOK
  BY DEF IInv
<1> QED
  BY <1>1, InvariantHolds, PTL

(* A lock taken by withFileLock stays taken for the length of its lease,       *)
(* through reclaims, sweeps, crashes and releases of other callers.            *)
THEOREM LeaseSafe == Spec => []LeaseKeepsLock
<1>1. IInv => LeaseKeepsLock
  BY DEF IInv
<1> QED
  BY <1>1, InvariantHolds, PTL

(* Callers within their leases take turns on the read-modify-write.            *)
THEOREM TurnsTaken == Spec => []TakeTurns
<1>1. IInv => TakeTurns
  BY DEF IInv
<1> QED
  BY <1>1, InvariantHolds, PTL

===============================================================================
