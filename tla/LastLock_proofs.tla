---------------------------- MODULE LastLock_proofs ----------------------------
(***************************************************************************)
(* Proofs about LastLock, for any processes, any number of attempts and any   *)
(* faults.  BodiesTakeTurns needs to know why nobody removes or replaces the  *)
(* file of a running body: whoever is about to do so saw under the guard that *)
(* no live process is named in it, and the guard is still his.                *)
(***************************************************************************)
EXTENDS LastLock, TLAPS

InGuard == {"look", "unlink", "open", "pid", "compare", "remove", "sweep", "sweepUnlink"}
Steps == InGuard \cup {"idle", "try", "busy", "body", "mark", "release"}

Types ==
    /\ pc \in [Proc -> Steps]
    /\ guard \subseteq Proc
    /\ lock \in LockFiles

(* A call ends when its process does.                                        *)
CallersLive == \A p \in Proc : ~At(p, "idle") => p \in alive

(* The guard's occupants are the processes that look at the file, one at a time. *)
GuardOccupied ==
    /\ \A p \in Proc : p \in guard <=> pc[p] \in InGuard
    /\ \A p, q \in guard : p = q

(* A running body is that of a live process whose id is in the file it made.   *)
BodyNamed == \A p \in Proc : At(p, "body") => p \in alive /\ lock.text = p /\ lock.by = p

(* Who is about to change the file has seen that it is nobody's; who writes    *)
(* his id has made the file, and who removes it at the end is its maker.      *)
SightHolds ==
    \A p \in Proc :
        /\ pc[p] \in {"unlink", "open", "pid", "sweepUnlink"} => \A q \in Proc : ~At(q, "body")
        /\ At(p, "pid") => lock.by = p
        /\ At(p, "remove") => lock.by = p

IInv == Types /\ CallersLive /\ GuardOccupied /\ BodyNamed /\ SightHolds

-------------------------------------------------------------------------------
(* The initial states satisfy it. *)
LEMMA InitInductive == Init => IInv
BY DEF Init, IInv, Types, Steps, GuardOccupied, BodyNamed, SightHolds, CallersLive, LockFiles, InGuard, At, NoFile

(* Every step keeps who is inside the guard. *)
LEMMA GuardInductive ==
    Types /\ CallersLive /\ GuardOccupied /\ [Next]_vars => Types' /\ CallersLive' /\ GuardOccupied'
<1> SUFFICES ASSUME Types, CallersLive, GuardOccupied, [Next]_vars
             PROVE  Types' /\ CallersLive' /\ GuardOccupied'
  OBVIOUS
<1> DEFINE Goal == Types' /\ CallersLive' /\ GuardOccupied'
<1> USE DEF Types, CallersLive, GuardOccupied, LockFiles, NoFile, InGuard, Steps, At, Goto, EnterGuard, LeaveGuard, StayInGuard,
            Refused, Guard!Enter, Guard!Leave
<1>1. ASSUME NEW p \in Proc, Call(p) \/ TryAgain(p) \/ EndBody(p) \/ Mark(p) \/ Reuse(p) PROVE Goal
  BY <1>1 DEF Call, TryAgain, EndBody, Mark, Reuse
<1>2. ASSUME NEW p \in Proc, Try(p) PROVE Goal
  BY <1>2 DEF Try
<1>3. ASSUME NEW p \in Proc, Look(p) PROVE Goal
  BY <1>3 DEF Look
<1>4. ASSUME NEW p \in Proc, UnlinkLeftOver(p) PROVE Goal
  BY <1>4 DEF UnlinkLeftOver
<1>5. ASSUME NEW p \in Proc, OpenLock(p) PROVE Goal
  BY <1>5 DEF OpenLock
<1>6. ASSUME NEW p \in Proc, WritePid(p) PROVE Goal
  BY <1>6 DEF WritePid
<1>7. ASSUME NEW p \in Proc, Release(p) PROVE Goal
  BY <1>7 DEF Release
<1>8. ASSUME NEW p \in Proc, Compare(p) PROVE Goal
  BY <1>8 DEF Compare
<1>9. ASSUME NEW p \in Proc, Remove(p) PROVE Goal
  BY <1>9 DEF Remove
<1>10. ASSUME NEW p \in Proc, Sweep(p) PROVE Goal
  BY <1>10 DEF Sweep
<1>11. ASSUME NEW p \in Proc, SweepLook(p) PROVE Goal
  BY <1>11 DEF SweepLook
<1>12. ASSUME NEW p \in Proc, SweepUnlink(p) PROVE Goal
  BY <1>12 DEF SweepUnlink
<1>13. ASSUME NEW p \in Proc, Crash(p) PROVE Goal
  BY <1>13 DEF Crash
<1>14. CASE Age \/ UNCHANGED vars
  BY <1>14 DEF Age, vars
<1> QED
  BY <1>1, <1>2, <1>3, <1>4, <1>5, <1>6, <1>7, <1>8, <1>9, <1>10, <1>11, <1>12, <1>13, <1>14
  DEF Next

(* Every step keeps what is known of the file. *)
LEMMA FileInductive ==
    IInv /\ [Next]_vars => BodyNamed' /\ SightHolds'
<1> SUFFICES ASSUME IInv, [Next]_vars PROVE BodyNamed' /\ SightHolds'
  OBVIOUS
<1> DEFINE Goal == BodyNamed' /\ SightHolds'
<1> USE DEF IInv, Types, GuardOccupied, BodyNamed, SightHolds, CallersLive, LockFiles, InGuard, Steps, At, Goto,
            EnterGuard, LeaveGuard, StayInGuard, Refused, NoFile
<1>1. ASSUME NEW p \in Proc, Call(p) \/ TryAgain(p) \/ EndBody(p) PROVE Goal
  BY <1>1 DEF Call, TryAgain, EndBody
<1>2. ASSUME NEW p \in Proc, Try(p) PROVE Goal
  BY <1>2 DEF Try
<1>3. ASSUME NEW p \in Proc, Look(p) PROVE Goal
  BY <1>3 DEF Look, Held
<1>4. ASSUME NEW p \in Proc, UnlinkLeftOver(p) PROVE Goal
  BY <1>4 DEF UnlinkLeftOver
<1>5. ASSUME NEW p \in Proc, OpenLock(p) PROVE Goal
  BY <1>5 DEF OpenLock
<1>6. ASSUME NEW p \in Proc, WritePid(p) PROVE Goal
  BY <1>6 DEF WritePid
<1>7. ASSUME NEW p \in Proc, Mark(p) PROVE Goal
  BY <1>7 DEF Mark
<1>8. ASSUME NEW p \in Proc, Release(p) PROVE Goal
  BY <1>8 DEF Release
<1>9. ASSUME NEW p \in Proc, Compare(p) PROVE Goal
  BY <1>9 DEF Compare
<1>10. ASSUME NEW p \in Proc, Remove(p) PROVE Goal
  BY <1>10 DEF Remove
<1>11. ASSUME NEW p \in Proc, Sweep(p) PROVE Goal
  BY <1>11 DEF Sweep
<1>12. ASSUME NEW p \in Proc, SweepLook(p) PROVE Goal
  BY <1>12 DEF SweepLook, Held
<1>13. ASSUME NEW p \in Proc, SweepUnlink(p) PROVE Goal
  BY <1>13 DEF SweepUnlink
<1>14. ASSUME NEW p \in Proc, Crash(p) PROVE Goal
  BY <1>14 DEF Crash
<1>15. ASSUME NEW p \in Proc, Reuse(p) PROVE Goal
  BY <1>15 DEF Reuse
<1>16. CASE Age
  BY <1>16 DEF Age
<1>17. CASE UNCHANGED vars
  BY <1>17 DEF vars
<1> QED
  BY <1>1, <1>2, <1>3, <1>4, <1>5, <1>6, <1>7, <1>8, <1>9, <1>10, <1>11, <1>12, <1>13, <1>14,
     <1>15, <1>16, <1>17 DEF Next

(* The inductive invariant holds. *)
LEMMA InvariantHolds == Spec => []IInv
<1>1. IInv /\ [Next]_vars => IInv'
  BY GuardInductive, FileInductive DEF IInv
<1> QED
  BY InitInductive, <1>1, PTL DEF Spec

(* The refinement: the bodies of all callers run one at a time (withLastLock), *)
(* though the lock has no lease and its completion marker is written outside  *)
(* the guard.                                                                *)
LEMMA StepMapsToMutex == IInv /\ [Next]_vars => [Bodies!Next]_{p \in Proc : At(p, "body")}
<1> SUFFICES ASSUME IInv, [Next]_vars PROVE [Bodies!Next]_{p \in Proc : At(p, "body")}
  OBVIOUS
<1> DEFINE Inside == {p \in Proc : At(p, "body")}
<1> USE DEF IInv, Types, Steps, At, Goto, EnterGuard, LeaveGuard, StayInGuard, Refused
<1>1. ASSUME NEW p \in Proc, WritePid(p) PROVE [Bodies!Next]_Inside
  <2>1. CASE LeaveGuard(p, "body")
    <3>1. Inside = {} /\ Inside' = {p}
      BY <1>1, <2>1 DEF WritePid, SightHolds
    <3> QED
      BY <3>1 DEF Bodies!Next, Bodies!Enter
  <2>2. CASE LeaveGuard(p, "idle")
    <3>1. UNCHANGED Inside
      BY <1>1, <2>2 DEF WritePid
    <3> QED
      BY <3>1
  <2> QED
    BY <1>1, <2>1, <2>2 DEF WritePid
<1>2. ASSUME NEW p \in Proc, EndBody(p) PROVE [Bodies!Next]_Inside
  <2>1. p \in Inside /\ Inside' = Inside \ {p}
    BY <1>2 DEF EndBody
  <2> QED
    BY <2>1 DEF Bodies!Next, Bodies!Leave
<1>3. ASSUME NEW p \in Proc, Crash(p) PROVE [Bodies!Next]_Inside
  <2>1. Inside' = Inside \ {p}
    BY <1>3 DEF Crash
  <2> QED
    BY <2>1 DEF Bodies!Next, Bodies!Leave
<1>4. ASSUME NEW p \in Proc, Call(p) \/ Try(p) \/ Look(p) \/ UnlinkLeftOver(p) \/ OpenLock(p)
      PROVE UNCHANGED Inside
  BY <1>4 DEF Call, Try, Look, UnlinkLeftOver, OpenLock
<1>5. ASSUME NEW p \in Proc, TryAgain(p) \/ Mark(p) \/ Release(p) \/ Compare(p) \/ Remove(p)
      PROVE UNCHANGED Inside
  BY <1>5 DEF TryAgain, Mark, Release, Compare, Remove
<1>6. ASSUME NEW p \in Proc, Sweep(p) \/ SweepLook(p) \/ SweepUnlink(p) \/ Reuse(p)
      PROVE UNCHANGED Inside
  BY <1>6 DEF Sweep, SweepLook, SweepUnlink, Reuse
<1>7. CASE Age \/ UNCHANGED vars
  BY <1>7 DEF Age, vars
<1> QED
  BY <1>1, <1>2, <1>3, <1>4, <1>5, <1>6, <1>7 DEF Next

(* The strict lock keeps the promise of the guard that it is built on: the     *)
(* bodies of withLastLock take turns, whatever crashes, fails or is swept.    *)
THEOREM StrictLockIsMutex == Spec => BodiesTakeTurns
<1> DEFINE Inside == {p \in Proc : At(p, "body")}
<1>1. Init => Inside = {}
  BY DEF Init, At
<1> QED
  BY <1>1, InvariantHolds, StepMapsToMutex, PTL
  DEF Spec, BodiesTakeTurns, Bodies!Spec, Bodies!Init

-------------------------------------------------------------------------------
(* A process id is none of the other words that the model uses for the file.   *)
NamesDiffer == Proc \cap {"missing", "empty", "complete", Nobody} = {}

(* A finished writer's marker is written before the call goes on, so a live    *)
(* process id alone does not keep its lock (withLastLock's finally).          *)
THEOREM MarkerFreesLock == ASSUME NamesDiffer PROVE Spec => []FinishedNotHeld
<1>1. Init => FinishedNotHeld
  BY NamesDiffer DEF Init, FinishedNotHeld, NoFile, NamesDiffer
<1>2. IInv /\ FinishedNotHeld /\ [Next]_vars => FinishedNotHeld'
  <2> SUFFICES ASSUME IInv, FinishedNotHeld, [Next]_vars PROVE FinishedNotHeld'
    OBVIOUS
  <2> USE NamesDiffer DEF NamesDiffer, IInv, Types, Steps, LockFiles, FinishedNotHeld, At, Goto, NoFile,
                          EnterGuard, LeaveGuard, StayInGuard, Refused
  <2>1. ASSUME NEW p \in Proc, Call(p) \/ Try(p) \/ Look(p) \/ TryAgain(p) \/ EndBody(p)
        PROVE FinishedNotHeld'
    BY <2>1 DEF Call, Try, Look, TryAgain, EndBody
  <2>2. ASSUME NEW p \in Proc, UnlinkLeftOver(p) \/ OpenLock(p) \/ WritePid(p)
        PROVE FinishedNotHeld'
    BY <2>2 DEF UnlinkLeftOver, OpenLock, WritePid
  <2>3. ASSUME NEW p \in Proc, Mark(p) PROVE FinishedNotHeld'
    BY <2>3 DEF Mark
  <2>4. ASSUME NEW p \in Proc, Release(p) \/ Compare(p) \/ Remove(p) PROVE FinishedNotHeld'
    BY <2>4 DEF Release, Compare, Remove
  <2>5. ASSUME NEW p \in Proc, Sweep(p) \/ SweepLook(p) \/ SweepUnlink(p) PROVE FinishedNotHeld'
    BY <2>5 DEF Sweep, SweepLook, SweepUnlink
  <2>6. ASSUME NEW p \in Proc, Crash(p) \/ Reuse(p) PROVE FinishedNotHeld'
    BY <2>6 DEF Crash, Reuse
  <2>7. CASE Age \/ UNCHANGED vars
    BY <2>7 DEF Age, vars
  <2> QED
    BY <2>1, <2>2, <2>3, <2>4, <2>5, <2>6, <2>7 DEF Next
<1> QED
  BY <1>1, <1>2, InvariantHolds, PTL DEF Spec
===============================================================================
