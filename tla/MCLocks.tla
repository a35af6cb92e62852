-------------------------------- MODULE MCLocks --------------------------------
(***************************************************************************)
(* For TLC, side by side (one moves while the others are at their start): the *)
(* progress of the rename guard (MutationGuard) and of the leased lock         *)
(* (FileLock), without failing system calls, and the strict lock (LastLock).  *)
(***************************************************************************)
EXTENDS LastLock, MutationGuard

CONSTANT LeaseProc      \* processes that use the leased lock

VARIABLES
    leaseGuard, leaseWedged, lease, leasePc, leaseAttempts,
    lockAge, locked, held, waited, overtaken

Lease == INSTANCE FileLock WITH
             Proc <- LeaseProc, StaleMs <- 2, TimeoutMs <- 1, OrphanMs <- 3, FsFaults <- FALSE,
             guard <- leaseGuard, wedged <- leaseWedged, lock <- lease, pc <- leasePc,
             attempts <- leaseAttempts

leaseVars ==
    <<leaseGuard, leaseWedged, lease, leasePc, leaseAttempts, lockAge, locked, held, waited,
      overtaken>>

MCInit == Init /\ GuardInit /\ Lease!Init
MCNext ==
    \/ GuardInit /\ Lease!Init /\ Next /\ UNCHANGED <<guardVars, leaseVars>>
    \/ Init /\ Lease!Init /\ GuardNext /\ UNCHANGED <<vars, leaseVars>>
    \/ Init /\ GuardInit /\ Lease!Next /\ UNCHANGED <<vars, guardVars>>

MCSpec ==
    /\ MCInit /\ [][MCNext]_<<vars, guardVars, leaseVars>> /\ GuardFairness
    /\ WF_leaseVars(Lease!Tick) /\ \A p \in LeaseProc : WF_leaseVars(Lease!CallStep(p))

(* See FileLock.                                                             *)
NeverBlocks == Lease!NeverBlocks
OrphanReclaimed == Lease!OrphanReclaimed
===============================================================================
