------------------------------ MODULE MCFileLock ------------------------------
(***************************************************************************)
(* The safety of the leased lock (FileLock) and of the rename guard under it  *)
(* (MutationGuard) for TLC, side by side (one moves while the other is at its *)
(* start).  Processes are interchangeable.                                   *)
(***************************************************************************)
EXTENDS FileLock, MutationGuard, TLC

MCInit == Init /\ GuardInit
MCNext ==
    \/ GuardInit /\ Next /\ UNCHANGED guardVars
    \/ Init /\ GuardNext /\ UNCHANGED vars

MCSpec == MCInit /\ [][MCNext]_<<vars, guardVars>>

Symmetry == Permutations(Proc)
===============================================================================
