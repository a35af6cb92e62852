------------------------- MODULE MutationGuard_proofs -------------------------
(***************************************************************************)
(* Proofs about MutationGuard, for any set of process ids, any number of    *)
(* calls, and whether or not file system calls fail at random.              *)
(*                                                                          *)
(* GuardExclusive alone is not inductive: a process deep in the recovery of *)
(* a dead owner could, as far as GuardExclusive knows, hold the name of a   *)
(* live one.  The strengthening says what a process may rely on across its  *)
(* system calls: the holder's marker is the whole content of the guard, a   *)
(* caller's prepared marker is there until it moves it, and an owner name   *)
(* once found dead is the name of a finished call for ever (names carry a   *)
(* nonce, so not even a reused process id takes it up again).               *)
(***************************************************************************)
EXTENDS MutationGuard, TLAPS

(* An owner name whose call is over. *)
Finished(o) ==
    \/ o[1] \notin guardAlive
    \/ o[2] < calls[o[1]]
    \/ guardPc[o[1]] \in Outside

(* A dead process runs nothing. *)
DeadIsIdle == \A p \in Pid : p \notin guardAlive => guardPc[p] = "idle"

(* The caller in its callback owns the only marker in the guard. *)
HolderMarked == \A p \in Pid : guardPc[p] = "body" => guardEntries = {Me(p)}

(* From the marker's creation to the rename, the caller's candidate holds it. *)
Claiming == {"claim", "list", "kill", "unlink", "rmdir", "reclaim"}
Prepared == \A p \in Pid : guardPc[p] \in Claiming => Me(p) \in markers

(* No name of a call that has not started. *)
NoFutureOwner ==
    /\ \A o \in candidates \cup guardEntries : o[2] <= calls[o[1]]
    /\ \A p \in Pid : seen[p] # NoOwner => seen[p][2] <= calls[seen[p][1]]

(* What a recovery or a sweep is about to unlink belongs to a finished call. *)
SeenOwner ==
    \A p \in Pid : guardPc[p] \in {"kill", "unlink", "pruneUnlink", "pruneRmdir"} => seen[p] \in Owner
SeenFinished ==
    \A p \in Pid : guardPc[p] \in {"unlink", "pruneUnlink", "pruneRmdir"} => Finished(seen[p])

IInv ==
    /\ GuardTypeOK
    /\ DeadIsIdle
    /\ HolderMarked
    /\ Prepared
    /\ NoFutureOwner
    /\ SeenOwner
    /\ SeenFinished

-------------------------------------------------------------------------------
(* Every variable keeps its type. *)
LEMMA TypeInductive == GuardTypeOK /\ [GuardNext]_guardVars => GuardTypeOK'
<1> SUFFICES ASSUME GuardTypeOK, [GuardNext]_guardVars PROVE GuardTypeOK'
  OBVIOUS
<1> USE ConstantsAssumption DEF GuardTypeOK, Owner, NoOwner, GuardSteps, Outside, GuardAt, GuardGoto, See, Me, files
<1>1. ASSUME NEW p \in Pid, MakeCandidate(p) PROVE GuardTypeOK'
  BY <1>1 DEF MakeCandidate
<1>2. ASSUME NEW p \in Pid, MarkCandidate(p) PROVE GuardTypeOK'
  BY <1>2 DEF MarkCandidate
<1>3. ASSUME NEW p \in Pid, Claim(p) PROVE GuardTypeOK'
  BY <1>3 DEF Claim, RenameOntoGuard
<1>4. ASSUME NEW p \in Pid, ListGuard(p) PROVE GuardTypeOK'
  BY <1>4 DEF ListGuard
<1>5. ASSUME NEW p \in Pid, CheckOwner(p) PROVE GuardTypeOK'
  BY <1>5 DEF CheckOwner
<1>6. ASSUME NEW p \in Pid, UnlinkDead(p) PROVE GuardTypeOK'
  BY <1>6 DEF UnlinkDead
<1>7. ASSUME NEW p \in Pid, RmdirDead(p) PROVE GuardTypeOK'
  BY <1>7 DEF RmdirDead, RemoveEmptyGuard
<1>8. ASSUME NEW p \in Pid, Reclaim(p) PROVE GuardTypeOK'
  BY <1>8 DEF Reclaim, RenameOntoGuard
<1>9. ASSUME NEW p \in Pid, GuardEndBody(p) PROVE GuardTypeOK'
  BY <1>9 DEF GuardEndBody
<1>10. ASSUME NEW p \in Pid, Discard(p) PROVE GuardTypeOK'
  BY <1>10 DEF Discard
<1>11. ASSUME NEW p \in Pid, DiscardRmdir(p) PROVE GuardTypeOK'
  BY <1>11 DEF DiscardRmdir, RemoveEmptyGuard
<1>12. ASSUME NEW p \in Pid, TidyMarker(p) PROVE GuardTypeOK'
  BY <1>12 DEF TidyMarker
<1>13. ASSUME NEW p \in Pid, TidyCandidate(p) PROVE GuardTypeOK'
  BY <1>13 DEF TidyCandidate
<1>14. ASSUME NEW p \in Pid, PruneCheck(p) PROVE GuardTypeOK'
  BY <1>14 DEF PruneCheck
<1>15. ASSUME NEW p \in Pid, PruneUnlink(p) PROVE GuardTypeOK'
  BY <1>15 DEF PruneUnlink
<1>16. ASSUME NEW p \in Pid, PruneRmdir(p) PROVE GuardTypeOK'
  BY <1>16 DEF PruneRmdir
<1>17. ASSUME NEW p \in Pid, GuardCrash(p) PROVE GuardTypeOK'
  BY <1>17 DEF GuardCrash
<1>18. ASSUME NEW p \in Pid, ReusePid(p) PROVE GuardTypeOK'
  BY <1>18 DEF ReusePid
<1>19. CASE UNCHANGED guardVars
  BY <1>19 DEF guardVars
<1> QED
  BY <1>1, <1>2, <1>3, <1>4, <1>5, <1>6, <1>7, <1>8, <1>9, <1>10, <1>11, <1>12, <1>13, <1>14, <1>15, <1>16, <1>17, <1>18, <1>19 DEF GuardNext, GuardCallStep, PruneStep

(* A set meets one of its elements in that element. *)
LEMMA MeetSingleton ==
  ASSUME NEW S, NEW x \in S
  PROVE  {x} \cap S = {x}
  OBVIOUS

(* The strengthening is inductive. *)
LEMMA IInvInductive == IInv /\ [GuardNext]_guardVars => IInv'
<1> SUFFICES ASSUME IInv, [GuardNext]_guardVars PROVE IInv'
  OBVIOUS
<1> GuardTypeOK'
  BY TypeInductive DEF IInv
<1> USE ConstantsAssumption DEF IInv, GuardTypeOK, Owner, NoOwner, Outside, Claiming, GuardAt, GuardGoto, See, Me, files,
      Finished, DeadIsIdle, HolderMarked, Prepared, NoFutureOwner, SeenOwner, SeenFinished
<1>1. ASSUME NEW p \in Pid, MakeCandidate(p) PROVE IInv'
  <2>1. DeadIsIdle'
    BY <1>1 DEF MakeCandidate
  <2>2. HolderMarked'
    BY <1>1 DEF MakeCandidate
  <2>3. Prepared'
    BY <1>1 DEF MakeCandidate
  <2>4. NoFutureOwner'
    BY <1>1 DEF MakeCandidate
  <2>5. SeenOwner'
    BY <1>1 DEF MakeCandidate
  <2>6. SeenFinished'
    BY <1>1 DEF MakeCandidate
  <2> QED
    BY <2>1, <2>2, <2>3, <2>4, <2>5, <2>6
<1>2. ASSUME NEW p \in Pid, MarkCandidate(p) PROVE IInv'
  <2>1. DeadIsIdle'
    BY <1>2 DEF MarkCandidate
  <2>2. HolderMarked'
    BY <1>2 DEF MarkCandidate
  <2>3. Prepared'
    BY <1>2 DEF MarkCandidate
  <2>4. NoFutureOwner'
    BY <1>2 DEF MarkCandidate
  <2>5. SeenOwner'
    BY <1>2 DEF MarkCandidate
  <2>6. SeenFinished'
    BY <1>2 DEF MarkCandidate
  <2> QED
    BY <2>1, <2>2, <2>3, <2>4, <2>5, <2>6
<1>3. ASSUME NEW p \in Pid, Claim(p) PROVE IInv'
  <2>1. DeadIsIdle'
    BY <1>3 DEF Claim, RenameOntoGuard
  <2>2. HolderMarked'
    <3>1. CASE RenameOntoGuard(p) /\ GuardGoto(p, "body")
      <4>1. Me(p) \in markers
        BY <1>3 DEF Claim
      <4>2. guardEntries = {} /\ guardEntries' = {Me(p)}
        BY <3>1, <4>1, MeetSingleton DEF RenameOntoGuard
      <4>3. \A q \in Pid : guardPc[q] # "body"
        BY <4>2
      <4> QED
        BY <1>3, <3>1, <4>2, <4>3 DEF Claim
    <3>2. CASE UNCHANGED files
      BY <1>3, <3>2 DEF Claim, RenameOntoGuard
    <3> QED
      BY <1>3, <3>1, <3>2 DEF Claim
  <2>3. Prepared'
    BY <1>3 DEF Claim, RenameOntoGuard
  <2>4. NoFutureOwner'
    BY <1>3 DEF Claim, RenameOntoGuard
  <2>5. SeenOwner'
    BY <1>3 DEF Claim, RenameOntoGuard
  <2>6. SeenFinished'
    BY <1>3 DEF Claim, RenameOntoGuard
  <2> QED
    BY <2>1, <2>2, <2>3, <2>4, <2>5, <2>6
<1>4. ASSUME NEW p \in Pid, ListGuard(p) PROVE IInv'
  <2>1. DeadIsIdle'
    BY <1>4 DEF ListGuard
  <2>2. HolderMarked'
    BY <1>4 DEF ListGuard
  <2>3. Prepared'
    BY <1>4 DEF ListGuard
  <2>4. NoFutureOwner'
    <3>1. UNCHANGED <<calls, candidates, guardEntries>>
      BY <1>4 DEF ListGuard
    <3>2. \A q \in Pid : seen'[q] = seen[q] \/ seen'[q] \in guardEntries
      BY <1>4 DEF ListGuard
    <3> QED
      BY <3>1, <3>2
  <2>5. SeenOwner'
    BY <1>4 DEF ListGuard
  <2>6. SeenFinished'
    <3>1. \A q \in Pid : guardPc'[q] \in {"unlink", "pruneUnlink", "pruneRmdir"} =>
             guardPc[q] = guardPc'[q] /\ seen[q] = seen'[q] /\ seen[q] \in Owner
      BY <1>4 DEF ListGuard
    <3>2. UNCHANGED <<guardAlive, calls>> /\ \A q \in Pid : guardPc[q] \in Outside => guardPc'[q] \in Outside
      BY <1>4 DEF ListGuard
    <3> QED
      BY <3>1, <3>2
  <2> QED
    BY <2>1, <2>2, <2>3, <2>4, <2>5, <2>6
<1>5. ASSUME NEW p \in Pid, CheckOwner(p) PROVE IInv'
  <2>1. DeadIsIdle'
    BY <1>5 DEF CheckOwner, DeadOwner
  <2>2. HolderMarked'
    BY <1>5 DEF CheckOwner, DeadOwner
  <2>3. Prepared'
    BY <1>5 DEF CheckOwner, DeadOwner
  <2>4. NoFutureOwner'
    <3>1. UNCHANGED <<calls, candidates, guardEntries>>
      BY <1>5 DEF CheckOwner
    <3>2. \A q \in Pid : seen'[q] = seen[q] \/ seen'[q] = NoOwner
      BY <1>5 DEF CheckOwner
    <3> QED
      BY <3>1, <3>2
  <2>5. SeenOwner'
    BY <1>5 DEF CheckOwner, DeadOwner
  <2>6. SeenFinished'
    <3>1. ASSUME NEW q \in Pid, q # p, guardPc'[q] \in {"unlink", "pruneUnlink", "pruneRmdir"}
          PROVE Finished(seen[q])'
      <4>1. seen'[q] = seen[q] /\ seen[q] \in Owner /\ Finished(seen[q])
        BY <1>5, <3>1 DEF CheckOwner, DeadOwner
      <4> QED
        BY <1>5, <4>1 DEF CheckOwner, DeadOwner
    <3>2. ASSUME guardPc'[p] \in {"unlink", "pruneUnlink", "pruneRmdir"}
          PROVE Finished(seen[p])'
      <4>1. seen'[p] = seen[p] /\ seen[p] \in Owner
        BY <1>5, <3>2 DEF CheckOwner, DeadOwner
      <4>2. seen[p][1] \notin guardAlive /\ UNCHANGED <<guardAlive, calls>>
        BY <1>5, <3>2 DEF CheckOwner, DeadOwner
      <4> QED
        BY <4>1, <4>2
    <3> QED
      BY <3>1, <3>2
  <2> QED
    BY <2>1, <2>2, <2>3, <2>4, <2>5, <2>6
<1>6. ASSUME NEW p \in Pid, UnlinkDead(p) PROVE IInv'
  <2>1. DeadIsIdle'
    BY <1>6 DEF UnlinkDead
  <2>2. HolderMarked'
    BY <1>6 DEF UnlinkDead
  <2>3. Prepared'
    BY <1>6 DEF UnlinkDead
  <2>4. NoFutureOwner'
    BY <1>6 DEF UnlinkDead
  <2>5. SeenOwner'
    BY <1>6 DEF UnlinkDead
  <2>6. SeenFinished'
    BY <1>6 DEF UnlinkDead
  <2> QED
    BY <2>1, <2>2, <2>3, <2>4, <2>5, <2>6
<1>7. ASSUME NEW p \in Pid, RmdirDead(p) PROVE IInv'
  <2>1. DeadIsIdle'
    BY <1>7 DEF RmdirDead, RemoveEmptyGuard
  <2>2. HolderMarked'
    BY <1>7 DEF RmdirDead, RemoveEmptyGuard
  <2>3. Prepared'
    BY <1>7 DEF RmdirDead, RemoveEmptyGuard
  <2>4. NoFutureOwner'
    BY <1>7 DEF RmdirDead, RemoveEmptyGuard
  <2>5. SeenOwner'
    BY <1>7 DEF RmdirDead, RemoveEmptyGuard
  <2>6. SeenFinished'
    BY <1>7 DEF RmdirDead, RemoveEmptyGuard
  <2> QED
    BY <2>1, <2>2, <2>3, <2>4, <2>5, <2>6
<1>8. ASSUME NEW p \in Pid, Reclaim(p) PROVE IInv'
  <2>1. DeadIsIdle'
    BY <1>8 DEF Reclaim, RenameOntoGuard
  <2>2. HolderMarked'
    <3>1. CASE RenameOntoGuard(p) /\ GuardGoto(p, "body")
      <4>1. Me(p) \in markers
        BY <1>8 DEF Reclaim
      <4>2. guardEntries = {} /\ guardEntries' = {Me(p)}
        BY <3>1, <4>1, MeetSingleton DEF RenameOntoGuard
      <4>3. \A q \in Pid : guardPc[q] # "body"
        BY <4>2
      <4> QED
        BY <1>8, <3>1, <4>2, <4>3 DEF Reclaim
    <3>2. CASE UNCHANGED files
      BY <1>8, <3>2 DEF Reclaim, RenameOntoGuard
    <3> QED
      BY <1>8, <3>1, <3>2 DEF Reclaim
  <2>3. Prepared'
    BY <1>8 DEF Reclaim, RenameOntoGuard
  <2>4. NoFutureOwner'
    BY <1>8 DEF Reclaim, RenameOntoGuard
  <2>5. SeenOwner'
    BY <1>8 DEF Reclaim, RenameOntoGuard
  <2>6. SeenFinished'
    BY <1>8 DEF Reclaim, RenameOntoGuard
  <2> QED
    BY <2>1, <2>2, <2>3, <2>4, <2>5, <2>6
<1>9. ASSUME NEW p \in Pid, GuardEndBody(p) PROVE IInv'
  BY <1>9 DEF GuardEndBody
<1>10. ASSUME NEW p \in Pid, Discard(p) PROVE IInv'
  <2>1. DeadIsIdle'
    BY <1>10 DEF Discard
  <2>2. HolderMarked'
    BY <1>10 DEF Discard
  <2>3. Prepared'
    BY <1>10 DEF Discard
  <2>4. NoFutureOwner'
    BY <1>10 DEF Discard
  <2>5. SeenOwner'
    BY <1>10 DEF Discard
  <2>6. SeenFinished'
    BY <1>10 DEF Discard
  <2> QED
    BY <2>1, <2>2, <2>3, <2>4, <2>5, <2>6
<1>11. ASSUME NEW p \in Pid, DiscardRmdir(p) PROVE IInv'
  BY <1>11 DEF DiscardRmdir, RemoveEmptyGuard
<1>12. ASSUME NEW p \in Pid, TidyMarker(p) PROVE IInv'
  BY <1>12 DEF TidyMarker
<1>13. ASSUME NEW p \in Pid, TidyCandidate(p) PROVE IInv'
  BY <1>13 DEF TidyCandidate
<1>14. ASSUME NEW p \in Pid, PruneCheck(p) PROVE IInv'
  BY <1>14 DEF PruneCheck, DeadOwner
<1>15. ASSUME NEW p \in Pid, PruneUnlink(p) PROVE IInv'
  <2>1. DeadIsIdle'
    BY <1>15 DEF PruneUnlink
  <2>2. HolderMarked'
    BY <1>15 DEF PruneUnlink
  <2>3. Prepared'
    BY <1>15 DEF PruneUnlink
  <2>4. NoFutureOwner'
    BY <1>15 DEF PruneUnlink
  <2>5. SeenOwner'
    BY <1>15 DEF PruneUnlink
  <2>6. SeenFinished'
    <3>1. ASSUME NEW q \in Pid, q # p, guardPc'[q] \in {"unlink", "pruneUnlink", "pruneRmdir"}
          PROVE Finished(seen[q])'
      <4>1. seen'[q] = seen[q] /\ seen[q] \in Owner /\ Finished(seen[q])
        BY <1>15, <3>1 DEF PruneUnlink
      <4> QED
        BY <1>15, <4>1 DEF PruneUnlink
    <3>2. ASSUME guardPc'[p] \in {"unlink", "pruneUnlink", "pruneRmdir"}
          PROVE Finished(seen[p])'
      <4>1. seen'[p] = seen[p] /\ seen[p] \in Owner
        BY <1>15, <3>2 DEF PruneUnlink
      <4> QED
        BY <1>15, <3>2, <4>1 DEF PruneUnlink
    <3> QED
      BY <3>1, <3>2
  <2> QED
    BY <2>1, <2>2, <2>3, <2>4, <2>5, <2>6
<1>16. ASSUME NEW p \in Pid, PruneRmdir(p) PROVE IInv'
  BY <1>16 DEF PruneRmdir
<1>17. ASSUME NEW p \in Pid, GuardCrash(p) PROVE IInv'
  BY <1>17 DEF GuardCrash
<1>18. ASSUME NEW p \in Pid, ReusePid(p) PROVE IInv'
  BY <1>18 DEF ReusePid
<1>19. CASE UNCHANGED guardVars
  BY <1>19 DEF guardVars
<1> QED
  BY <1>1, <1>2, <1>3, <1>4, <1>5, <1>6, <1>7, <1>8, <1>9, <1>10, <1>11, <1>12, <1>13, <1>14, <1>15, <1>16, <1>17, <1>18, <1>19 DEF GuardNext, GuardCallStep, PruneStep

(* Init, and what the strengthening is for. *)
LEMMA InvariantHolds == GuardSpec => []IInv
<1>1. GuardInit => IInv
  <2> SUFFICES ASSUME GuardInit PROVE IInv
    OBVIOUS
  <2>1. GuardTypeOK
    BY DEF GuardInit, GuardTypeOK, GuardSteps, Outside
  <2>2. DeadIsIdle /\ HolderMarked /\ Prepared /\ SeenOwner /\ SeenFinished
    BY DEF GuardInit, Claiming, DeadIsIdle, HolderMarked, Prepared, SeenOwner, SeenFinished
  <2>3. NoFutureOwner
    BY DEF GuardInit, NoFutureOwner
  <2> QED
    BY <2>1, <2>2, <2>3 DEF IInv
<1> QED
  BY <1>1, IInvInductive, PTL DEF GuardSpec

(* Types: the states of the model are well formed. *)
THEOREM TypeCorrect == GuardSpec => []GuardTypeOK
<1>1. IInv => GuardTypeOK
  BY DEF IInv
<1> QED
  BY <1>1, InvariantHolds, PTL

LEMMA InvariantExcludes == IInv => GuardExclusive
<1> SUFFICES ASSUME IInv, NEW p \in Pid, NEW q \in Pid, InBody(p), InBody(q) PROVE p = q
  BY DEF GuardExclusive
<1>1. guardEntries = {Me(p)} /\ guardEntries = {Me(q)}
  BY DEF IInv, HolderMarked, InBody
<1>2. Me(p) = Me(q)
  BY <1>1
<1> QED
  BY <1>2 DEF Me

(* withLockMutation runs one callback at a time, through crashes, recoveries  *)
(* of dead owners, orphan sweeps, reused process ids and failing system calls. *)
THEOREM Exclusion == GuardSpec => []GuardExclusive
<1> QED
  BY InvariantHolds, InvariantExcludes, PTL

(* No recovery, however late, takes the marker of a call that is running: the *)
(* step property LiveMarkerKept follows from HolderMarked in the next state.   *)
THEOREM DelayedRecoverySafe == GuardSpec => LiveMarkerKept
<1> DEFINE Kept == \A p \in Pid :
                       (InBody(p) /\ Me(p) \in guardEntries /\ InBody(p)') => Me(p) \in guardEntries'
<1>1. IInv /\ IInv' /\ [GuardNext]_guardVars => [Kept]_guardVars
  <2> SUFFICES ASSUME IInv, IInv', [GuardNext]_guardVars, NEW p \in Pid, InBody(p), InBody(p)'
               PROVE  Me(p) \in guardEntries'
    OBVIOUS
  <2>1. guardEntries' = {Me(p)'}
    BY DEF IInv, HolderMarked, InBody
  <2>2. calls'[p] = calls[p]
    <3> USE DEF IInv, GuardTypeOK, InBody, files
    <3>1. ASSUME NEW q \in Pid, MakeCandidate(q) PROVE calls'[p] = calls[p]
      BY <3>1 DEF MakeCandidate, GuardAt
    <3>2. ASSUME NEW q \in Pid, GuardCallStep(q) PROVE calls'[p] = calls[p]
      BY <3>2 DEF GuardCallStep, MarkCandidate, Claim, ListGuard, CheckOwner, UnlinkDead, RmdirDead,
                  Reclaim, GuardEndBody, Discard, DiscardRmdir, TidyMarker, TidyCandidate
    <3>3. ASSUME NEW q \in Pid, PruneStep(q) \/ GuardCrash(q) \/ ReusePid(q) PROVE calls'[p] = calls[p]
      BY <3>3 DEF PruneStep, PruneCheck, PruneUnlink, PruneRmdir, GuardCrash, ReusePid
    <3>4. CASE UNCHANGED guardVars
      BY <3>4 DEF guardVars
    <3> QED
      BY <3>1, <3>2, <3>3, <3>4 DEF GuardNext
  <2> QED
    BY <2>1, <2>2 DEF Me
<1> QED
  BY <1>1, InvariantHolds, PTL DEF GuardSpec, LiveMarkerKept

-------------------------------------------------------------------------------
(* What a running call has of its own on disk: its candidate until the rename, *)
(* its guard entry from the rename on, and towards its end nothing of either. *)
OwnTraces ==
    \A p \in Pid :
        /\ guardPc[p] \in {"body", "discard", "discardRmdir"} => Me(p) \notin candidates \cup markers
        /\ guardPc[p] \in {"mark", "tidy", "tidyRmdir", "discardRmdir"} \cup Claiming =>
               Me(p) \notin guardEntries
        /\ guardPc[p] = "tidyRmdir" /\ ~GuardFaults => Me(p) \notin markers

LEMMA OwnTracesInductive == IInv /\ OwnTraces /\ [GuardNext]_guardVars => OwnTraces'
<1> SUFFICES ASSUME IInv, OwnTraces, [GuardNext]_guardVars PROVE OwnTraces'
  OBVIOUS
<1> USE DEF IInv, GuardTypeOK, Owner, OwnTraces, Claiming, GuardAt, GuardGoto, See, Me, files
(* Only a call of one's own adds one's name to anything.                      *)
<1>1. ASSUME NEW p \in Pid, MakeCandidate(p) PROVE OwnTraces'
  <2>1. <<p, calls[p] + 1>> \notin guardEntries
    BY <1>1 DEF NoFutureOwner
  <2> QED
    BY <1>1, <2>1 DEF MakeCandidate
<1>2. ASSUME NEW p \in Pid, MarkCandidate(p) PROVE OwnTraces'
  BY <1>2 DEF MarkCandidate
<1>3. ASSUME NEW p \in Pid, Claim(p) \/ Reclaim(p) PROVE OwnTraces'
  BY <1>3 DEF Claim, Reclaim, RenameOntoGuard
<1>4. ASSUME NEW p \in Pid, ListGuard(p) \/ CheckOwner(p) \/ GuardEndBody(p) PROVE OwnTraces'
  BY <1>4 DEF ListGuard, CheckOwner, GuardEndBody
<1>5. ASSUME NEW p \in Pid, UnlinkDead(p) \/ RmdirDead(p) PROVE OwnTraces'
  BY <1>5 DEF UnlinkDead, RmdirDead
<1>6. ASSUME NEW p \in Pid, Discard(p) \/ DiscardRmdir(p) PROVE OwnTraces'
  BY <1>6 DEF Discard, DiscardRmdir, Outside
<1>7. ASSUME NEW p \in Pid, TidyMarker(p) \/ TidyCandidate(p) PROVE OwnTraces'
  BY <1>7 DEF TidyMarker, TidyCandidate
<1>8. ASSUME NEW p \in Pid, PruneStep(p) PROVE OwnTraces'
  BY <1>8 DEF PruneStep, PruneCheck, PruneUnlink, PruneRmdir
<1>9. ASSUME NEW p \in Pid, GuardCrash(p) \/ ReusePid(p) PROVE OwnTraces'
  BY <1>9 DEF GuardCrash, ReusePid
<1>10. CASE UNCHANGED guardVars
  BY <1>10 DEF guardVars
<1> QED
  BY <1>1, <1>2, <1>3, <1>4, <1>5, <1>6, <1>7, <1>8, <1>9, <1>10 DEF GuardNext, GuardCallStep

(* Where no system call fails, `finally` keeps its word: a call that returns   *)
(* in a live process leaves neither candidate, marker nor guard entry behind.  *)
THEOREM CallsTidyUp == GuardSpec => NothingLeftBehind
<1>1. GuardInit => OwnTraces
  BY DEF GuardInit, OwnTraces, Claiming
<1>2. IInv /\ OwnTraces /\ [GuardNext]_guardVars =>
        [\A p \in Pid :
             (~GuardFaults /\ InCall(p) /\ p \in guardAlive' /\ guardPc'[p] \in Outside) =>
                 Me(p) \notin candidates' \cup markers' \cup guardEntries']_guardVars
  <2> SUFFICES ASSUME IInv, OwnTraces, GuardNext, NEW p \in Pid,
                      ~GuardFaults, InCall(p), p \in guardAlive', guardPc'[p] \in Outside
               PROVE  Me(p) \notin candidates' \cup markers' \cup guardEntries'
    OBVIOUS
  <2> USE DEF IInv, GuardTypeOK, Owner, OwnTraces, Outside, InCall, GuardAt, GuardGoto, See, Me, files
  (* Its own last step is the only one that takes it out of the call.          *)
  <2>1. ASSUME NEW q \in Pid, q # p, MakeCandidate(q) \/ GuardCallStep(q) \/ PruneStep(q) \/ ReusePid(q)
        PROVE  FALSE
    <3>1. guardPc'[p] = guardPc[p]
      BY <2>1 DEF MakeCandidate, GuardCallStep, MarkCandidate, Claim, ListGuard, CheckOwner, UnlinkDead,
                  RmdirDead, Reclaim, GuardEndBody, Discard, DiscardRmdir, TidyMarker, TidyCandidate,
                  PruneStep, PruneCheck, PruneUnlink, PruneRmdir, ReusePid
    <3> QED
      BY <3>1
  <2>2. ASSUME NEW q \in Pid, GuardCrash(q) PROVE FALSE
    BY <2>2 DEF GuardCrash
  <2>3. ASSUME MakeCandidate(p) \/ PruneStep(p) \/ ReusePid(p) PROVE FALSE
    BY <2>3 DEF MakeCandidate, PruneStep, PruneCheck, PruneUnlink, PruneRmdir, ReusePid
  <2>4. ASSUME MarkCandidate(p) \/ Claim(p) \/ ListGuard(p) \/ CheckOwner(p) \/ UnlinkDead(p) PROVE FALSE
    BY <2>4 DEF MarkCandidate, Claim, ListGuard, CheckOwner, UnlinkDead
  <2>5. ASSUME RmdirDead(p) \/ Reclaim(p) \/ GuardEndBody(p) \/ TidyMarker(p) PROVE FALSE
    BY <2>5 DEF RmdirDead, Reclaim, GuardEndBody, TidyMarker
  <2>6. ASSUME Discard(p) \/ DiscardRmdir(p)
        PROVE  Me(p) \notin candidates' \cup markers' \cup guardEntries'
    BY <2>6 DEF Discard, DiscardRmdir
  <2>7. ASSUME TidyCandidate(p)
        PROVE  Me(p) \notin candidates' \cup markers' \cup guardEntries'
    BY <2>7 DEF TidyCandidate
  <2> QED
    BY <2>1, <2>2, <2>3, <2>4, <2>5, <2>6, <2>7 DEF GuardNext, GuardCallStep
<1>3. GuardSpec => []OwnTraces
  BY <1>1, OwnTracesInductive, InvariantHolds, PTL DEF GuardSpec
<1> QED
  BY <1>2, <1>3, InvariantHolds, PTL DEF GuardSpec, NothingLeftBehind

-------------------------------------------------------------------------------
(* The abstract mutex: its state is the set of processes in their callbacks.   *)
Inside == {p \in Pid : InBody(p)}

(* Taking the guard is Enter: HolderMarked says an empty guard has no holder.  *)
LEMMA RenameEnters ==
  ASSUME IInv, NEW p \in Pid, guardEntries = {}, guardPc'= [guardPc EXCEPT ![p] = "body"],
         p \in guardAlive, UNCHANGED guardAlive
  PROVE  Inside = {} /\ Inside' = {p}
<1>1. \A q \in Pid : guardPc[q] # "body"
  BY DEF IInv, HolderMarked
<1>2. \A q \in Pid : InBody(q)' <=> q = p
  BY <1>1 DEF InBody, IInv, GuardTypeOK
<1> QED
  BY <1>1, <1>2 DEF Inside, InBody

(* Every step of the detailed specification enters, leaves or stutters.        *)
LEMMA StepMapsToMutex == IInv /\ [GuardNext]_guardVars => [Mutex!Next]_Inside
<1> SUFFICES ASSUME IInv, [GuardNext]_guardVars PROVE [Mutex!Next]_Inside
  OBVIOUS
<1> USE DEF Inside, InBody, IInv, GuardTypeOK, GuardAt, GuardGoto, See, files
<1>1. ASSUME NEW p \in Pid, Claim(p) \/ Reclaim(p) PROVE [Mutex!Next]_Inside
  <2>1. CASE RenameOntoGuard(p) /\ GuardGoto(p, "body")
    <3>1. Inside = {} /\ Inside' = {p}
      BY <1>1, <2>1, RenameEnters DEF Claim, Reclaim, RenameOntoGuard
    <3> QED
      BY <3>1 DEF Mutex!Next, Mutex!Enter
  <2>2. CASE ~(RenameOntoGuard(p) /\ GuardGoto(p, "body"))
    BY <1>1, <2>2 DEF Claim, Reclaim
  <2> QED
    BY <2>1, <2>2
<1>2. ASSUME NEW p \in Pid, GuardEndBody(p) PROVE [Mutex!Next]_Inside
  <2>1. p \in Inside /\ Inside' = Inside \ {p}
    BY <1>2 DEF GuardEndBody
  <2> QED
    BY <2>1 DEF Mutex!Next, Mutex!Leave
<1>3. ASSUME NEW p \in Pid, GuardCrash(p) PROVE [Mutex!Next]_Inside
  <2>1. Inside' = Inside \ {p}
    BY <1>3 DEF GuardCrash
  <2> QED
    BY <2>1 DEF Mutex!Next, Mutex!Leave
<1>4. ASSUME NEW p \in Pid, ReusePid(p) PROVE UNCHANGED Inside
  BY <1>4 DEF ReusePid, DeadIsIdle
<1>5. ASSUME NEW p \in Pid, MakeCandidate(p) \/ MarkCandidate(p) \/ ListGuard(p) \/ CheckOwner(p)
      PROVE UNCHANGED Inside
  BY <1>5 DEF MakeCandidate, MarkCandidate, ListGuard, CheckOwner
<1>6. ASSUME NEW p \in Pid, UnlinkDead(p) \/ RmdirDead(p) \/ Discard(p) \/ DiscardRmdir(p)
      PROVE UNCHANGED Inside
  BY <1>6 DEF UnlinkDead, RmdirDead, Discard, DiscardRmdir
<1>7. ASSUME NEW p \in Pid, TidyMarker(p) \/ TidyCandidate(p) \/ PruneStep(p)
      PROVE UNCHANGED Inside
  BY <1>7 DEF TidyMarker, TidyCandidate, PruneStep, PruneCheck, PruneUnlink, PruneRmdir
<1>8. CASE UNCHANGED guardVars
  BY <1>8 DEF guardVars
<1> QED
  BY <1>1, <1>2, <1>3, <1>4, <1>5, <1>6, <1>7, <1>8 DEF GuardNext, GuardCallStep

(* withLockMutation implements the mutex its callers rely on.                  *)
THEOREM ImplementsMutex == GuardSpec => MutexSpec
<1>1. GuardInit => Inside = {}
  BY DEF GuardInit, Inside, InBody
<1> QED
  BY <1>1, InvariantHolds, StepMapsToMutex, PTL DEF GuardSpec, MutexSpec, Mutex!Spec, Mutex!Init, Inside

===============================================================================
