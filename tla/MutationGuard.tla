----------------------------- MODULE MutationGuard -----------------------------
(***************************************************************************)
(* `withLockMutation` of src/src/claude/atomic.ts at the grain of its file  *)
(* system calls.                                                            *)
(*                                                                          *)
(* A caller prepares a candidate directory that holds one marker file named *)
(* after the caller (`<pid>.<random>`), and renames it onto the guard name. *)
(* rename(2) replaces an absent or an empty directory and refuses a         *)
(* nonempty one, so the marker is the lock.  A caller that is refused looks *)
(* once for a dead owner, removes that owner's marker by name, and retries. *)
(*                                                                          *)
(* Processes die between any two system calls, and a process id is reused   *)
(* by a later process.  The random half of the owner name is what a reused  *)
(* process id does not repeat; it is modelled by a call counter per id.     *)
(***************************************************************************)
EXTENDS Naturals, FiniteSets

CONSTANTS
    Pid,            \* process ids
    MaxCalls,       \* bound: calls per process id, over all its processes
    GuardFaults     \* whether a file system call may fail for no reason of ours

ASSUME ConstantsAssumption == MaxCalls \in Nat /\ GuardFaults \in BOOLEAN

VARIABLES
    guardAlive,     \* process ids that kill(pid, 0) finds
    calls,          \* calls[p]: calls made so far under process id p
    guardPc,        \* guardPc[p]: the next system call of p
    seen,           \* seen[p]: the owner p read from a directory, while it matters
    candidates,     \* owners whose candidate directory exists
    markers,        \* owners whose candidate directory holds its marker file
    guardExists,    \* the guard directory exists
    guardEntries    \* the marker files in the guard directory

files == <<candidates, markers, guardExists, guardEntries>>
guardVars == <<guardAlive, calls, guardPc, seen, candidates, markers, guardExists, guardEntries>>

Owner == Pid \X Nat
NoOwner == <<>>

(* The owner name of p's current call. *)
Me(p) == <<p, calls[p]>>

(* The two sweeps of `removeDeadLockCandidate` run outside any call. *)
Outside == {"idle", "pruneUnlink", "pruneRmdir"}
GuardSteps == Outside \cup
              {"mark", "claim", "list", "kill", "unlink", "rmdir", "reclaim",
               "body", "discard", "discardRmdir", "tidy", "tidyRmdir"}

InCall(p) == p \in guardAlive /\ guardPc[p] \notin Outside
InBody(p) == p \in guardAlive /\ guardPc[p] = "body"

(* deadGuardOwner: the process id of the owner name is not running. *)
DeadOwner(o) == o[1] \notin guardAlive

GuardInit ==
    /\ guardAlive = Pid
    /\ calls = [p \in Pid |-> 0]
    /\ guardPc = [p \in Pid |-> "idle"]
    /\ seen = [p \in Pid |-> NoOwner]
    /\ candidates = {}
    /\ markers = {}
    /\ guardExists = FALSE
    /\ guardEntries = {}

GuardAt(p, step) == p \in guardAlive /\ guardPc[p] = step
GuardGoto(p, step) == guardPc' = [guardPc EXCEPT ![p] = step]
See(p, o) == seen' = [seen EXCEPT ![p] = o]

-------------------------------------------------------------------------------
(* mkdirSync(candidate) under a fresh owner name. *)
MakeCandidate(p) ==
    /\ GuardAt(p, "idle")
    /\ calls[p] < MaxCalls
    /\ calls' = [calls EXCEPT ![p] = @ + 1]
    /\ candidates' = candidates \cup {<<p, calls[p] + 1>>}
    /\ GuardGoto(p, "mark")
    /\ UNCHANGED <<guardAlive, seen, markers, guardExists, guardEntries>>

(* openSync(join(candidate, owner), "wx"). *)
MarkCandidate(p) ==
    /\ GuardAt(p, "mark")
    /\ \/ markers' = markers \cup {Me(p)} /\ GuardGoto(p, "claim")
       \/ GuardFaults /\ UNCHANGED markers /\ GuardGoto(p, "tidy")
    /\ UNCHANGED <<guardAlive, calls, seen, candidates, guardExists, guardEntries>>

(* renameSync(candidate, guard): the directory moves with what it holds. *)
RenameOntoGuard(p) ==
    /\ guardEntries = {}
    /\ guardExists' = TRUE
    /\ guardEntries' = {Me(p)} \cap markers
    /\ candidates' = candidates \ {Me(p)}
    /\ markers' = markers \ {Me(p)}

(* The first rename; EEXIST or ENOTEMPTY leads to the dead-owner check, any *)
(* other error propagates.                                                  *)
Claim(p) ==
    /\ GuardAt(p, "claim")
    /\ \/ RenameOntoGuard(p) /\ GuardGoto(p, "body")
       \/ guardEntries # {} /\ GuardGoto(p, "list") /\ UNCHANGED files
       \/ GuardFaults /\ GuardGoto(p, "tidy") /\ UNCHANGED files
    /\ UNCHANGED <<guardAlive, calls, seen>>

(* reclaimDeadGuard: readdirSync(guard) must list exactly one owner. *)
ListGuard(p) ==
    /\ GuardAt(p, "list")
    /\ \/ \E o \in guardEntries :
             /\ guardEntries = {o}
             /\ See(p, o)
             /\ GuardGoto(p, "kill")
       \/ Cardinality(guardEntries) # 1 /\ GuardGoto(p, "reclaim") /\ UNCHANGED seen
    /\ UNCHANGED <<guardAlive, calls, files>>

(* Mutated CheckOwner: no owner counts as dead. *)
CheckOwnerNeverDead(p) ==
    /\ GuardAt(p, "kill")
    /\ GuardGoto(p, "reclaim")
    /\ See(p, NoOwner)
    /\ UNCHANGED <<guardAlive, calls, files>>

(* process.kill(pid, 0) on the listed owner. *)
CheckOwner(p) ==
    /\ GuardAt(p, "kill")
    /\ \/ DeadOwner(seen[p]) /\ GuardGoto(p, "unlink") /\ UNCHANGED seen
       \/ ~DeadOwner(seen[p]) /\ GuardGoto(p, "reclaim") /\ See(p, NoOwner)
    /\ UNCHANGED <<guardAlive, calls, files>>

(* Mutated UnlinkDead: the whole guard is emptied, or whatever carries the    *)
(* dead process id is removed.                                               *)
UnlinkDeadEverything(p) ==
    /\ GuardAt(p, "unlink")
    /\ guardEntries' = {}
    /\ GuardGoto(p, "rmdir")
    /\ See(p, NoOwner)
    /\ UNCHANGED <<guardAlive, calls, candidates, markers, guardExists>>

UnlinkDeadByPid(p) ==
    /\ GuardAt(p, "unlink")
    /\ guardEntries' = {o \in guardEntries : o[1] # seen[p][1]}
    /\ GuardGoto(p, "rmdir")
    /\ See(p, NoOwner)
    /\ UNCHANGED <<guardAlive, calls, candidates, markers, guardExists>>

(* discardGuard on a dead owner: unlinkSync(join(guard, owner)); a missing   *)
(* file ends the discard.                                                    *)
UnlinkDead(p) ==
    /\ GuardAt(p, "unlink")
    /\ \/ /\ seen[p] \in guardEntries
          /\ guardEntries' = guardEntries \ {seen[p]}
          /\ GuardGoto(p, "rmdir")
       \/ /\ seen[p] \notin guardEntries \/ GuardFaults
          /\ UNCHANGED guardEntries
          /\ GuardGoto(p, "reclaim")
    /\ See(p, NoOwner)
    /\ UNCHANGED <<guardAlive, calls, candidates, markers, guardExists>>

(* rmdirSync(guard): only an empty directory goes; a failure is ignored. *)
RemoveEmptyGuard == guardExists' = (guardExists /\ guardEntries # {})

RmdirDead(p) ==
    /\ GuardAt(p, "rmdir")
    /\ RemoveEmptyGuard
    /\ GuardGoto(p, "reclaim")
    /\ UNCHANGED <<guardAlive, calls, seen, candidates, markers, guardEntries>>

(* Mutated Reclaim: a busy guard returns without the `finally`. *)
ReclaimKeepsCandidate(p) ==
    /\ GuardAt(p, "reclaim")
    /\ \/ RenameOntoGuard(p) /\ GuardGoto(p, "body")
       \/ guardEntries # {} /\ GuardGoto(p, "idle") /\ UNCHANGED files
    /\ UNCHANGED <<guardAlive, calls, seen>>

(* The second and last rename; still refused means the guard is busy. *)
Reclaim(p) ==
    /\ GuardAt(p, "reclaim")
    /\ \/ RenameOntoGuard(p) /\ GuardGoto(p, "body")
       \/ guardEntries # {} /\ GuardGoto(p, "tidy") /\ UNCHANGED files
       \/ GuardFaults /\ GuardGoto(p, "tidy") /\ UNCHANGED files
    /\ UNCHANGED <<guardAlive, calls, seen>>

(* fn() returned or threw; `finally` starts. *)
GuardEndBody(p) ==
    /\ GuardAt(p, "body")
    /\ GuardGoto(p, "discard")
    /\ UNCHANGED <<guardAlive, calls, seen, files>>

(* discardGuard on the caller's own marker. *)
Discard(p) ==
    /\ GuardAt(p, "discard")
    /\ \/ /\ Me(p) \in guardEntries
          /\ guardEntries' = guardEntries \ {Me(p)}
          /\ GuardGoto(p, "discardRmdir")
       \/ /\ Me(p) \notin guardEntries \/ GuardFaults
          /\ UNCHANGED guardEntries
          /\ GuardGoto(p, "idle")
    /\ UNCHANGED <<guardAlive, calls, seen, candidates, markers, guardExists>>

DiscardRmdir(p) ==
    /\ GuardAt(p, "discardRmdir")
    /\ RemoveEmptyGuard
    /\ GuardGoto(p, "idle")
    /\ UNCHANGED <<guardAlive, calls, seen, candidates, markers, guardEntries>>

(* The `finally` of a call that never claimed: its candidate goes. *)
TidyMarker(p) ==
    /\ GuardAt(p, "tidy")
    /\ \/ markers' = markers \ {Me(p)}
       \/ GuardFaults /\ UNCHANGED markers
    /\ GuardGoto(p, "tidyRmdir")
    /\ UNCHANGED <<guardAlive, calls, seen, candidates, guardExists, guardEntries>>

TidyCandidate(p) ==
    /\ GuardAt(p, "tidyRmdir")
    /\ candidates' = IF Me(p) \in markers THEN candidates ELSE candidates \ {Me(p)}
    /\ GuardGoto(p, "idle")
    /\ UNCHANGED <<guardAlive, calls, seen, markers, guardExists, guardEntries>>

-------------------------------------------------------------------------------
(* removeDeadLockCandidate: prune checks the owner in the candidate's name.  *)
PruneCheck(p) ==
    /\ GuardAt(p, "idle")
    /\ \E o \in candidates :
          /\ DeadOwner(o)
          /\ See(p, o)
    /\ GuardGoto(p, "pruneUnlink")
    /\ UNCHANGED <<guardAlive, calls, files>>

(* The listing and the unlink; a marker that vanished between the two (ENOENT) *)
(* ends the sweep of this candidate.                                           *)
PruneUnlink(p) ==
    /\ GuardAt(p, "pruneUnlink")
    /\ markers' = markers \ {seen[p]}
    /\ \/ GuardGoto(p, "pruneRmdir") /\ UNCHANGED seen
       \/ seen[p] \notin markers /\ GuardGoto(p, "idle") /\ See(p, NoOwner)
    /\ UNCHANGED <<guardAlive, calls, candidates, guardExists, guardEntries>>

PruneRmdir(p) ==
    /\ GuardAt(p, "pruneRmdir")
    /\ candidates' = IF seen[p] \in markers THEN candidates ELSE candidates \ {seen[p]}
    /\ GuardGoto(p, "idle")
    /\ See(p, NoOwner)
    /\ UNCHANGED <<guardAlive, calls, markers, guardExists, guardEntries>>

-------------------------------------------------------------------------------
(* The process dies between two system calls; only its files stay. *)
GuardCrash(p) ==
    /\ p \in guardAlive
    /\ guardAlive' = guardAlive \ {p}
    /\ GuardGoto(p, "idle")
    /\ See(p, NoOwner)
    /\ UNCHANGED <<calls, files>>

(* The system gives the process id to a new process. *)
ReusePid(p) ==
    /\ p \notin guardAlive
    /\ guardAlive' = guardAlive \cup {p}
    /\ UNCHANGED <<calls, guardPc, seen, files>>

GuardCallStep(p) ==
    \/ MarkCandidate(p) \/ Claim(p) \/ ListGuard(p) \/ CheckOwner(p)
    \/ UnlinkDead(p) \/ RmdirDead(p) \/ Reclaim(p) \/ GuardEndBody(p)
    \/ Discard(p) \/ DiscardRmdir(p) \/ TidyMarker(p) \/ TidyCandidate(p)

PruneStep(p) == PruneCheck(p) \/ PruneUnlink(p) \/ PruneRmdir(p)

GuardNext == \E p \in Pid :
    MakeCandidate(p) \/ GuardCallStep(p) \/ PruneStep(p) \/ GuardCrash(p) \/ ReusePid(p)

GuardSpec == GuardInit /\ [][GuardNext]_guardVars

(* A running process gets to its next system call, and the callbacks of      *)
(* withLockMutation are a handful of such calls themselves.                  *)
GuardFairness == \A p \in Pid : WF_guardVars(GuardCallStep(p))

-------------------------------------------------------------------------------
GuardTypeOK ==
    /\ guardAlive \subseteq Pid
    /\ calls \in [Pid -> Nat]
    /\ guardPc \in [Pid -> GuardSteps]
    /\ seen \in [Pid -> Owner \cup {NoOwner}]
    /\ candidates \subseteq Owner
    /\ markers \subseteq Owner
    /\ guardExists \in BOOLEAN
    /\ guardEntries \subseteq Owner

(* The promise of withLockMutation: "serializes lock-name creation,          *)
(* reclamation and release".                                                 *)
GuardExclusive == \A p, q \in Pid : InBody(p) /\ InBody(q) => p = q

(* "A delayed recovery cannot remove a successor": a marker leaves the guard *)
(* by the discard of its own live call, or because its process died at some  *)
(* point after it was placed there; never under a call still running.        *)
LiveMarkerKept ==
    [][\A p \in Pid :
         (InBody(p) /\ Me(p) \in guardEntries /\ InBody(p)') => Me(p) \in guardEntries']_guardVars

(* A call that returns in a live process leaves neither its candidate         *)
(* directory nor its marker in the guard behind (`finally`), so the guard is   *)
(* held only by running calls and by processes that died in one.  A failing    *)
(* file system call voids this: the `catch` blocks are best effort.            *)
NothingLeftBehind ==
    [][\A p \in Pid :
         (~GuardFaults /\ InCall(p) /\ p \in guardAlive' /\ guardPc'[p] \in Outside) =>
             Me(p) \notin candidates' \cup markers' \cup guardEntries']_guardVars

(* A caller that was refused the guard gets rid of a dead owner's marker: a    *)
(* crash inside the guard does not wedge the lock, unless the process id is    *)
(* taken again or the caller dies as well.                                     *)
DeadGuardReclaimed ==
    \A p, q \in Pid : \A n \in 1..MaxCalls :
        (GuardAt(q, "list") /\ p \notin guardAlive /\ <<p, n>> \in guardEntries)
            ~> (<<p, n>> \notin guardEntries \/ p \in guardAlive \/ q \notin guardAlive)

(* The promise as an abstract specification: see GuardMutex.                   *)
Mutex == INSTANCE GuardMutex WITH Proc <- Pid, inside <- {p \in Pid : InBody(p)}
MutexSpec == Mutex!Spec
===============================================================================
