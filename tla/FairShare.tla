------------------------------- MODULE FairShare -------------------------------
(***************************************************************************)
(* The weighted admission pool of obs/fair-share.ts, as functions of its      *)
(* state pool = [held, byPrincipal, waiting].  All its operations are         *)
(* synchronous; the modules that use the pool decide when they happen.        *)
(* Which of the three budget rules refused is only reported, so Blocked joins *)
(* them.                                                                    *)
(***************************************************************************)
EXTENDS Naturals, FiniteSets, SequencesExt

CONSTANTS
    Request,         \* who asks for slots; one admission each at a time
    ClassOf,         \* request -> "owner", "connector" or "bearer"
    PrincipalOf,     \* request -> principal
    Capacity,        \* total slots
    Reserve,         \* slots kept for the owner
    PerPrincipalMax, \* slots of one principal that is not the owner
    Depth            \* waiting admissions per class

ClassOrder == <<"owner", "connector", "bearer">>
Principal == {PrincipalOf[r] : r \in Request}

EmptyPool == [held |-> 0,
              byPrincipal |-> [p \in Principal |-> 0],
              waiting |-> [cls \in ToSet(ClassOrder) |-> <<>>]]

Owner(r) == ClassOf[r] = "owner"

\* Mutated Blocked: the reserve is one slot too small.
BlockedOneLate(pool, r) ==
    \/ pool.held >= Capacity
    \/ ~Owner(r) /\ pool.held > Capacity - Reserve
    \/ ~Owner(r) /\ pool.byPrincipal[PrincipalOf[r]] >= PerPrincipalMax

\* r does not fit the budget right now.
Blocked(pool, r) ==
    \/ pool.held >= Capacity
    \/ ~Owner(r) /\ pool.held >= Capacity - Reserve
    \/ ~Owner(r) /\ pool.byPrincipal[PrincipalOf[r]] >= PerPrincipalMax

Take(pool, r) == [pool EXCEPT !.held = @ + 1, !.byPrincipal[PrincipalOf[r]] = @ + 1]

Free(pool, r) == [pool EXCEPT !.held = @ - 1, !.byPrincipal[PrincipalOf[r]] = @ - 1]

Heads(pool) == {Head(line) : line \in {pool.waiting[cls] : cls \in ToSet(ClassOrder)} \ {<<>>}}

Queued(pool) == UNION {ToSet(pool.waiting[cls]) : cls \in ToSet(ClassOrder)}

QueueFull(pool, r) == Len(pool.waiting[ClassOf[r]]) >= Depth

JoinQueue(pool, r) == [pool EXCEPT !.waiting[ClassOf[r]] = Append(@, r)]

LeaveQueue(pool, r) ==
    LET line == pool.waiting[ClassOf[r]]
        index == CHOOSE i \in DOMAIN line : line[i] = r
    IN  [pool EXCEPT !.waiting[ClassOf[r]] = RemoveAt(line, index)]

\* The ranks of the classes whose head fits.
Fitting(pool) ==
    {i \in DOMAIN ClassOrder :
        LET line == pool.waiting[ClassOrder[i]]
        IN  line # <<>> /\ ~Blocked(pool, Head(line))}

\* The head of a class leaves its line and takes a slot.
GrantHead(pool, cls) ==
    Take([pool EXCEPT !.waiting[cls] = Tail(@)], Head(pool.waiting[cls]))

\* Mutated GrantNext: the lowest class goes first.
GrantNextLowest(pool) ==
    IF Fitting(pool) = {} THEN pool ELSE GrantHead(pool, ClassOrder[Max(Fitting(pool))])

\* The head of the highest class whose head fits takes a slot, if there is one.
GrantNext(pool) ==
    IF Fitting(pool) = {} THEN pool ELSE GrantHead(pool, ClassOrder[Min(Fitting(pool))])

\* Again and again until none fits: no more often than admissions wait.  The pool
\* after a number of rounds is kept as a set of one, so that TLC evaluates it once.
AdmitWaiters(pool) ==
    LET rounds == Cardinality(Queued(pool))
        after[n \in 0..rounds] ==
            IF n = 0 THEN {pool} ELSE {GrantNext(p) : p \in after[n - 1]}
    IN  CHOOSE p \in after[rounds] : TRUE

\* Mutated ReleaseSlot: nobody is woken.
ReleaseSlotQuietly(pool, r) == Free(pool, r)

\* The release function of a slot; a second call is stopped by `released`.
ReleaseSlot(pool, r) == AdmitWaiters(Free(pool, r))

\* Mutated EndWait: the head that follows is not looked at.
EndWaitQuietly(pool, r) == LeaveQueue(pool, r)

\* An expired or aborted wait.
EndWait(pool, r) == AdmitWaiters(LeaveQueue(pool, r))
===============================================================================
