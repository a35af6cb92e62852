----------------------------- MODULE HttpAdmission -----------------------------
(***************************************************************************)
(* How the router bounds its work: every gated request holds a slot of the    *)
(* outer limit (createInflight) from arrival to answer, and a request that    *)
(* runs a tool or a prompt also a slot of the fair-share pool.  A request     *)
(* that waits for the pool gives its outer slot back and needs a new one when *)
(* it is woken.  Both limits are config.maxInflight.                         *)
(*                                                                          *)
(* Code between two awaits is one action.  A waiter whose promise was         *)
(* resolved goes on before the next event of the loop, so arrivals, timers    *)
(* and aborts happen only when nobody is woken.                              *)
(***************************************************************************)
EXTENDS FairShare

VARIABLES
    stage,    \* where each request is
    inflight, \* count of the outer limit
    pool      \* the fair-share pool

ASSUME AdmissionAssumption ==
    /\ ClassOf \in [Request -> {"owner", "connector", "bearer"}]
    /\ PrincipalOf \in [Request -> Principal]
    /\ Capacity \in Nat \ {0} /\ Reserve \in 0..(Capacity - 1)
    /\ PerPrincipalMax \in 1..Capacity /\ Depth \in Nat

admissionVars == <<stage, inflight, pool>>

\* arrived: read and authenticated, holds an outer slot only
\* waiting: in the queue of its class, holds nothing
\* woken:   was handed a pool slot and has not run since
\* working: holds both
Stages == {"idle", "arrived", "waiting", "woken", "working"}

In(stages) == {r \in Request : stage[r] \in stages}

AdmissionTypeOK ==
    /\ stage \in [Request -> Stages]
    /\ inflight \in 0..Capacity
    /\ pool \in [held : 0..Capacity, byPrincipal : [Principal -> 0..Capacity],
                 waiting : [ToSet(ClassOrder) -> Seq(Request)]]
    /\ \A cls \in ToSet(ClassOrder) : Len(pool.waiting[cls]) <= Depth

AdmissionInit ==
    /\ stage = [r \in Request |-> "idle"]
    /\ inflight = 0
    /\ pool = EmptyPool

-------------------------------------------------------------------------------
\* r moves on and the pool becomes `next`, which wakes those who left its queues.
Move(r, to, next) ==
    /\ pool' = next
    /\ stage' = [q \in Request |->
                    IF q = r THEN to
                    ELSE IF q \in Queued(pool) \ Queued(next) THEN "woken"
                    ELSE stage[q]]

NobodyWoken == In({"woken"}) = {}

\* A full service answers 503 at once and nothing changes.
Enter(r) ==
    /\ stage[r] = "idle"
    /\ NobodyWoken
    /\ inflight < Capacity
    /\ inflight' = inflight + 1
    /\ Move(r, "arrived", pool)

\* Answered without the pool: another method, an error, a caller who is gone.
AnswerUnpooled(r) ==
    /\ stage[r] = "arrived"
    /\ inflight' = inflight - 1
    /\ Move(r, "idle", pool)

\* admit: a slot at once, a full queue (429), or a place in it.  onWait gives the
\* outer slot back; answering does so in the end too.
Admit(r) ==
    /\ stage[r] = "arrived"
    /\ \/ /\ ~Blocked(pool, r)
          /\ inflight' = inflight
          /\ Move(r, "working", Take(pool, r))
       \/ /\ Blocked(pool, r)
          /\ QueueFull(pool, r)
          /\ inflight' = inflight - 1
          /\ Move(r, "idle", pool)
       \/ /\ Blocked(pool, r)
          /\ ~QueueFull(pool, r)
          /\ inflight' = inflight - 1
          /\ Move(r, "waiting", JoinQueue(pool, r))

\* The wait expired, or the caller aborted it.
GiveUp(r) ==
    /\ stage[r] = "waiting"
    /\ NobodyWoken
    /\ inflight' = inflight
    /\ Move(r, "idle", EndWait(pool, r))

\* Mutated Reenter: an overloaded request forgets its grant.
ReenterKeepsGrant(r) ==
    /\ stage[r] = "woken"
    /\ \/ /\ inflight < Capacity
          /\ inflight' = inflight + 1
          /\ Move(r, "working", pool)
       \/ /\ inflight >= Capacity
          /\ inflight' = inflight
          /\ Move(r, "idle", pool)

\* A woken request takes an outer slot again, or returns its grant (503).
Reenter(r) ==
    /\ stage[r] = "woken"
    /\ \/ /\ inflight < Capacity
          /\ inflight' = inflight + 1
          /\ Move(r, "working", pool)
       \/ /\ inflight >= Capacity
          /\ inflight' = inflight
          /\ Move(r, "idle", ReleaseSlot(pool, r))

\* The work is done or has thrown: outer slot first, then the pool slot.
Finish(r) ==
    /\ stage[r] = "working"
    /\ inflight' = inflight - 1
    /\ Move(r, "idle", ReleaseSlot(pool, r))

AdmissionNext ==
    \E r \in Request :
        Enter(r) \/ AnswerUnpooled(r) \/ Admit(r) \/ GiveUp(r) \/ Reenter(r) \/ Finish(r)

AdmissionSpec == AdmissionInit /\ [][AdmissionNext]_admissionVars

\* Some work under way ends and some woken request runs.  No wait is assumed to
\* expire.
AdmissionFairness ==
    /\ WF_admissionVars(\E r \in Request : Finish(r))
    /\ WF_admissionVars(\E r \in Request : Reenter(r))

-------------------------------------------------------------------------------
Holders == In({"woken", "working"})

\* No slot is lost or given back twice: both counters agree with the requests that
\* hold slots, whichever of finishing, expiring, aborting and overload ends them.
SlotsCounted ==
    /\ inflight = Cardinality(In({"arrived", "working"}))
    /\ pool.held = Cardinality(Holders)
    /\ \A p \in Principal :
          pool.byPrincipal[p] = Cardinality({r \in Holders : PrincipalOf[r] = p})
    /\ Queued(pool) = In({"waiting"})

\* "connector and bearer may not take the last `reserve` slots and may not hold
\* more than `perPrincipalMax` slots per principal", by whichever way they came.
SharesKept ==
    LET others == {r \in Holders : ~Owner(r)}
    IN  /\ Cardinality(others) <= Capacity - Reserve
        /\ \A p \in Principal :
              Cardinality({r \in others : PrincipalOf[r] = p}) <= PerPrincipalMax

\* No slot lies idle while the head of a queue could have it: whatever frees a slot
\* or changes a head hands the slot over in the same step (admitWaiters).
NoFittingHeadWaits == \A r \in Heads(pool) : Blocked(pool, r)

Before(r, w) ==
    /\ ClassOf[r] = ClassOf[w]
    /\ \E i, j \in DOMAIN pool.waiting[ClassOf[w]] :
          i < j /\ pool.waiting[ClassOf[w]][i] = r /\ pool.waiting[ClassOf[w]][j] = w

Rank(r) == CHOOSE i \in DOMAIN ClassOrder : ClassOrder[i] = ClassOf[r]

\* "A waiter is granted in arrival order within its class", and none is granted a
\* slot that the head of a higher class could have used instead.
GrantedInTurn ==
    [][\A w \in Request :
          stage[w] = "waiting" /\ stage'[w] = "woken" =>
             /\ \A r \in In({"waiting"}) : Before(r, w) => stage'[r] # "waiting"
             /\ \A r \in Heads(pool') : Rank(r) < Rank(w) => Blocked(Free(pool', w), r)]_admissionVars

\* The owner is never starved, however long other callers keep coming.
OwnerServed ==
    \A r \in Request : Owner(r) => (stage[r] = "waiting" ~> stage[r] # "waiting")
===============================================================================
