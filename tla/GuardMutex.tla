------------------------------ MODULE GuardMutex ------------------------------
(***************************************************************************)
(* What `withLockMutation` (src/src/claude/atomic.ts) promises its callers: *)
(* the callbacks of all processes that mutate one lock name run one at a    *)
(* time.  A process stops being inside when its callback returns or when    *)
(* the process dies; nobody else can put it out.                            *)
(***************************************************************************)
CONSTANT Proc       \* process ids

VARIABLE inside     \* the live processes whose callback is running

Init == inside = {}

(* The guard is granted only while nobody is inside. *)
Enter(p) ==
    /\ inside = {}
    /\ inside' = {p}

(* The callback returned or threw, or its process died. *)
Leave(p) ==
    /\ p \in inside
    /\ inside' = inside \ {p}

Next == \E p \in Proc : Enter(p) \/ Leave(p)

Spec == Init /\ [][Next]_inside
===============================================================================
