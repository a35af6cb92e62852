----------------------------- MODULE HeadlessJobs -----------------------------
(***************************************************************************)
(* The server's planning jobs (engine/headless.ts): one job per session, from *)
(* start over metered model calls to the one outcome that is kept in a file,  *)
(* with a time limit, shutdown, and the recovery of a restarted process.      *)
(*                                                                         *)
(* `file` is the job file of a session and survives the process.  `mem` does  *)
(* not: the jobs map, the job objects (which a plan that still runs keeps     *)
(* after the map dropped them), the settled jobs that could not be written,   *)
(* the plan slots and the closed flag.                                       *)
(*                                                                         *)
(* The run row that mirrors a job ("bookkeeping only": written, never read)   *)
(* and the ledger rows are left out: a reservation is granted, or refused by  *)
(* a ceiling or a broken ledger.  Of an outcome that is not "planned" only    *)
(* the cause is kept: "unplanned" stands for invalid, skipped and the         *)
(* engine's own errors.                                                      *)
(***************************************************************************)
EXTENDS Naturals, FiniteSets, SequencesExt

CONSTANTS
    Session,             \* session ids
    Admitted,            \* those whose request carries an admission
    ClassOf,             \* session -> class of that admission
    PrincipalOf,         \* session -> principal of that admission
    MaxConcurrentPlans,
    UnpersistedMax,      \* UNPERSISTED_JOBS_MAX
    Faults               \* whether writing a job file may fail

ASSUME HeadlessJobsAssumption ==
    MaxConcurrentPlans \in Nat /\ UnpersistedMax \in Nat /\ Faults \in BOOLEAN

VARIABLES file, mem

Slots == INSTANCE FairShare WITH
             Request <- Session,
             Capacity <- MaxConcurrentPlans,
             Reserve <- IF MaxConcurrentPlans >= 2 THEN 1 ELSE 0,
             PerPrincipalMax <- (MaxConcurrentPlans + 1) \div 2,
             Depth <- 0

Aborts == {"timeout", "shutdown", "unreserved"}
Outcomes == {"planned", "unplanned", "timeout", "interrupted", "unreserved"}

NoJob == [status |-> "none", settled |-> TRUE, reason |-> "none", plan |-> "ended"]
NewJob == [status |-> "running", settled |-> FALSE, reason |-> "none", plan |-> "thinking"]

FreshMemory == [jobs |-> {}, job |-> [s \in Session |-> NoJob], unpersisted |-> <<>>,
                pool |-> Slots!EmptyPool, closed |-> FALSE, stopping |-> {}]

InitJobs ==
    /\ file = [s \in Session |-> "none"]
    /\ mem = FreshMemory

Job(s) == mem.job[s]
Running == {s \in mem.jobs : ~Job(s).settled}

(* jobs.get(id) ?? readJobFile(id): what start, result and status answer from. *)
Shown(s) == IF s \in mem.jobs THEN Job(s).status ELSE file[s]

(* Of the writes for S, those that succeed.                                  *)
WriteSets(S) == IF Faults THEN SUBSET S ELSE {S}

-------------------------------------------------------------------------------
Unslot(m, s) == IF s \in Admitted THEN [m EXCEPT !.pool = Slots!ReleaseSlot(@, s)] ELSE m

\* retainUnpersisted: served from memory, the oldest beyond the bound are dropped.
Keep(m, s) ==
    IF Len(m.unpersisted) < UnpersistedMax
    THEN [m EXCEPT !.unpersisted = Append(@, s)]
    ELSE [m EXCEPT !.unpersisted = Tail(Append(@, s)),
                   !.jobs = @ \ {Head(Append(m.unpersisted, s))}]

(* The object of a job that no plan and no map refers to is gone.            *)
Forget(m, s) ==
    IF s \in m.jobs \/ m.job[s].plan # "ended" THEN m ELSE [m EXCEPT !.job[s] = NoJob]

\* Mutated Unsettled: an outcome that is there is overwritten.
UnsettledAny(S) == S

Unsettled(S) == {s \in S : ~Job(s).settled}

\* finalize, of an unsettled job: a job that was written leaves the map.
Finalize(m, s, o, written) ==
    LET settled == [Unslot(m, s) EXCEPT !.job[s].settled = TRUE, !.job[s].status = o]
    IN  IF s \in written THEN [settled EXCEPT !.jobs = @ \ {s}] ELSE Keep(settled, s)

Persist(S, o) == file' = [s \in Session |-> IF s \in S THEN o ELSE file[s]]

Abort(m, S, reason) ==
    [m EXCEPT !.job = [s \in Session |->
        IF s \in S /\ @[s].reason = "none" THEN [@[s] EXCEPT !.reason = reason] ELSE @[s]]]

-------------------------------------------------------------------------------
(* start, as far as it changes anything: a session that has a job or a file   *)
(* joins it or conflicts with it, a full planner answers busy, and a start    *)
(* whose file is refused gives its slot back.                                *)
Start(s) ==
    /\ ~mem.closed
    /\ s \notin mem.jobs /\ file[s] = "none"
    /\ Cardinality(Running) < MaxConcurrentPlans
    /\ s \in Admitted => ~Slots!Blocked(mem.pool, s)
    /\ file' = [file EXCEPT ![s] = "running"]
    /\ mem' = [mem EXCEPT !.jobs = @ \cup {s}, !.job[s] = NewJob,
                          !.pool = IF s \in Admitted THEN Slots!Take(@, s) ELSE @]

\* Mutated BeginCall: a plan that was aborted goes on.
BeginCallAnyway(s) ==
    /\ Job(s).plan = "thinking"
    /\ mem' = [mem EXCEPT !.job[s].plan = "calling"]
    /\ UNCHANGED file

(* meteredCompleter: a call is reserved; a refusal aborts the whole job.      *)
BeginCall(s) ==
    /\ Job(s).plan = "thinking" /\ Job(s).reason = "none"
    /\ \/ mem' = [mem EXCEPT !.job[s].plan = "calling"]
       \/ mem' = Abort(mem, {s}, "unreserved")
    /\ UNCHANGED file

(* The model answers, fails or notices the abort; settle or abandon.         *)
EndCall(s) ==
    /\ Job(s).plan = "calling"
    /\ mem' = [mem EXCEPT !.job[s].plan = "thinking"]
    /\ UNCHANGED file

AbortOutcome(reason) == IF reason = "shutdown" THEN "interrupted" ELSE reason

\* judge and the catch of execute: the reason of an abort is the outcome.
Judge(s) ==
    IF Job(s).reason # "none" THEN {AbortOutcome(Job(s).reason)}
    ELSE {"planned", "unplanned"}

(* planPrompt returns or throws; execute judges and finalizes.               *)
EndPlan(s) ==
    /\ Job(s).plan = "thinking"
    /\ LET ended == [mem EXCEPT !.job[s].plan = "ended"]
       IN  IF Unsettled({s}) = {}
           THEN mem' = Forget(ended, s) /\ UNCHANGED file
           ELSE \E o \in Judge(s), written \in WriteSets({s}) :
                   /\ mem' = Forget(Finalize(ended, s, o, written), s)
                   /\ Persist(written, o)

(* planTimeoutMs is over.                                                    *)
TimeOut(s) ==
    /\ Job(s).plan # "ended" /\ ~Job(s).settled /\ Job(s).reason = "none"
    /\ mem' = Abort(mem, {s}, "timeout")
    /\ UNCHANGED file

(* shutdown, up to its wait: no more starts, every running job is aborted.   *)
BeginShutdown ==
    /\ mem' = [Abort(mem, Running, "shutdown") EXCEPT !.closed = TRUE, !.stopping = Running]
    /\ UNCHANGED file

(* shutdown, after its wait: whatever has not ended is finalized, one job      *)
(* after the other.                                                          *)
EndShutdown ==
    \E order \in SetToSeqs(Unsettled(mem.stopping)),
       written \in WriteSets(Unsettled(mem.stopping)) :
        LET after[n \in 0..Len(order)] ==
                IF n = 0 THEN mem ELSE Finalize(after[n - 1], order[n], "interrupted", written)
        IN  /\ mem' = after[Len(order)]
            /\ Persist(written, "interrupted")

\* Mutated Interrupted: every job of the previous process is marked.
InterruptedAny == {s \in Session : file[s] # "none"}

Interrupted == {s \in Session : file[s] = "running"}

(* A new process: recoverInterrupted marks what the previous one left running. *)
Restart ==
    /\ \E written \in WriteSets(Interrupted) : Persist(written, "interrupted")
    /\ mem' = FreshMemory

(* The retention sweep removes the old file of a job that is not running.    *)
SweepJob(s) ==
    /\ file[s] \in Outcomes
    /\ file' = [file EXCEPT ![s] = "none"]
    /\ UNCHANGED mem

JobStep(s) == Start(s) \/ BeginCall(s) \/ EndCall(s) \/ EndPlan(s) \/ TimeOut(s) \/ SweepJob(s)
-------------------------------------------------------------------------------
JobsTypeOK ==
    /\ file \in [Session -> {"none", "running"} \cup Outcomes]
    /\ mem.jobs \subseteq Session /\ mem.stopping \subseteq Session /\ mem.closed \in BOOLEAN
    /\ mem.job \in [Session -> [status : {"none", "running"} \cup Outcomes, settled : BOOLEAN,
                                reason : {"none"} \cup Aborts,
                                plan : {"thinking", "calling", "ended"}]]
    /\ mem.unpersisted \in Seq(Session) /\ Len(mem.unpersisted) <= UnpersistedMax

(* A slot is held by exactly the running jobs of admitted requests, and the   *)
(* planner never runs more plans than it may: finalize, which a plan's end,   *)
(* its time limit and shutdown race for, gives a slot back once.             *)
SlotsMatchJobs ==
    LET holders == {s \in Session \cap Admitted : ~Job(s).settled}
    IN  /\ mem.pool.held = Cardinality(holders)
        /\ \A p \in Slots!Principal :
              mem.pool.byPrincipal[p] = Cardinality({s \in holders : PrincipalOf[s] = p})
        /\ Cardinality({s \in Session : ~Job(s).settled}) <= MaxConcurrentPlans

(* What a client was told of a job's end stands, over late plans, shutdown,   *)
(* restarts and sweeps, until the file is swept.  Only of a job whose file    *)
(* could not be written it may be told otherwise: the oldest ones, while      *)
(* UnpersistedMax later ones are kept, and all of them after a restart.       *)
Crowded(s) ==
    /\ Len(mem'.unpersisted) = UnpersistedMax
    /\ \E i \in DOMAIN mem.unpersisted :
          /\ mem.unpersisted[i] = s
          /\ \A j \in 1..i : mem.unpersisted[j] \notin ToSet(mem'.unpersisted)

AnswersStand ==
    [][\A s \in Session : Shown(s) \in Outcomes =>
          \/ Shown(s)' \in {Shown(s), "none"}
          \/ s \in ToSet(mem.unpersisted) /\ (mem' = FreshMemory \/ Crowded(s))]_<<file, mem>>
===============================================================================
