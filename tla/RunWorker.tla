------------------------------- MODULE RunWorker -------------------------------
(***************************************************************************)
(* The leased run worker of the connector service: `createWorker` and       *)
(* `answerDecision` of services/ultrathink/worker/worker.ts over the store  *)
(* (store/store.ts) and the token ledger (cost/ledger.ts).                  *)
(*                                                                          *)
(* Workers in several processes share one SQLite file.  Each action is one  *)
(* transaction or one read, so everything a worker keeps in memory between  *)
(* two of them may be stale.  A lease row names the worker of a run; it is   *)
(* renewed on a heartbeat, it can expire under a worker that is suspended,   *)
(* and it survives the death of its holder until it expires.                *)
(***************************************************************************)
EXTENDS Integers, FiniteSets, FiniteSetsExt

CONSTANTS
    Worker,         \* lease holders
    Run,            \* runs, numbered in the order claimNext takes them
    NumPhases,      \* PHASES (four in the code)
    Estimate,       \* estimated tokens of one model call
    Actual,         \* tokens a provider may report
    RunCeiling,     \* runTokenCeiling
    DayCeiling,     \* dailyTokenCeiling
    Faults,         \* whether ledger and artifact writes may fail
    MaxDay,         \* bound: last day
    MaxLapses,      \* bound: times a lease expires under a live worker
    MaxCrashes      \* bound: worker deaths

NoWorker == "no worker"

ASSUME WorkerAssumption ==
    /\ NoWorker \notin Worker
    /\ Run \subseteq Nat /\ NumPhases \in Nat \ {0}
    /\ Estimate \in Nat \ {0} /\ Actual \subseteq Nat
    /\ RunCeiling \in Nat /\ DayCeiling \in Nat /\ Faults \in BOOLEAN
    /\ MaxDay \in Nat /\ MaxLapses \in Nat /\ MaxCrashes \in Nat

Phase == 1..NumPhases
NoRun == -1

VARIABLES
    status,         \* runs.status; "none" before createRun, "running" for the phase statuses
    phases,         \* complete rows of the phases table: <<run, phase, attempt>>
    decisions,      \* rows of the decisions table
    ledger,         \* rows of the token_ledger table
    lease,          \* run_leases: holder and whether expires_at has passed
    artifact,       \* artifact[r][ph]: the attempt whose output the file holds, 0 if none
    day,            \* the UTC day
    tick,           \* tick[w]: what worker w's tickOnce holds in memory
    lapses, crashes \* bounds only

db == <<status, phases, decisions, ledger, lease>>
bounds == <<day, lapses, crashes>>
vars == <<db, artifact, tick, bounds>>

NoTick == [at |-> "idle", run |-> NoRun, outputs |-> {}, attempt |-> 0,
           holds |-> FALSE, dead |-> {}]
Free == [holder |-> NoWorker, expired |-> FALSE]

Init ==
    /\ status = [r \in Run |-> "none"]
    /\ phases = {}
    /\ decisions = {}
    /\ ledger = {}
    /\ lease = [r \in Run |-> Free]
    /\ artifact = [r \in Run |-> [ph \in Phase |-> 0]]
    /\ day = 0
    /\ tick = [w \in Worker |-> NoTick]
    /\ lapses = 0
    /\ crashes = 0

At(w, step) == tick[w].at = step
Goto(w, step) == tick' = [tick EXCEPT ![w].at = step]
MyRun(w) == tick[w].run

(* The first phase this tick has no output for. *)
MyPhase(w) == Min(Phase \ tick[w].outputs)

Pending(r) == {d \in decisions : d.run = r /\ ~d.answered}
PendingIn(r, ph) == {d \in Pending(r) : d.phase = ph}

(* The ledger row of a reservation, while it is in the given state. *)
RowsOf(r, ph, n) == {x \in ledger : x.run = r /\ x.phase = ph /\ x.attempt = n}
MyReserved(w) == {x \in RowsOf(MyRun(w), MyPhase(w), tick[w].attempt) : x.state = "reserved"}
Spent(rows) == MapThenSumSet(LAMBDA x : x.tokens, rows)

(* transition: only a reserved row is settled or abandoned.  A settled row    *)
(* counts what the provider reported, any other its estimate.                 *)
Settle(x, n) == (ledger \ {x}) \cup {[x EXCEPT !.state = "settled", !.tokens = n]}
Abandoned(rows) == (ledger \ rows) \cup {[x EXCEPT !.state = "abandoned"] : x \in rows}

-------------------------------------------------------------------------------
(* store.createRun *)
CreateRun(r) ==
    /\ status[r] = "none"
    /\ status' = [status EXCEPT ![r] = "queued"]
    /\ UNCHANGED <<phases, decisions, ledger, lease, artifact, tick, bounds>>

(* Mutated Claimable: an expired lease is not free. *)
ClaimableOnlyFree(r) ==
    /\ status[r] \in {"queued", "running"}
    /\ lease[r].holder = NoWorker

Claimable(r) ==
    /\ status[r] \in {"queued", "running"}
    /\ lease[r].holder = NoWorker \/ lease[r].expired

(* claimNext, in one IMMEDIATE transaction: the oldest run with a free lease. *)
Claim(w) ==
    /\ At(w, "idle")
    /\ \E r \in Run :
          /\ Claimable(r)
          /\ \A s \in Run : Claimable(s) => r <= s
          /\ lease' = [lease EXCEPT ![r] = [holder |-> w, expired |-> FALSE]]
          /\ tick' = [tick EXCEPT ![w] = [NoTick EXCEPT !.at = "list", !.run = r]]
    /\ UNCHANGED <<status, phases, decisions, ledger, artifact, bounds>>

(* abandonDeadReservations: the list, then one guarded abandon per row. *)
ListDead(w) ==
    /\ At(w, "list")
    /\ tick' = [tick EXCEPT ![w].at = "sweep",
                            ![w].dead = {<<x.phase, x.attempt>> :
                                x \in {y \in ledger : y.run = MyRun(w) /\ y.state = "reserved"}}]
    /\ UNCHANGED <<db, artifact, bounds>>

AbandonDead(w) ==
    /\ At(w, "sweep")
    /\ \E k \in tick[w].dead :
          /\ ledger' = Abandoned({x \in RowsOf(MyRun(w), k[1], k[2]) : x.state = "reserved"})
          /\ tick' = [tick EXCEPT ![w].dead = @ \ {k}]
    /\ UNCHANGED <<status, phases, decisions, lease, artifact, bounds>>

(* A database or artifact write throws (a transaction rolls back): the tick   *)
(* fails and its lease is deleted, or stays when that write fails too.  "threw" *)
(* is "end" on the way of the exception.                                     *)
WriteFails(w) ==
    /\ Faults
    /\ \/ tick[w].at \notin {"idle", "reserve", "end", "threw"} /\ Goto(w, "threw")
       \/ /\ tick[w].at \in {"end", "threw"} /\ lease[MyRun(w)].holder = w
          /\ tick' = [tick EXCEPT ![w] = NoTick]
    /\ UNCHANGED <<db, artifact, bounds>>

(* Mutated ReadOutputs: a restart forgets the completed phases. *)
ReadOutputsForgets(w) ==
    /\ At(w, "sweep")
    /\ tick[w].dead = {}
    /\ tick' = [tick EXCEPT ![w].at = "rebuild"]
    /\ UNCHANGED <<db, artifact, bounds>>

(* completedOutputs *)
ReadOutputs(w) ==
    /\ At(w, "sweep")
    /\ tick[w].dead = {}
    /\ tick' = [tick EXCEPT ![w].at = "rebuild",
                            ![w].outputs = {x[2] : x \in {y \in phases : y[1] = MyRun(w)}}]
    /\ UNCHANGED <<db, artifact, bounds>>

(* The attempt whose output completedOutputs found for a phase. *)
RecordedAttempt(r, ph) == CHOOSE n \in {x[3] : x \in phases} : <<r, ph, n>> \in phases

(* Mutated Rebuild: the file is trusted (BUG-12). *)
RebuildTrustsFile(w) ==
    /\ At(w, "rebuild")
    /\ Goto(w, "phase")
    /\ UNCHANGED <<db, artifact, bounds>>

(* runClaimed: a completed phase's artifact is rewritten when it differs. *)
Rebuild(w) ==
    /\ At(w, "rebuild")
    /\ LET stale == {ph \in tick[w].outputs :
                        artifact[MyRun(w)][ph] # RecordedAttempt(MyRun(w), ph)}
       IN \/ /\ stale = {}
             /\ Goto(w, "phase")
             /\ UNCHANGED artifact
          \/ \E ph \in stale :
                /\ artifact' = [artifact EXCEPT ![MyRun(w)][ph] = RecordedAttempt(MyRun(w), ph)]
                /\ UNCHANGED tick
    /\ UNCHANGED <<db, bounds>>

(* Mutated BeginPhase: a pending question is not looked for, or it ends the   *)
(* tick without the paused status.                                           *)
BeginPhaseAsksAgain(w) ==
    /\ At(w, "phase")
    /\ Goto(w, IF tick[w].outputs = Phase THEN "complete" ELSE "attempt")
    /\ UNCHANGED <<db, artifact, bounds>>

BeginPhaseStaysSilent(w) ==
    /\ At(w, "phase")
    /\ \/ tick[w].outputs = Phase /\ Goto(w, "complete")
       \/ /\ tick[w].outputs # Phase
          /\ Goto(w, IF PendingIn(MyRun(w), MyPhase(w)) # {} THEN "end" ELSE "attempt")
    /\ UNCHANGED <<db, artifact, bounds>>

(* The next phase: finish, or pause on a pending question, or go on. *)
BeginPhase(w) ==
    /\ At(w, "phase")
    /\ \/ tick[w].outputs = Phase /\ Goto(w, "complete")
       \/ /\ tick[w].outputs # Phase
          /\ PendingIn(MyRun(w), MyPhase(w)) # {}
          /\ Goto(w, "paused-for-decision")
       \/ /\ tick[w].outputs # Phase
          /\ PendingIn(MyRun(w), MyPhase(w)) = {}
          /\ Goto(w, "attempt")
    /\ UNCHANGED <<db, artifact, bounds>>

(* nextAttempt *)
NextAttempt(w) ==
    /\ At(w, "attempt")
    /\ LET used == {x.attempt : x \in {y \in ledger : y.run = MyRun(w) /\ y.phase = MyPhase(w)}}
       IN tick' = [tick EXCEPT ![w].at = "reserve", ![w].attempt = Max(used \cup {0}) + 1]
    /\ UNCHANGED <<db, artifact, bounds>>

(* ledger.reserve in one IMMEDIATE transaction: the run ceiling fails the run; *)
(* the daily ceiling, a duplicate attempt and a failing write pause it (the    *)
(* last two surface as LedgerWriteError).                                      *)
ReserveUnless(w, overRun, refused) ==
    /\ At(w, "reserve")
    /\ \/ overRun /\ Goto(w, "failed") /\ UNCHANGED ledger
       \/ /\ ~overRun
          /\ refused \/ Faults
          /\ Goto(w, "paused-for-blocker")
          /\ UNCHANGED ledger
       \/ /\ ~overRun /\ ~refused
          /\ ledger' = ledger \cup
                {[run |-> MyRun(w), phase |-> MyPhase(w), attempt |-> tick[w].attempt,
                  day |-> day, state |-> "reserved", tokens |-> Estimate]}
          /\ tick' = [tick EXCEPT ![w].at = "announce", ![w].holds = TRUE]
    /\ UNCHANGED <<status, phases, decisions, lease, artifact, bounds>>

SpentForRun(r) == Spent({x \in ledger : x.run = r})
SpentForDay(d) == Spent({x \in ledger : x.day = d})
Taken(w) == RowsOf(MyRun(w), MyPhase(w), tick[w].attempt) # {}

(* Mutated Reserve: the daily check leaves out the reservation to be made. *)
ReserveOverDay(w) ==
    ReserveUnless(w, SpentForRun(MyRun(w)) + Estimate > RunCeiling,
                     SpentForDay(day) > DayCeiling \/ Taken(w))

Reserve(w) ==
    ReserveUnless(w, SpentForRun(MyRun(w)) + Estimate > RunCeiling,
                     SpentForDay(day) + Estimate > DayCeiling \/ Taken(w))

(* store.updateRun with the phase's status: no lease is checked here. *)
Announce(w) ==
    /\ At(w, "announce")
    /\ status' = [status EXCEPT ![MyRun(w)] = "running"]
    /\ Goto(w, "model")
    /\ UNCHANGED <<phases, decisions, ledger, lease, artifact, bounds>>

-------------------------------------------------------------------------------
Holds(w) == lease[MyRun(w)].holder = w

(* renewLease: fails when the row is gone or names another holder. *)
Renewed(w) == [lease EXCEPT ![MyRun(w)].expired = FALSE]
LeaseLost(w) ==
    /\ ~Holds(w)
    /\ Goto(w, "lost")
    /\ UNCHANGED <<db, artifact, bounds>>

(* callModel: the heartbeat renews the lease while the model works. *)
Heartbeat(w) ==
    /\ At(w, "model")
    /\ \/ /\ Holds(w)
          /\ lease' = Renewed(w)
          /\ UNCHANGED <<status, phases, decisions, ledger, artifact, tick, bounds>>
       \/ LeaseLost(w)

(* The reply: text, a decision, or nothing after the last retry. *)
ModelReplies(w) ==
    /\ At(w, "model")
    /\ \E next \in {"commitText", "commitDecision", "blockNull"} : Goto(w, next)
    /\ UNCHANGED <<db, artifact, bounds>>

(* setTerminalStatus: lease check and status write in one transaction. *)
FencedStatus(w, value) ==
    /\ Holds(w)
    /\ lease' = Renewed(w)
    /\ status' = [status EXCEPT ![MyRun(w)] = value]

SetTerminalStatus(w) ==
    /\ tick[w].at \in {"complete", "failed", "paused-for-decision", "paused-for-blocker"}
    /\ \/ /\ FencedStatus(w, tick[w].at)
          /\ Goto(w, "end")
          /\ UNCHANGED <<phases, decisions, ledger, artifact, bounds>>
       \/ LeaseLost(w)

BlockOnNull(w) ==
    /\ At(w, "blockNull")
    /\ \/ /\ FencedStatus(w, "paused-for-blocker")
          /\ Goto(w, "abandonNull")
          /\ UNCHANGED <<phases, decisions, ledger, artifact, bounds>>
       \/ LeaseLost(w)

(* abandonReservation: a no-op on a row that is not reserved any more. *)
AbandonOwn(w) ==
    /\ tick[w].at \in {"abandonNull", "lost"}
    /\ ledger' = IF tick[w].holds THEN Abandoned(MyReserved(w)) ELSE ledger
    /\ Goto(w, "end")
    /\ UNCHANGED <<status, phases, decisions, lease, artifact, bounds>>

(* settle on a row another worker took throws, and rolls the commit back. *)
SettleThrows(w) ==
    /\ Holds(w)
    /\ MyReserved(w) = {}
    /\ Goto(w, "end")
    /\ UNCHANGED <<db, artifact, bounds>>

CommitText(w) ==
    /\ At(w, "commitText")
    /\ \/ /\ Holds(w)
          /\ lease' = Renewed(w)
          /\ phases' = phases \cup {<<MyRun(w), MyPhase(w), tick[w].attempt>>}
          /\ \E x \in MyReserved(w), n \in Actual : ledger' = Settle(x, n)
          /\ tick' = [tick EXCEPT ![w].at = "artifact", ![w].holds = FALSE]
          /\ UNCHANGED <<status, decisions, artifact, bounds>>
       \/ SettleThrows(w)
       \/ LeaseLost(w)

CommitDecision(w) ==
    /\ At(w, "commitDecision")
    /\ \/ /\ FencedStatus(w, "paused-for-decision")
          /\ \E x \in MyReserved(w), n \in Actual : ledger' = Settle(x, n)
          /\ decisions' = decisions \cup
                {[run |-> MyRun(w), phase |-> MyPhase(w), attempt |-> tick[w].attempt,
                  answered |-> FALSE, id |-> Cardinality(decisions) + 1]}
          /\ tick' = [tick EXCEPT ![w].at = "end", ![w].holds = FALSE]
          /\ UNCHANGED <<phases, artifact, bounds>>
       \/ SettleThrows(w)
       \/ LeaseLost(w)

(* writeArtifact, after the commit and without the lease. *)
WriteArtifact(w) ==
    /\ At(w, "artifact")
    /\ artifact' = [artifact EXCEPT ![MyRun(w)][MyPhase(w)] = tick[w].attempt]
    /\ tick' = [tick EXCEPT ![w].at = "phase", ![w].outputs = @ \cup {MyPhase(w)}]
    /\ UNCHANGED <<db, bounds>>

(* The `finally` of tickOnce deletes the lease this worker still holds. *)
EndTick(w) ==
    /\ tick[w].at \in {"end", "threw"}
    /\ lease' = IF Holds(w) THEN [lease EXCEPT ![MyRun(w)] = Free] ELSE lease
    /\ tick' = [tick EXCEPT ![w] = NoTick]
    /\ UNCHANGED <<status, phases, decisions, ledger, artifact, bounds>>

-------------------------------------------------------------------------------
(* answerDecision: the newest pending question of a run that waits for it. *)
AnswerDecision(r) ==
    /\ status[r] = "paused-for-decision"
    /\ \E d \in Pending(r) :
          /\ \A e \in Pending(r) : e.id <= d.id
          /\ decisions' = (decisions \ {d}) \cup {[d EXCEPT !.answered = TRUE]}
    /\ status' = [status EXCEPT ![r] = "queued"]
    /\ UNCHANGED <<phases, ledger, lease, artifact, tick, bounds>>

(* expires_at passes: for a worker that died, ...                             *)
WorkedOn(r) == \E w \in Worker : lease[r].holder = w /\ tick[w].run = r

Expire(r) ==
    /\ lease[r].holder # NoWorker /\ ~lease[r].expired
    /\ lease' = [lease EXCEPT ![r].expired = TRUE]
    /\ UNCHANGED <<status, phases, decisions, ledger, artifact, tick, day, crashes>>

DeadLeaseExpires(r) ==
    /\ ~WorkedOn(r)
    /\ Expire(r)
    /\ UNCHANGED lapses

(* ... or under a live one that does not get to its heartbeat (bounded).      *)
LeaseLapses(r) ==
    /\ WorkedOn(r)
    /\ lapses < MaxLapses
    /\ lapses' = lapses + 1
    /\ Expire(r)

(* The worker's process dies; what it had in memory is gone, its rows stay. *)
Crash(w) ==
    /\ ~At(w, "idle")
    /\ crashes < MaxCrashes
    /\ crashes' = crashes + 1
    /\ tick' = [tick EXCEPT ![w] = NoTick]
    /\ UNCHANGED <<db, artifact, day, lapses>>

NextDay ==
    /\ day < MaxDay
    /\ day' = day + 1
    /\ UNCHANGED <<db, artifact, tick, lapses, crashes>>

TickStep(w) ==
    \/ ListDead(w) \/ AbandonDead(w) \/ ReadOutputs(w) \/ Rebuild(w) \/ BeginPhase(w)
    \/ NextAttempt(w) \/ Reserve(w) \/ Announce(w) \/ ModelReplies(w)
    \/ SetTerminalStatus(w) \/ BlockOnNull(w) \/ AbandonOwn(w) \/ CommitText(w)
    \/ CommitDecision(w) \/ WriteArtifact(w) \/ EndTick(w)

Next ==
    \/ \E w \in Worker : Claim(w) \/ TickStep(w) \/ Heartbeat(w) \/ WriteFails(w) \/ Crash(w)
    \/ \E r \in Run : CreateRun(r) \/ AnswerDecision(r) \/ DeadLeaseExpires(r) \/ LeaseLapses(r)
    \/ NextDay

Spec == Init /\ [][Next]_vars

(* runUntilAborted keeps ticking, a tick's promises resolve (the model call    *)
(* has a bounded number of attempts), and a dead worker's lease expires.       *)
FairSpec ==
    /\ Spec
    /\ \A w \in Worker : WF_vars(Claim(w)) /\ WF_vars(TickStep(w))
    /\ \A r \in Run : WF_vars(DeadLeaseExpires(r))
-------------------------------------------------------------------------------
Steps == {"idle", "list", "sweep", "rebuild", "phase", "attempt", "reserve", "announce",
          "model", "commitText", "commitDecision", "blockNull", "abandonNull", "artifact",
          "lost", "end", "threw", "complete", "failed", "paused-for-decision",
          "paused-for-blocker"}
Ticks == [at : Steps, run : Run \cup {NoRun}, outputs : SUBSET Phase, attempt : Nat,
          holds : BOOLEAN, dead : SUBSET (Phase \X Nat)]
Resting == {"paused-for-decision", "paused-for-blocker", "complete", "failed"}

TypeOK ==
    /\ status \in [Run -> {"none", "queued", "running"} \cup Resting]
    /\ phases \subseteq Run \X Phase \X Nat
    /\ decisions \subseteq [run : Run, phase : Phase, attempt : Nat, answered : BOOLEAN, id : Nat]
    /\ ledger \subseteq [run : Run, phase : Phase, attempt : Nat, day : Nat,
                         state : {"reserved", "settled", "abandoned"}, tokens : Nat]
    /\ lease \in [Run -> [holder : Worker \cup {NoWorker}, expired : BOOLEAN]]
    /\ artifact \in [Run -> [Phase -> Nat]]
    /\ tick \in [Worker -> Ticks]
    /\ day \in 0..MaxDay /\ lapses \in 0..MaxLapses /\ crashes \in 0..MaxCrashes

(* "A worker that lost its lease mid-call cannot record": the phases of a run  *)
(* are recorded in order, once, and for good, however late a worker wakes up.  *)
Progress == INSTANCE RunProgress
    WITH log <- [r \in Run |-> {<<x[2], x[3]>> : x \in {y \in phases : y[1] = r}}]
RecordsInOrder == Progress!Spec

(* The status "complete" is only ever shown for a run whose every phase is     *)
(* recorded and whose every artifact is on disk with the recorded output,      *)
(* though each artifact is written after its phase commits and may be lost     *)
(* with the process in between.                                                *)
CompleteMeansDelivered ==
    \A r \in Run : status[r] = "complete" =>
        \A ph \in Phase : \E x \in phases :
            x[1] = r /\ x[2] = ph /\ artifact[r][ph] = x[3]

(* "A reservation abandoned by another worker mid-call stays abandoned and the *)
(* tick does not throw (BUG-13)": no commit of a worker that holds the lease   *)
(* finds its reservation gone.                                                 *)
SettleApplies ==
    \A w \in Worker :
        (tick[w].at \in {"commitText", "commitDecision"} /\ Holds(w)) => MyReserved(w) # {}

(* A run never waits for the owner on two questions: a pending question stops  *)
(* every later tick before the model could ask again.                          *)
OneOpenQuestion == \A r \in Run : Cardinality(Pending(r)) <= 1

(* The ceilings hold for everything reserved, settled or abandoned, across     *)
(* workers, crashes and retries, up to what providers report beyond their      *)
(* reservation.                                                                *)
Overrun(rows) == MapThenSumSet(LAMBDA x : Max({x.tokens - Estimate, 0}), rows)
SpendWithinCeilings ==
    /\ \A r \in Run : LET rows == {x \in ledger : x.run = r}
                      IN Spent(rows) <= RunCeiling + Overrun(rows)
    /\ \A d \in 0..MaxDay : LET rows == {x \in ledger : x.day = d}
                            IN Spent(rows) <= DayCeiling + Overrun(rows)

(* "Old workers overwrite finished status" is fixed, says the comment on       *)
(* setTerminalStatus: once complete, a run is not shown as running again.      *)
FinishedStaysFinished ==
    [][\A r \in Run : status[r] = "complete" => status'[r] = "complete"]_vars

WritesRecover == <>[][\A w \in Worker : ~WriteFails(w)]_vars

(* Every run in work comes to rest: complete, failed, or waiting for somebody, *)
(* whatever leases lapse, workers die and writes fail on the way, if writes    *)
(* do not fail for ever.                                                      *)
RunSettles ==
    WritesRecover =>
        \A r \in Run : status[r] \in {"queued", "running"} ~> status[r] \in Resting

(* A question asked by the model reaches the owner: even when a late worker    *)
(* overwrites the paused status, the run waits for the answer again.           *)
QuestionReachesOwner ==
    WritesRecover =>
        \A r \in Run :
            Pending(r) # {} ~> (status[r] = "paused-for-decision" \/ Pending(r) = {})
===============================================================================
