# TLA+ models of claude-ultrathink

This directory holds TLA+ models of the concurrent and fault-tolerant parts of
this repository, the TLC configurations that check them on small instances, and
proofs of their main safety properties checked by TLAPS.  Paths below are
relative to `src/`, the repository root.

## 1. The system

The repository has two programs that share code:

* the **plugin** (`src/*`, `hooks/*`, `hosts/*`): short-lived hook processes,
  many at once, that turn a prompt into a plan and keep their state in files
  under one state directory;
* the **connector service** (`services/ultrathink/*`): a long-lived HTTP and MCP
  server with an SQLite store, a planner that runs plans as jobs, and a leased
  run worker that several processes may run over one database file.

### Inventory

| component | state | operations | what is hard | what makes it correct |
|---|---|---|---|---|
| guarded file lock, `src/claude/atomic.ts` | `<lock>.guard` directory with one marker, `<lock>` file with a token | `withLockMutation`, `withFileLock`, `removeDeadLockCandidate` | processes interleave and die between any two system calls, process ids are reused, leases expire, waiting times out | mutual exclusion of the guard; a lease keeps its lock; callers take turns; nobody blocks for ever |
| session and control state, `src/claude/state.ts` | session records, `last.json`, `control.json`, skip flags | locked read-modify-write, `withLastLock`, arm and clear skip | unlocked fallback; a second, strict lock keyed by live process ids and a completion marker | no lost update among lock holders; writers of `last.json` one at a time |
| retention, `src/retention/prune.ts` | none of its own | deletes old records, orphans, flags | decides on what it read, deletes later | never deletes what is in use |
| run worker, `services/ultrathink/worker/worker.ts` | leases, decisions, phases, artifacts | claim, sweep, reserve, call the model, commit, pause, answer | leases lapse under a live worker, late replies, crashes between commit and artifact | a phase is recorded once and in order; complete means delivered; a question reaches its owner |
| token ledger, `services/ultrathink/cost/ledger.ts` | reservations | reserve, settle, abandon | several workers and days, dead reservations | ceilings |
| run store, `services/ultrathink/store/store.ts` | runs, phases | create, update, record | shared by processes | constraints of its tables |
| circuit breaker, `engine/breaker.ts`, and the completer that asks it, `engine/openrouter.ts` | state, window, generation, slots; attempts of a call | tryAcquire, release; send, back off, retry | results that arrive after a transition | stale results do nothing; probes are bounded; it closes again |
| headless planner, `engine/headless.ts` | jobs in memory and as files, plan slots | start, metered calls, end, time limit, shutdown, recovery, sweep | end, time limit and shutdown race; a job that cannot be persisted; restarts | one outcome per job, which stands; slots match jobs; every job ends |
| fair-share pool, `obs/fair-share.ts`, inside the outer limit of `routes/router.ts` | held slots, three FIFO queues; in-flight count | acquire, admit, release, expire, abort; enter, re-enter, answer | hand-over while waiters leave; two limits given up and taken in turn | shares; no slot lost or idle while a waiter fits; order; the owner is served |
| sink queues, `obs/sinks/queue.ts` and `fanout.ts` | per sink: waiting envelopes, one batch in flight, the pump | enqueue, pump, attempt, backoff, flush, close | late answers, overflow, close during a send | every envelope reported once; a flush tells the truth; queues drain |
| shutdown, `lifecycle.ts` | one promise, a watchdog | shutdown steps | a step fails or hangs, jobs end meanwhile | exit code 0 means a graceful end |
| journal and sessions, `engine/journal.ts`, `engine/sessions.ts`, `src/host/grokbot.ts` | recorded model calls | begin, answer, resume | concurrent answers | an answer is used once |
| audit log, `obs/audit.ts` | active file, sealed segments, `.corrupt` copies; head, Merkle frontier | record, anchor, seal, prune, start, recover | any system call fails, the process dies, the power goes | what was acknowledged stays; the log knows its files; the next process starts |
| OAuth server, `oauth/oauth.ts` | clients, requests, codes, grants, refresh tokens, in memory and in one file | register, authorize, approve, exchange, rotate, revoke, prune, save | the approval awaits the password check; saving fails; restarts | one live token per grant; clients not locked out; an end that was saved and answered stands |
| store snapshots, `store/snapshots.ts` | files | snapshot, rotate, restore | crashes | a restorable copy |
| plan pipeline, host adapters, tracker, ship, teach, decision gate | per session files, external services | see source | retries over external services | idempotence |
| clients, rendering, configuration, diagnostics, deployment | none | I/O | none for a model checker | |

How they interact: hook processes meet only in files, through the guarded file
lock; `prune` works on the same files under the same guard.  The service's
planner and the worker share the store and the ledger; the planner inserts its
runs with a status the worker never claims.  The breaker sits between planner
and provider; one fair-share pool in front of the HTTP tools and one in front of
the planner; shutdown stops the server, flushes the sinks, ends the planner's
jobs and then closes the store.  Each acknowledged audit record is handed to the
sink queues.

`PROJECT.json` lists every component with its status and the hazards of the
code, each at its line.

## 2. The modules

| module | models | extends / uses |
|---|---|---|
| `GuardMutex` | the promise of `withLockMutation`: a mutex | |
| `MutationGuard` | `withLockMutation`, `reclaimDeadGuard`, `discardGuard`, `removeDeadLockCandidate`, one action per system call | refines `GuardMutex` |
| `MutationGuard_proofs` | proofs about it | |
| `FileLock` | `acquire`, `reclaimStale`, `release`, `withFileLock`, the locked read-modify-write of `state.ts`, and the lock part of `sweepOrphans` | uses `GuardMutex` for the guard |
| `FileLock_proofs` | proofs about it | |
| `RunProgress` | the promise of the worker about the phases of a run | |
| `RunWorker` | `createWorker`, `answerDecision`, the ledger and the store rows they use, one action per transaction or read | refines `RunProgress` |
| `RunWorker_proofs` | proofs about it, and lemmas on sums and extremes of finite sets | |
| `CircuitBreaker` | `createCircuitBreaker` and the attempt loop of `createOpenRouterCompleter`, one action per stretch between two awaits | |
| `CircuitBreaker_proofs` | proofs about it | extends `MCCircuitBreaker` |
| `FairShare` | the pool of `createFairShare`, as functions of its state | |
| `HttpAdmission` | the router's `admitted` and outer limit over that pool, one action per stretch between two awaits | extends `FairShare` |
| `HttpAdmission_proofs` | proofs about it and about the functions of `FairShare` | |
| `LastLock` | `withLastLock`, `lastLockHeld` and the sweep of its file: the strict lock of `last.json` | uses `GuardMutex` for the guard and, as its promise, for its bodies |
| `LastLock_proofs` | proofs about it | |
| `SinkQueue` | `createSinkQueue`, as functions of a queue's state | |
| `AuditStreams` | the fan-out over one queue per sink, its flush and close | extends `SinkQueue` |
| `HeadlessJobs` | `createHeadlessPlanner`: a job from start to outcome, files, restart, sweep | a `FairShare` pool |
| `ConnectorLifecycle` | `createShutdown` over the app's and the planner's shutdown, watchdog, crash, restart | extends `HeadlessJobs` |
| `Shutdown_proofs` | proofs about the queues, the planner's jobs and the shutdown over them | extends `AuditStreams`, `ConnectorLifecycle` |
| `OAuthStore` | the authorization server's store | |
| `AuditLog` | the hash-chained log, one action per call that changes the disk | |
| `Stores_proofs` | proofs about both | extends `OAuthStore`, `AuditLog` |
| `MCFileLock` | `FileLock` and `MutationGuard`, safety | extends both |
| `MCLocks` | `MutationGuard` and `FileLock`, progress; `LastLock` | extends `LastLock`, `MutationGuard` |
| `MCCircuitBreaker` | the history of failures that one property speaks of | extends `CircuitBreaker` |
| `MCUpstream` | `CircuitBreaker` and `HttpAdmission` with its requests | extends `MCCircuitBreaker`, `HttpAdmission` |
| `MCRunWorker` | symmetry | |
| `MCStores` | `RunWorker`, cut down to one run in depth on one day and two runs over two days; `OAuthStore`; `AuditLog` | extends `MCRunWorker`, `OAuthStore`, `AuditLog` |
| `MCShutdown` | `AuditStreams` and `ConnectorLifecycle` | extends both |

Several MC modules put two models *side by side*: both are at their initial state,
and one of them may move only while the other is at its own.  A behaviour of
such a module is a behaviour of one part, possibly after the other has returned to
its initial state, so each part is explored completely and the products of their
states are not.  The parts share no variable.  The fairness of a part must not ask
for steps while the part has to stay at its start: nothing fair is enabled there, but
for new calls of the breaker, which `MCUpstream` asks for only if the pool does not
stay away from its start for ever.
Where such a module extends its parts, so that a run checks the very
definitions that the proofs are about, all but one have names of their own for their
initial state, actions and processes (`GuardInit`, `OAuthSpec`, `LogNext`, `LifeSpec`, `Pid`).

So the lock is layered: `MutationGuard` is shown to implement `GuardMutex`, and
`FileLock` is built on `GuardMutex` instead of repeating the directory protocol.

### MutationGuard

State: the directory names that exist (`candidates`, `guardExists`) and the
marker files in them (`markers`, `guardEntries`), which process ids are alive,
and per process the next system call and what it has read (`seen`).  The
actions follow the code line by line: `MakeCandidate` (mkdir), `MarkCandidate`
(open), `Claim` (first rename), `ListGuard`, `CheckOwner`, `UnlinkDead`,
`RmdirDead` (`reclaimDeadGuard`), `Reclaim` (second rename), `GuardEndBody` and then
`Discard`, `DiscardRmdir` or `TidyMarker`, `TidyCandidate` (`finally`);
`PruneCheck`, `PruneUnlink`, `PruneRmdir` are `removeDeadLockCandidate`.
`GuardCrash` kills a process between any two of these and `ReusePid` gives its id to
a new one.  The random half of an owner name is a counter per process id: what
matters is that a name is never used twice.  `rename(2)` succeeds on an absent
or empty target directory and fails on a nonempty one.  With `GuardFaults`
any system call of the caller may fail.

Not modelled: a hand-made foreign file in the guard directory (the code then
treats the guard as held), and process ids of another pid namespace.

### FileLock

State: who is in the guard, whether a process died there (`wedged`), the lock
file with its age, and per process its step, whether it holds a token and for
how long, and the time it has waited.  `overtaken[p]` records which kinds of
write hit the target since `p` read it.  Time is a set of ages, advanced
together by `Tick`; ages stop one past the largest value the code compares them
with, so no behaviour is cut off.  `Orphan` is a lock file whose token nobody
knows any more; `Blank` one whose token is not written yet.  When a process has
died in the guard the model lets a later caller either recover it or be refused
(the dead owner's process id may be in use again): both happen in
`MutationGuard`.  The 1000 rounds of `release` are not counted: with the real
constants (15 ms polls, 2 s) the timeout ends the loop first.

### RunWorker

State: the rows (`status`, `phases`, `decisions`, `ledger`, `lease`), the files
(`artifact`), and what each worker has in memory during one `tickOnce`.  One
action is one SQLite transaction or one read, so a worker may be suspended
between any two.  The four phase statuses are one value `"running"`: every query
treats them alike.  A lease expires for a dead worker (`DeadLeaseExpires`) or,
`MaxLapses` times, under a live one (`LeaseLapses`); the heartbeat is a separate
action.  `WriteFails` lets any write throw; the tick then ends from `"threw"`, so that a
failure can be told from an ordinary end.  A model reply is a text, a
decision or null.  `expires_at` is compared with `<`, which is the flag
`expired`.

### CircuitBreaker

State: `breaker`, what `createCircuitBreaker` keeps, and per call where it is
and how often it has repeated.  A slot is stale when a transition happened since
it was handed out, which is all `generation` is used for; `fresh` is the set of
calls with a slot that is not.  A stale slot behaves the same whether it was
handed out closed or half open, so the kind is not kept.  A failure count above
the threshold is only reported, so it stops one above; times are ages that stop
where they stop mattering.  `healthy` is the upstream.  A call may be aborted at
every await.  The clock does not run backwards in the model; the code clamps
what it reports then, and stays open for longer.

### FairShare and HttpAdmission

`FairShare` has no variables: the pool's operations are synchronous and are
functions of its state, so that other users of a pool can take them over.
`admitWaiters` repeats `GrantNext` (a recursive function over the rounds); a release
or an ended wait includes it.
`HttpAdmission` adds the requests and the outer count; `HeadlessJobs` uses the same
functions for `acquire`, which refuses instead of waiting.  A request is `woken`
between the grant of its slot and its next step; since promise callbacks run
before the next event, arrivals, timers and aborts wait for that.  Refusals that
change nothing (503 on arrival) are not steps.

### LastLock

State: the guard's occupant, the lock file with its text (empty, a process id or
the marker `complete`), its age and the process that created it, which process ids
are alive, and per caller its step.  `Held` is `lastLockHeld`.  Each of the up to
`MaxAttempts` tries looks at the file under the guard, removes a file nobody
holds, creates its own, and writes its process id.  The marker is written to the
open inode outside the guard, so it changes the file at the path only if that is
still the caller's (`by`).  `Faults` selects what may fail.  A process may die at
every step and its id may come back to another program, for which the dead
writer's file is held.  `Sweep` is the lock part of `sweepOrphans`.

### SinkQueue and AuditStreams

`SinkQueue` has no variables: what a call, a microtask or a timer does to a queue is a
function of the queue's state.  An envelope is its arrival number and of the reports
(`sent`, `failed`, `dropped`) the counts are kept.  `AuditStreams` decides when they
happen: `FanOut` enqueues in every queue; `PumpTurn` is the next turn of the
loop; `TransportAnswers` and `RequestTimesOut` settle an attempt, of which the
first counts; `Flush` and `Close` are those of the app's shutdown.

### HeadlessJobs and ConnectorLifecycle

State: the job file per session, which survives, and `mem`, which does not: the
`jobs` map, the job objects (a plan that runs on keeps its object after the map
dropped it), the settled jobs whose file could not be written, the pool, the
closed flag.  `Finalize` is the one place that settles; the plan's end, the time
limit's abort and shutdown race for it.  `ConnectorLifecycle` walks `createShutdown`
await by await: drain, `server.stop()`, sinks, planner, spans, store, exit.  A step
may fail or hang; the `Watchdog` then exits.  `Crash` and `Restart` follow.

### OAuthStore

State: the store in memory and in the file, both replaced as a whole; which
approvals wait for the password check; what is past its time; what clients were
answered.  An action is one request handler up to its answer, except approval,
which `AskPassword` and `PasswordChecked` split at its only await.  A save may fail;
`RestoreStore` then goes back to the snapshot, or the answer is an error, as in the
handler.  Every handler that prunes does so in the model.  What was told of a grant's
end has three parts: `ended`, answered when neither memory nor file has the grant any
more; `failed`, answered with an error since it could not be saved; `unsaved`, answered by
`AnswerUnknown`, which finds nothing in memory and does not look at the file.

### AuditLog

State: inodes with their lines and how many of them are synced; the directory (active
file, segments, `.corrupt` copies) with the earlier directories that a power loss
may go back to; the log's memory; where the one caller stands.  An action
is one call that changes the disk and what the code does up to the next one.  A
hash is the number of the append, which stands for the record and all before it.
`Scan` is `scanChain` as a fold over the lines.  A `Fault` fails a call, kills
the process, or cuts the power; `Troubles` lists which kinds may come together.

## 3. What the runs check

| run | instance | shows |
|---|---|---|
| `guard_and_lock` | guard: 3 processes, 2 calls each, failing system calls; lock: 3 processes, stale 2, timeout 1, orphan 3, faults | `LiveMarkerKept`, refinement of `GuardMutex`; `LeaseKeepsLock`, `TakeTurns` |
| `locks` | guard: 3 processes, 1 call, fairness; leased lock: 2 processes, fairness; strict lock: 3 processes, failing guard and lock calls | nothing left behind, a dead owner's guard is freed; every call ends, orphans are reclaimed; bodies of the strict lock take turns and a finished one does not hold it |
| `lock_toggles` | 3 processes, no faults | expected violation, see section 6 |
| `upstream` | breaker: 3 calls, threshold 2, window 3, open 2, 2 probes, 2 retries; pool: 7 requests, 4 slots, reserve 1, 2 per principal, queues of 2; fairness without expiry of waits | probes bounded, no slot leaks, late results harmless, opens on recent failures only, closes again; slots counted, shares kept, no fitting head waits, grants in turn, the owner is served |
| `worker_progress` | 2 workers, 1 run, 1 phase, 2 days, 2 lapses, 1 crash, failing writes, fairness | runs come to rest; questions reach the owner |
| `worker_status`, `worker_settle` | 2 workers, 1 phase, 1 lapse | expected violations, see section 6 |
| `stores` | worker: 2 workers, 2 phases; 1 run on 1 day, 1 lapse, 1 crash, failing writes; and 2 runs over 2 days, 3 ledger rows, no lapse, crash or failing write; OAuth: 1 client at a time of 2, 2 requests, 2 tokens per grant, 2 things past their time at once, failing writes; log: anchor every 2, segments of 3 records, 9 appends, 2 faults | refinement of `RunProgress`, delivery, one open question, ceilings; one live refresh token, the last answered one works, grants whose end was saved and answered stay ended, grants have clients; acknowledged records stay, the log knows its files, the next process starts |
| `oauth_ends` | 1 client, 1 request, 1 token, failing writes | expected violation, see section 6 |
| `audit_power`, `audit_recovery` | the log with the two faults that the run is about | expected violations, see section 6 |
| `shutdown` | 2 plans at a time, sessions of a connector and of the owner, 1 unpersisted job kept, failing writes, 1 restart; 1 sink, 2 waiting, batches of 2, 2 attempts, 5 envelopes; fairness | slots match jobs, answers stand, exit 0 is graceful, jobs settle; envelopes reported, flushes truthful, queues drain |

Why the bounds are enough.  The guard's races need a dead owner, a slow
recoverer and a successor: three processes.  The lock's need a holder past its lease, a new holder and a third caller
that is refused; `TimeoutMs < StaleMs < OrphanMs` as in the code (2 s, 10 s,
1 h), each at least one tick apart.  The worker's need an old holder and a new one, hence one lapse; `worker_progress` has
one more, so that the old one comes back.  Two phases are the least for
which order and rebuilding matter; one crash separates commit and artifact.  The
ceilings are reached: with an estimate of 2 and actual use of 1 or 3, both the
ceilings of `stores`, 6 (run) and 5 (day), and those of `worker_progress`, 4 and 2,
refuse.  `MCStores` keeps the second run to where the two share something,
the ceiling of a day: both are worked on across the change of day, with up to
`MaxRows` rows, and without lapses, crashes and failing writes, which concern one
run at a time.  The breaker needs late
results of an earlier period next to two probes: three calls, with a window longer than
the open time so that failures of two windows meet.  The pool needs one release
that wakes two waiters (a head at its principal's cap with another principal
behind it) and newcomers that fill the outer limit meanwhile: seven requests, of
which one token has three.  The strict lock needs an owner, one who removed its
file and a successor.  The planner needs one job that is kept unpersisted and a
second that pushes it out; two sessions of two classes do that, and one restart
shows what a dead process left.  The sinks do not share state, so one is enough; five
envelopes are a batch in flight, a full queue and one that overflows it.  In
`OAuthStore` one client at a time makes every second registration evict;
two requests are an approval in progress next to a live grant; two tokens are one
rotation and its replay; `MaxPast` things past their time at once are a code or a
token that goes while another one is used too late.  In `AuditLog` three records per segment leave room for
a record, the anchor that becomes due and the records of a prune, so that seals
fall between all of them; nine appends reach a prune of a chain of several segments
and records after it.  Two faults are a failing call and one in its handling.
`stores` uses a `VIEW` that leaves out the expiry of things that are in neither
store: they do not come back under their name, so it tells no states apart.
Symmetry is used only for safety and
only over interchangeable processes and workers, never over runs.
`CHECK_DEADLOCK FALSE` appears where the bounds (calls, lapses, days) stop
the system or where all runs may rest with every worker idle.

### Fairness

* `GuardFairness` of `MutationGuard`: each running process gets to its next system call.
  Crashes, new calls and prune are not fair.
* `FileLock` (in `MCLocks!MCSpec`): time passes, and each call gets to its next step.  `fn` is
  synchronous code that returns.  `OrphanReclaimed` is conditional on callers
  that keep finding the lock held and on crashes coming to an end: without either
  nobody looks at the file.
* `RunWorker!FairSpec`: `runUntilAborted` keeps ticking, a tick's promises settle
  (attempts of a model call are bounded), and the lease of a dead worker expires.
  Nothing is assumed of owners: `RunSettles` counts waiting for an owner as rest.
  Both properties are conditional on writes that do not fail for ever.
* `CircuitBreaker!Fairness`: time passes, attempts and backoffs end (both have
  timers).  `ClosesAgain` further needs callers that keep asking and are not
  aborted before every single answer: the breaker has no timer of its own and
  learns of a recovery only from a probe.
* `AdmissionFairness` of `HttpAdmission`: some work ends, and some woken request
  runs.  The expiry of a wait is not assumed, so `OwnerServed` is not the queue's
  timeout in disguise.
* `AuditStreams!Fairness`: microtasks run and timers fire (a request's time limit,
  the backoff, the flush's limit).  Nothing is assumed of a transport: it may never
  answer.
* `LifeFairness` of `ConnectorLifecycle`: the watchdog and each plan's time limit fire, a model
  call ends (its own time limit), and a plan that was aborted ends.  The server, the
  sinks and the spans may hang for ever; a plan that nobody aborted may think for
  ever.

## 4. What is proved

For every set of processes and every value of the bounds, with or without
faults:

* `MutationGuard_proofs`: `TypeCorrect`, `Exclusion` (`GuardExclusive`),
  `DelayedRecoverySafe` (`LiveMarkerKept`), `ImplementsMutex` (`MutexSpec`),
  `CallsTidyUp` (`NothingLeftBehind`).
  `GuardExclusive` is not inductive: as far as it knows, a process deep in a
  recovery could hold the name of a live owner.  The invariant `IInv` says what a
  process may rely on across its system calls: a caller inside the guard has the
  only marker there (`HolderMarked`); a prepared marker stays until its caller
  moves it (`Prepared`); names of future calls appear nowhere (`NoFutureOwner`);
  and a name found dead belongs to a finished call for ever, even when its process
  id is back in use (`SeenFinished`).  The last part is why a delayed recovery is
  harmless: `UnlinkDead` removes exactly the name it read.  `CallsTidyUp` needs to know
  besides where the name of a running call may still be at each of its steps
  (`OwnTraces`), so that the last step of `finally` removes the last trace.
* `FileLock_proofs`: `TypeCorrect`, `LeaseSafe` (`LeaseKeepsLock`), `TurnsTaken`
  (`TakeTurns`).  The invariant ties each step inside a callback to membership
  in the guard, has at most one process in the guard, makes the age of the lock
  file no larger than the holder's own count while the file holds its token, and
  keeps the file of a caller within its lease.  `TurnsTaken` then follows since two
  callers within their leases would both be named by the one lock file.
* `CircuitBreaker_proofs`, for every finite set of calls: `TypeCorrect`,
  `UpstreamSpared` (`ProbesBounded`), `SlotsReturn` (`NoSlotLeaks`), `LateResults`
  (`LateResultsHarmless`).  The limit is compared with a counter, so the invariant
  adds what the counter counts: every fresh slot belongs to a call whose request
  is out, and a half-open breaker's counter is the number of fresh slots.  `Sound`
  states this of the breaker alone; each operation is shown to keep it, and one
  lemma carries a pass of the call's loop for all three actions that make one.
  `FailuresRecent` (`OpensOnRecentFailures`) is about the history that
  `MCCircuitBreaker` keeps beside it: of the newest failures of the history, as many as a
  closed breaker counts are no older than its running window (`Recent`).
* `LastLock_proofs`: `StrictLockIsMutex` (`BodiesTakeTurns`) and `MarkerFreesLock`
  (`FinishedNotHeld`).  That two bodies never meet is not inductive: somebody
  between his look at the file and its removal could delete the file of a running
  body.  The invariant `IInv` says that a call belongs to a live process
  (`CallersLive`), that only the one in the guard looks at the file and changes it
  under his eyes (`GuardOccupied`), that while he is about to do so no body runs
  (`SightHolds`), and that a running body's process made the file and is named in it
  (`BodyNamed`), so that whoever looks finds it held.
* `Shutdown_proofs`, about the queues, for every set of sinks, capacity, batch size and
  number of attempts: `EnvelopesReported` (`EveryEnvelopeReported`) and `FlushesTellTruth`
  (`FlushTellsTruth`).  The invariant `Owes` is about a single queue and its bill:
  what arrived is reported, waiting or in flight; a pump that is not sending has
  no batch; and what is still there after a flush was answered came later.  Each
  function of `SinkQueue` is shown to keep it once, and the actions follow.
* `Shutdown_proofs`, about the planner's jobs and the shutdown, for any sessions, classes,
  principals, limits and restarts: `LifeTypeCorrect` (`LifeTypeOK`), `SlotsMatchTheJobs`
  (`SlotsMatchJobs`), `AnswersHold` (`AnswersStand`) and `ExitsClean` (`CleanExit`).
  `Sound` is about the memory of a process: who holds a slot of the pool is an open job
  of an admitted request, there are at most as many as may be, and what else is in the map is
  in the list of jobs that could not be written, once.  The shutdown ends all open
  jobs in one action, in any order.  `LoopKeeps` shows, by a least counterexample among
  its rounds, that each of them keeps `Sound` and drops from the list only the oldest, which
  is what `AnswersStand` allows.  `LifeInv` says which steps are behind a process that has
  come so far with code 0.
  `AnswersStand` lets a job's answer change while the process lives only when the list of
  jobs that could not be written overflowed past it.  A shutdown ends several jobs at once
  and may push out several of the oldest entries, so the escape (`Crowded`) names the job:
  it and all that came before it in the list are gone, and the list is full.
* `RunWorker_proofs`, for any sets of workers and runs, any number of phases, any
  estimates, ceilings and bounds: `TypeCorrect`, `Delivered`
  (`CompleteMeansDelivered`), `OneQuestion` (`OneOpenQuestion`),
  `ImplementsProgress` (`RecordsInOrder`: `Spec` implements `RunProgress`) and
  `CeilingsHold` (`SpendWithinCeilings`).  A tick works on what it read several
  transactions ago, so none of these is inductive.  `IInv` separates what stays
  true of a tick whose worker was overtaken (`Follows`: its outputs are recorded, without
  gaps, and the artifacts it has passed are on disk) from what it knows only
  while its worker holds the lease (`Knows`: its outputs are all that is recorded, and
  from the start of a phase on no question is pending).  A commit asks for the lease
  in its transaction and so may use `Knows`: it records the next phase.
  Files are written outside transactions by whoever comes late, but each writes the
  output that was recorded, which is why `CompleteMeansDelivered` survives.
* The ceilings compare sums over the rows of a table of any size.  `SpendWithinCeilings`
  needs `Booked`: a reservation has one row, which counts its estimate until it is
  settled.  Then each step leaves the rows alone, settles or abandons one
  (`CeilingReplace`: the sum grows by no more than the overrun), or adds one that `reserve`
  has checked against both ceilings (`CeilingAdd`).  What `MapThenSumSet` and `Max`
  compute follows from `Smallest`: strict inclusion of finite sets is well-founded, so
  a false claim about finite sets has a smallest counterexample.
* `Stores_proofs`, about the authorization server, for any number of clients, requests, tokens and places:
  `TypeCorrect`, `GrantsRooted` (`GrantHasClient`), `EndsStand` (`EndedStaysEnded`),
  `OneTokenLives` (`OneLiveRefresh`) and `ClientsNotLockedOut` (`LastTokenWorks`).
  The invariant `Kept` is about one store, in memory or in the file, and
  about what clients were told: codes and tokens belong to a grant and that to a client
  marked as granted, whom no eviction picks (`Rooted`); a code that was not
  redeemed has no tokens yet, and of a grant's tokens at most one is not spent
  (`Rotated`); no token is newer than the last one told, a request whose code was told
  waits no longer, no grant is left that was told to have ended, and the last token told
  works (`Honoured`).  `EndsStand` is about ends that were answered once they were saved, by
  the call that ended the grant or by a later one that finds nothing left in memory, where the
  file has nothing left either; an end answered before that does not stand (`oauth_ends`).  The file and the memory may differ for a long time after failed
  writes, so the invariant holds of each alone: a failed save that goes back to the
  store of before, and a restart from the file, then keep it.
* `Stores_proofs`, about the audit log, for any interval of anchors, size of segments and
  number of appends and faults: `AcknowledgedKept` (`AckedKept`), under `LossesApart`.
  Which file a record is in changes by appends, seals, recoveries, rollbacks and power
  losses, so `LogInv` follows what is still owed (acknowledged, and not deleted by a
  prune).  It is in a file that has a name (`OwedKept`).  As long as no fault left an
  append unsynced, it is synced in a file that has a name in every directory to which a
  power loss may go back, and the active file has such a name too, but between its creation
  and the sync of the directory (`Durable`, `ActiveDurable`).  What an append has written
  beyond its `before` is not acknowledged (`NewUnacked`), so `Rollback` takes nothing away,
  and `PutBack` replaces a file that holds nothing acknowledged: an append that carries
  a boundary starts a file of its own (`CarrySound`).
  `LossesApart` excludes a power loss together with a fault that leaves an append
  unsynced, and a death in the middle of `recoverFrom`.  The first is needed: without
  it `audit_power` refutes `AckedKept`.  The second keeps the proof away from the state that
  `audit_recovery` shows.  `MCStores` assumes it of its own combinations, and TLC evaluates that.
* `HttpAdmission_proofs`, for any requests, principals, capacity, reserve, cap and
  depth: `TypeCorrect`, `NoSlotLost` (`SlotsCounted`), `SharesHold` (`SharesKept`),
  `NoIdleSlot` (`NoFittingHeadWaits`) and `TurnsKept` (`GrantedInTurn`).  `Sound` is
  about a pool and the requests that hold a slot of it or wait for one: its counters
  are those of the holders (`Budget`) and each request waits once, in the line of its
  class (`InLine`).  Each function of `FairShare` is shown to keep it.  `admitWaiters` is
  a loop, so `RoundsKeep` shows, by a least counterexample among its rounds, that each of
  them keeps `Sound` and `Turn`, which relates a round to the pool at the start
  of the loop: every line has lost a prefix, and no head of a higher class would fit if
  one of those granted so far gave its slot back.  `Turn` has to be kept for grants of
  earlier rounds too, while heads change: a new head of the class just granted cannot
  outrank an earlier grant, since the old head would then not have fitted either.  Each
  round grants somebody or finds that nobody fits, so there are enough rounds
  (`AdmitIs`).

Assumptions: `ConstantsAssumption`, `LockAssumption`, `BreakerAssumption`,
`SinkQueueAssumption`, `AuditStreamsAssumption`, `HeadlessJobsAssumption`,
`LifecycleAssumption`, `WorkerAssumption`, `OAuthStoreAssumption` and `AdmissionAssumption` (types of the bounds, `StaleMs < OrphanMs`, an estimate and a
number of phases that are not 0, places for at least one client and request, a reserve below
the capacity and a cap from 1 to it, which `createFairShare` demands) and that the markers for "no file" are not process names.
The `FileLock` proofs use `GuardMutex` actions only, so together with
`ImplementsMutex` they hold over the real guard.

The type invariants and `GuardExclusive` follow from the invariants that are proved, and
no run repeats them.  The runs that check a proved property do so for a small
instance; `PROJECT.json` names a theorem's property where the run's module extends
the theorem's.

Only model-checked: liveness (`DeadGuardReclaimed`, `NeverBlocks`,
`OrphanReclaimed`, `RunSettles`, `QuestionReachesOwner`, `ClosesAgain`,
`OwnerServed`, `JobsSettle`, `QueuesDrain`), which is out of the
prover's reach; and `KnowsItsFiles` and `StartsAgain`, which are about what `Scan` computes
by folds over the lines of all files, sorted by a `CHOOSE`: that is induction over
data.  Every other property of the passing runs is stated by a theorem.

## 5. Properties worth knowing

* `LiveMarkerKept` is the sentence "a delayed recovery cannot remove a successor"
  of `withLockMutation`.
* `TakeTurns` is what is left of "overlapping processes take turns" once unlocked
  degradation is admitted: callers within their leases take turns.
* `RecordsInOrder` says that late workers, takeovers and restarts never repeat or
  reorder phases, as a refinement of `RunProgress`.
* `CompleteMeansDelivered` relates a row written in one transaction with files
  written outside all of them.
* `SpendWithinCeilings` states the ceilings up to what a provider reports beyond
  its reservation, which the code admits (a settled row counts its actual usage).
* `LateResultsHarmless` and `NoSlotLeaks` together say that a result counts once,
  in the period its request was sent in.
* `BodiesTakeTurns` is the same promise, `GuardMutex`, that the guard makes, for a lock
  with neither lease nor unlocked way in.
* `OpensOnRecentFailures` tells the failures of a window from those before it, which the
  breaker itself does not keep.
* `AnswersStand` names the only two ways in which a client may be told another end of
  a job: its file could not be written, and the process restarted or too many such
  jobs were kept.
* `CleanExit` relates the exit code with jobs, files and the store.
* `LastTokenWorks` and `OneLiveRefresh` hold together only if a failed save is undone in
  memory: with either alone one could forget the restore.
* `KnowsItsFiles` compares what the log believes with a scan of what is on the disk,
  after every failed, repeated or undone call.
* `StartsAgain` is the runbook's "a crash at any point leaves a directory that verifies
  on restart", for every stop of the process that section 6 does not name.
* `NoFittingHeadWaits` is what "hands freed slots to waiters until none fits" is
  for; `GrantedInTurn` is the order it promises, across several grants in a step.

* `EndedStaysEnded` is as strong as the code allows: it starts where the end has been
  saved.  `AnsweredEndStands`, which starts at the answer, is refuted (section 6).

Three properties say less on their instance than in general.  `SlotsMatchJobs` also bounds
the plans that run, which two sessions under a limit of two cannot exceed, and the last part of
`CleanExit` is about writes that do not fail, while those of `shutdown` may: for these
parts see the theorems `SlotsMatchTheJobs` and `ExitsClean`.  `NothingLeftBehind` is about calls
during which no system call fails; what a failing removal leaves is freed by a later
caller (`DeadGuardReclaimed`) once its process is dead, and not before.

## 6. Disagreements found

1. `lock_toggles`: `writeControl` is documented as never losing a toggle; with the
   timeout of `withFileLock` a slow holder and a timed-out caller undo each other's.
2. `worker_status`: the status written before each model call
   (`worker.ts:425`) is not fenced by the lease, so a finished run is shown as
   running again.  A later tick repairs it (`RunSettles` holds).
3. `worker_settle`: the sweep of dead reservations after a claim is not fenced, so
   a suspended worker abandons a live reservation; the new holder's commit throws and
   the phase is called, and paid for, again.
4. `audit_recovery`: `recoverFrom` moves the damaged active file aside before the
   boundary that only this file held is written into the new one; a process that
   dies in between leaves segments that no later start accepts.
5. `oauth_ends`: `revoke` deletes the grant in memory before it saves.  If the save
   throws, the client gets an error, and its retry, for which memory has no token any more, a
   200 with nothing saved.  A restart before the next save that succeeds reads the grant
   back from the file, and its tokens work.  A replayed code and a spent refresh token
   behave alike: presented once more they are refused as unknown, and the grant they
   should have ended is still in the file.
6. `audit_power`: an append that creates the active file and fails leaves the file
   there, truncated; the next append finds it, syncs only the file, and acknowledges
   a record whose directory entry was never synced.

## 7. Not modelled, and the plan

Left out of the modelled parts:

* `AuditLog`: changes made to the directory by others, `record` called from its own
  callback, `close`, forged boundaries, a name for a sealed segment that is taken,
  hashing and sanitising.  `MCStores` leaves out four combinations of faults: the two
  of section 6; a crash and a later power loss (lines of an unsynced tail that the
  next start adopted are sealed as they are); and a failed write whose truncation
  fails too in the middle of a prune, with one more fault (the boundary goes aside with
  the damaged file).
* `OAuthStore`: rate limits, form checks, PKCE and signatures, which only refuse;
  access tokens, which keep nothing else alive; and a `revoke` that names another client than
  the token's, which is answered 200 and does nothing.
* `HeadlessJobs`: the run row ("bookkeeping only") and the ledger rows of a plan.
* `state.ts` and `prune.ts`: the contents of session records, the one-shot skip flags
  and their sweep, and the deletion of session groups.  `TakeTurns` and `TogglesNeverUndone` are
  about the lock that the sweep takes, not about the flags.

Next stages, in this order:

1. Journal and client-driven sessions (`engine/journal.ts`, `sessions.ts`,
   `src/host/grokbot.ts`): an answer is used once, whoever sends it and when.
2. Skip flags and session groups of `prune`, on `FileLock`.
3. Proofs about what `Scan` computes (`KnowsItsFiles`, `StartsAgain`), with the chain
   stated line by line instead of as a fold.
4. Snapshots; the plan pipeline's scheduler; the merge state machine of ship; as far
   as they have state worth checking.

Not planned: clients of external services, rendering, configuration, diagnostics
and deployment scripts, whose state is not shared or whose behaviour is I/O.
