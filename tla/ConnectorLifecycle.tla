-------------------------- MODULE ConnectorLifecycle --------------------------
(***************************************************************************)
(* The life of the connector's process: createShutdown (lifecycle.ts) over    *)
(* the app's shutdown (routes/router.ts) and the planner's (headless.ts),     *)
(* with steps that fail or hang, the watchdog, crashes and restarts.          *)
(*                                                                         *)
(* life.at is the await the one shutdown stands at; "up" before there is one, *)
(* "exited" after the exit.  life.stop is the promise of server.stop().       *)
(***************************************************************************)
EXTENDS HeadlessJobs

CONSTANT MaxRestarts     \* bound on restarts

ASSUME LifecycleAssumption == MaxRestarts \in Nat

VARIABLES life, restarts

lifeVars == <<file, mem, life, restarts>>

Up == [at |-> "up", code |-> 0, stop |-> "none", store |-> "open"]
Alive == life.at # "exited"
ShuttingDown == life.at \notin {"up", "exited"}

LifeInit == InitJobs /\ life = Up /\ restarts = 0

(* failedStep keeps a code that is already there.                            *)
Failed(l) == [l EXCEPT !.code = IF @ = 0 THEN 1 ELSE @]

Stay == UNCHANGED <<file, mem, restarts>>

-------------------------------------------------------------------------------
(* A signal, or an uncaught error with code 1.  A later one joins the first.  *)
BeginDrain ==
    /\ life.at = "up"
    /\ \E code \in {0, 1} : life' = [life EXCEPT !.at = "drain", !.code = code]
    /\ Stay

(* drainMs is over: server.stop() is called, the app's shutdown begins.      *)
StopServer ==
    /\ life.at = "drain"
    /\ life' \in {[life EXCEPT !.at = "flush", !.stop = "pending"],
                  [Failed(life) EXCEPT !.at = "flush", !.stop = "done"]}
    /\ Stay

ServerStops ==
    /\ life.stop = "pending" /\ Alive
    /\ \E end \in {"done", "failed"} : life' = [life EXCEPT !.stop = end]
    /\ Stay

\* Mutated FlushSinks: a failure before the planner's shutdown is not counted.
FlushSinksForgives ==
    /\ life.at = "flush"
    /\ \/ BeginShutdown /\ life' = [life EXCEPT !.at = "planner"] /\ UNCHANGED restarts
       \/ life' = [life EXCEPT !.at = "stopped"] /\ Stay

(* The app waits for the scan and the sinks, then shuts the planner down.    *)
(* Whatever throws before skips the planner.                                 *)
FlushSinks ==
    /\ life.at = "flush"
    /\ \/ BeginShutdown /\ life' = [life EXCEPT !.at = "planner"] /\ UNCHANGED restarts
       \/ life' = [Failed(life) EXCEPT !.at = "stopped"] /\ Stay

(* The planner waits for the jobs it aborted, and at most SHUTDOWN_WAIT_MS.  *)
PlannerStopped ==
    /\ life.at = "planner"
    /\ EndShutdown
    /\ life' = [life EXCEPT !.at = "spans"]
    /\ UNCHANGED restarts

FlushSpans ==
    /\ life.at = "spans"
    /\ life' \in {[life EXCEPT !.at = "stopped"], [Failed(life) EXCEPT !.at = "stopped"]}
    /\ Stay

(* `await stopped`, store.close(), the watchdog is cancelled, exit(code).    *)
CloseStore ==
    /\ life.at = "stopped" /\ life.stop # "pending"
    /\ LET l == IF life.stop = "failed" THEN Failed(life) ELSE life
       IN  \/ life' = [l EXCEPT !.at = "exited", !.store = "closed"]
           \/ life' = [Failed(l) EXCEPT !.at = "exited"]
    /\ Stay

(* timeoutMs is over before the shutdown is done.                            *)
Watchdog ==
    /\ ShuttingDown
    /\ life' = [Failed(life) EXCEPT !.at = "exited"]
    /\ Stay

(* The process is killed.                                                    *)
Crash ==
    /\ Alive
    /\ life' = [Failed(life) EXCEPT !.at = "exited"]
    /\ Stay

(* The supervisor starts the process again.                                  *)
StartAgain ==
    /\ life.at = "exited" /\ restarts < MaxRestarts
    /\ Restart
    /\ life' = Up
    /\ restarts' = restarts + 1

(* While the process lives its callbacks run, during a shutdown too.         *)
Callback(s) == Alive /\ JobStep(s) /\ UNCHANGED <<life, restarts>>

LifeNext ==
    \/ BeginDrain \/ StopServer \/ ServerStops \/ FlushSinks \/ PlannerStopped \/ FlushSpans
    \/ CloseStore \/ Watchdog \/ Crash \/ StartAgain
    \/ \E s \in Session : Callback(s)

LifeSpec == LifeInit /\ [][LifeNext]_lifeVars

(* Timers fire: the watchdog and a plan's time limit; a plan that was aborted *)
(* ends, as its model call does.  Servers, sinks and spans may hang.          *)
Living(A) == Alive /\ A /\ UNCHANGED <<life, restarts>>
LifeFairness ==
    /\ WF_lifeVars(Watchdog)
    /\ \A s \in Session : /\ WF_lifeVars(Living(TimeOut(s)))
                          /\ WF_lifeVars(Living(EndCall(s)))
                          /\ WF_lifeVars(Living(Job(s).reason # "none" /\ EndPlan(s)))

LifeFairSpec == LifeSpec /\ LifeFairness
-------------------------------------------------------------------------------
LifeTypeOK ==
    /\ JobsTypeOK
    /\ life \in [at : {"up", "drain", "flush", "planner", "spans", "stopped", "exited"},
                 code : {0, 1}, stop : {"none", "pending", "done", "failed"},
                 store : {"open", "closed"}]
    /\ restarts \in 0..MaxRestarts

(* Exit code 0 means a graceful end: the store is closed, every job of the    *)
(* process has its outcome and, where writes do not fail, none is left to be  *)
(* found running by the next process.                                        *)
CleanExit ==
    (life.at = "exited" /\ life.code = 0) =>
        /\ life.store = "closed" /\ life.stop = "done"
        /\ \A s \in Session : Job(s).settled
        /\ ~Faults => \A s \in Session : file[s] # "running"

(* Every running job gets its outcome, or its process ends.                  *)
JobsSettle == \A s \in Session : ~Job(s).settled ~> (Job(s).settled \/ ~Alive)
===============================================================================
