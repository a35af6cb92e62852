----------------------------- MODULE AuditStreams -----------------------------
(***************************************************************************)
(* The fan-out of audit, alert and security envelopes over one queue per sink *)
(* (obs/sinks/fanout.ts and queue.ts), with transports that answer, refuse,   *)
(* time out or never answer, and the flush and close that end the process     *)
(* (routes/router.ts).                                                      *)
(***************************************************************************)
EXTENDS SinkQueue

CONSTANTS
    Sink,            \* configured transports
    MaxEnvelopes     \* bound on arrivals

ASSUME AuditStreamsAssumption == MaxEnvelopes \in Nat

VARIABLES
    queue,           \* sink -> state of its queue
    arrived,         \* envelopes recorded so far
    asked            \* how many of them a flush that was answered, or waits, is about

vars == <<queue, arrived, asked>>

Init ==
    /\ queue = [s \in Sink |-> NewQueue]
    /\ arrived = 0
    /\ asked = 0

Turn(s, q) == queue' = [queue EXCEPT ![s] = q] /\ UNCHANGED <<arrived, asked>>

-------------------------------------------------------------------------------
(* audit, alert and security: one envelope for every queue.                  *)
FanOut ==
    /\ arrived < MaxEnvelopes
    /\ arrived' = arrived + 1
    /\ queue' = [s \in Sink |-> Enqueue(queue[s], arrived + 1)]
    /\ UNCHANGED asked

(* A microtask of the pump: run's loop, or deliver after one of its awaits.  *)
PumpTurn(s) ==
    \/ queue[s].pump \in {"scheduled", "returned"} /\ Turn(s, Pump(queue[s]))
    \/ queue[s].pump = "settled" /\ Turn(s, AfterAttempt(queue[s]))
    \/ queue[s].pump = "woken" /\ Turn(s, AfterBackoff(queue[s]))

(* The transport resolves, rejects, throws or answers something malformed.   *)
TransportAnswers(s) ==
    /\ queue[s].pump = "attempt"
    /\ \E result \in Results : Turn(s, SettleAttempt(queue[s], result))

RequestTimesOut(s) ==
    /\ queue[s].pump = "attempt"
    /\ Turn(s, SettleAttempt(queue[s], "retry"))

BackoffEnds(s) ==
    /\ queue[s].pump = "backoff"
    /\ Turn(s, [queue[s] EXCEPT !.pump = "woken"])

(* flush(AUDIT_FLUSH_MS) of shutdown, over all queues, ...                    *)
Flush ==
    /\ \A s \in Sink : queue[s].flush = "none"
    /\ queue' = [s \in Sink |-> StartFlush(queue[s])]
    /\ asked' = arrived
    /\ UNCHANGED arrived

FlushTimesOut(s) ==
    /\ queue[s].flush = "waiting"
    /\ Turn(s, [queue[s] EXCEPT !.flush = "not"])

(* ... and, once every queue has answered it, close.                          *)
Close ==
    /\ \A s \in Sink : queue[s].flush \in {"idle", "not"}
    /\ queue' = [s \in Sink |-> CloseQueue(queue[s])]
    /\ UNCHANGED <<arrived, asked>>

Next ==
    \/ FanOut \/ Flush \/ Close
    \/ \E s \in Sink : \/ PumpTurn(s) \/ TransportAnswers(s) \/ RequestTimesOut(s)
                       \/ BackoffEnds(s) \/ FlushTimesOut(s)

Spec == Init /\ [][Next]_vars

(* Microtasks run and timers fire; nothing is assumed of a transport.        *)
Fairness ==
    \A s \in Sink : /\ WF_vars(PumpTurn(s)) /\ WF_vars(RequestTimesOut(s))
                    /\ WF_vars(BackoffEnds(s)) /\ WF_vars(FlushTimesOut(s))

FairSpec == Spec /\ Fairness
-------------------------------------------------------------------------------
TypeOK ==
    /\ arrived \in 0..MaxEnvelopes /\ asked \in 0..arrived
    /\ \A s \in Sink :
          /\ queue[s].items \in Seq(1..arrived) /\ Len(queue[s].items) <= QueueCapacity
          /\ queue[s].batch \in Seq(1..arrived) /\ Len(queue[s].batch) <= MaxBatch
          /\ queue[s].pump \in Pumps
          /\ queue[s].attempts \in 0..MaxAttempts
          /\ queue[s].result \in Results
          /\ queue[s].flush \in {"none", "waiting", "idle", "not"}

(* "Receives every delivery, failure and drop": an envelope is waiting, in     *)
(* flight, or reported as sent or dropped exactly once, in every queue,       *)
(* however overflow, retries, late answers and close fall together.           *)
EveryEnvelopeReported ==
    \A s \in Sink :
        LET q == queue[s] IN q.sent + q.dropped + Len(q.items) + Len(q.batch) = arrived

(* "Resolves true once the queue is empty and nothing is in flight": when a    *)
(* sink has answered a flush so, it holds nothing that came before the flush. *)
FlushTellsTruth ==
    \A s \in Sink : queue[s].flush = "idle" => HeldIn(queue[s]) \cap 1..asked = {}

(* A slow or dead sink holds nothing for good: whatever its transport does,    *)
(* its queue ends up empty with its pump at rest, so that the next envelope   *)
(* starts it again.                                                          *)
QueuesDrain == \A s \in Sink : []<>(HeldIn(queue[s]) = {} /\ queue[s].pump = "idle")
===============================================================================
