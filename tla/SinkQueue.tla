------------------------------- MODULE SinkQueue -------------------------------
(***************************************************************************)
(* The bounded delivery queue of obs/sinks/queue.ts, as functions of its      *)
(* state.  The program is single-threaded: each operator is what one          *)
(* callback, microtask or call does before the next one can run; AuditStreams *)
(* decides when they happen.                                                 *)
(*                                                                         *)
(* pump is where the one pump loop stands: "idle" (pumping is false),         *)
(* "scheduled" (the microtask of enqueue), "attempt" (send is pending),       *)
(* "settled" (its promise is resolved, deliver has not run yet), "backoff",   *)
(* "woken" (the wait is over), "returned" (deliver is done, run's loop has    *)
(* not looked yet).  flush is the state of the one flush call.  An envelope   *)
(* is its arrival number; of the events only the counts are kept.            *)
(***************************************************************************)
EXTENDS Naturals, SequencesExt

CONSTANTS
    QueueCapacity,   \* envelopes that may wait
    MaxBatch,        \* envelopes of one send
    MaxAttempts      \* sends of one batch

ASSUME SinkQueueAssumption ==
    {QueueCapacity, MaxBatch, MaxAttempts} \subseteq Nat \ {0}

Pumps == {"idle", "scheduled", "attempt", "settled", "backoff", "woken", "returned"}
Results == {"ok", "retry", "refused"}

NewQueue == [items |-> <<>>, pump |-> "idle", batch |-> <<>>, attempts |-> 0, result |-> "ok",
             closed |-> FALSE, flush |-> "none", sent |-> 0, failed |-> 0, dropped |-> 0]

HeldIn(q) == ToSet(q.items) \cup ToSet(q.batch)

Schedule(q) == IF q.pump = "idle" THEN [q EXCEPT !.pump = "scheduled"] ELSE q

\* Mutated Enqueue: what the overflow pushes out is not reported.
EnqueueQuietly(q, e) ==
    IF q.closed THEN [q EXCEPT !.dropped = @ + 1]
    ELSE IF Len(q.items) >= QueueCapacity
         THEN Schedule([q EXCEPT !.items = Append(Tail(@), e)])
         ELSE Schedule([q EXCEPT !.items = Append(@, e)])

\* enqueue: a full queue drops its oldest envelope; an idle pump is scheduled.
Enqueue(q, e) ==
    IF q.closed THEN [q EXCEPT !.dropped = @ + 1]
    ELSE IF Len(q.items) >= QueueCapacity
         THEN Schedule([q EXCEPT !.items = Append(Tail(@), e), !.dropped = @ + 1])
         ELSE Schedule([q EXCEPT !.items = Append(@, e)])

ResolveIdle(q, idle) ==
    IF q.flush = "waiting" THEN [q EXCEPT !.flush = idle] ELSE q

\* Mutated Pump: a pump that ends leaves `pumping` set.
PumpNeverStops(q) ==
    LET n == IF Len(q.items) < MaxBatch THEN Len(q.items) ELSE MaxBatch
    IN  IF ~q.closed /\ n > 0
        THEN [q EXCEPT !.pump = "attempt", !.attempts = 1, !.batch = SubSeq(q.items, 1, n),
                       !.items = SubSeq(@, n + 1, Len(@))]
        ELSE IF q.closed THEN q ELSE ResolveIdle(q, "idle")

\* One turn of run's loop: take a batch and send it, or end.
Pump(q) ==
    LET n == IF Len(q.items) < MaxBatch THEN Len(q.items) ELSE MaxBatch
    IN  IF ~q.closed /\ n > 0
        THEN [q EXCEPT !.pump = "attempt", !.attempts = 1, !.batch = SubSeq(q.items, 1, n),
                       !.items = SubSeq(@, n + 1, Len(@))]
        ELSE IF q.closed THEN [q EXCEPT !.pump = "idle"]
             ELSE ResolveIdle([q EXCEPT !.pump = "idle"], "idle")

\* settle of attempt: only the first result of an attempt counts.
SettleAttempt(q, result) == [q EXCEPT !.pump = "settled", !.result = result]

Report(q, event) ==
    LET n == Len(q.batch)
    IN  CASE event = "sent"    -> [q EXCEPT !.sent = @ + n]
          [] event = "dropped" -> [q EXCEPT !.dropped = @ + n]
          [] event = "giveUp"  -> [q EXCEPT !.failed = @ + n, !.dropped = @ + n]

EndDeliver(q, event) == [Report(q, event) EXCEPT !.pump = "returned", !.batch = <<>>]

\* deliver, after `await attempt(batch)`.
AfterAttempt(q) ==
    CASE q.result = "ok" -> EndDeliver(q, "sent")
      [] q.result # "ok" /\ q.closed -> EndDeliver(q, "dropped")
      [] q.result # "ok" /\ ~q.closed /\ (q.result = "refused" \/ q.attempts >= MaxAttempts) ->
             EndDeliver(q, "giveUp")
      [] OTHER -> [q EXCEPT !.pump = "backoff"]

\* deliver, after `await wait(...)`.
AfterBackoff(q) ==
    IF q.closed THEN EndDeliver(q, "dropped")
    ELSE [q EXCEPT !.pump = "attempt", !.attempts = @ + 1]

\* Mutated StartFlush: a batch in flight does not count as work.
StartFlushEarly(q) ==
    CASE q.closed -> [q EXCEPT !.flush = "not"]
      [] ~q.closed /\ q.items = <<>> -> [q EXCEPT !.flush = "idle"]
      [] OTHER -> [q EXCEPT !.flush = "waiting"]

\* flush: answered at once when closed or idle, else by the pump, close or its timer.
StartFlush(q) ==
    CASE q.closed -> [q EXCEPT !.flush = "not"]
      [] ~q.closed /\ q.pump = "idle" /\ q.items = <<>> -> [q EXCEPT !.flush = "idle"]
      [] OTHER -> [q EXCEPT !.flush = "waiting"]

\* close's interrupt ends the attempt or the backoff the pump waits in.
Interrupt(q) ==
    CASE q.pump = "attempt" -> SettleAttempt(q, "refused")
      [] q.pump = "backoff" -> [q EXCEPT !.pump = "woken"]
      [] OTHER -> q

CloseQueue(q) ==
    IF q.closed THEN q
    ELSE ResolveIdle(Interrupt([q EXCEPT !.closed = TRUE, !.items = <<>>,
                                         !.dropped = @ + Len(q.items)]), "not")
===============================================================================
