---------------------------- MODULE Shutdown_proofs ----------------------------
(***************************************************************************)
(* Proofs about what the end of the process runs through.  AuditStreams, for  *)
(* any sinks, queue and batch sizes, attempts and arrivals: what each queue    *)
(* owes is an invariant of its own (Owes), kept by every operator of SinkQueue;*)
(* a step of the fan-out applies one operator to one queue or to all.         *)
(* ConnectorLifecycle over HeadlessJobs, for any sessions, classes, principals,*)
(* limits and numbers of restarts: what a process knows of its jobs is sound   *)
(* (Sound), every step keeps it and the answers it gives (Truthful), and the   *)
(* stations of the shutdown say how far it got (LifeInv).                     *)
(***************************************************************************)
EXTENDS AuditStreams, ConnectorLifecycle, TLAPS, FiniteSetTheorems, NaturalsInduction,
        WellFoundedInduction

QueueType ==
    [items : Seq(Nat), pump : Pumps, batch : Seq(Nat), attempts : Nat, result : Results,
     closed : BOOLEAN, flush : {"none", "waiting", "idle", "not"},
     sent : Nat, failed : Nat, dropped : Nat]

AllAfter(s, a) == \A i \in DOMAIN s : s[i] > a

(* Of n envelopes every one is held or reported, a pump that does not deliver  *)
(* has no batch, and a flush answered with true is about nothing it holds.    *)
Owes(q, n, a) ==
    /\ q \in QueueType
    /\ q.sent + q.dropped + Len(q.items) + Len(q.batch) = n
    /\ q.pump \in {"idle", "scheduled", "returned"} => q.batch = <<>>
    /\ q.flush = "idle" => AllAfter(q.items, a) /\ AllAfter(q.batch, a)

QueuesInv ==
    /\ arrived \in Nat /\ asked \in Nat /\ asked <= arrived
    /\ DOMAIN queue = Sink
    /\ \A s \in Sink : Owes(queue[s], arrived, asked)

-------------------------------------------------------------------------------
(* What waits stays later than a flush when the queue grows and shrinks.       *)
LEMMA AfterKept ==
  ASSUME NEW s \in Seq(Nat), NEW a \in Nat, AllAfter(s, a)
  PROVE  /\ \A e \in Nat : e > a => AllAfter(Append(s, e), a)
         /\ s # <<>> => AllAfter(Tail(s), a)
         /\ \A i, j \in Nat : 1 <= i /\ j <= Len(s) => AllAfter(SubSeq(s, i, j), a)
<1>1. \A e \in Nat : e > a => AllAfter(Append(s, e), a)
  BY DEF AllAfter
<1>2. s # <<>> => AllAfter(Tail(s), a)
  BY DEF AllAfter
<1>3. ASSUME NEW i \in Nat, NEW j \in Nat, 1 <= i, j <= Len(s) PROVE AllAfter(SubSeq(s, i, j), a)
  BY <1>3 DEF AllAfter
<1> QED
  BY <1>1, <1>2, <1>3

(* Nothing is later than everything in an empty queue.                        *)
LEMMA AfterEmpty == \A a : AllAfter(<<>>, a)
BY DEF AllAfter

(* Fields that are changed to values of their types leave a queue state.       *)
LEMMA Updated ==
  ASSUME NEW q \in QueueType
  PROVE  /\ \A pump \in Pumps : [q EXCEPT !.pump = pump] \in QueueType
         /\ \A pump \in Pumps, result \in Results :
               [q EXCEPT !.pump = pump, !.result = result] \in QueueType
         /\ \A pump \in Pumps, n \in Nat : [q EXCEPT !.pump = pump, !.attempts = n] \in QueueType
         /\ \A pump \in Pumps, s \in Seq(Nat) : [q EXCEPT !.pump = pump, !.batch = s] \in QueueType
         /\ \A pump \in Pumps, n \in Nat, s, t \in Seq(Nat) :
               [q EXCEPT !.pump = pump, !.attempts = n, !.batch = s, !.items = t] \in QueueType
         /\ \A flush \in {"none", "waiting", "idle", "not"} : [q EXCEPT !.flush = flush] \in QueueType
         /\ \A s \in Seq(Nat) : [q EXCEPT !.items = s] \in QueueType
         /\ \A s \in Seq(Nat), n \in Nat : [q EXCEPT !.items = s, !.dropped = n] \in QueueType
         /\ \A s \in Seq(Nat), n \in Nat :
               [q EXCEPT !.closed = TRUE, !.items = s, !.dropped = n] \in QueueType
         /\ \A n \in Nat : [q EXCEPT !.sent = n] \in QueueType
         /\ \A n \in Nat : [q EXCEPT !.dropped = n] \in QueueType
         /\ \A n, m \in Nat : [q EXCEPT !.failed = n, !.dropped = m] \in QueueType
BY DEF QueueType

(* What the type says of the fields that are counted.                         *)
LEMMA Counted ==
  ASSUME NEW q \in QueueType
  PROVE  /\ q.items \in Seq(Nat) /\ q.batch \in Seq(Nat)
         /\ Len(q.items) \in Nat /\ Len(q.batch) \in Nat
         /\ {q.sent, q.failed, q.dropped, q.attempts} \subseteq Nat
BY DEF QueueType

(* An envelope more: the pump of an idle queue is scheduled (enqueue).         *)
LEMMA ScheduleOwes ==
  ASSUME NEW q, NEW n \in Nat, NEW a \in Nat, Owes(q, n, a)
  PROVE  Owes(Schedule(q), n, a)
<1>1. q \in QueueType
  BY DEF Owes
<1>2. [q EXCEPT !.pump = "scheduled"] \in QueueType
  BY <1>1, Updated DEF Pumps
<1> QED
  BY <1>1, <1>2 DEF Schedule, Owes, QueueType

(* One envelope more, dropped or waiting, keeps the account balanced.          *)
LEMMA OneMore ==
  ASSUME NEW sn \in Nat, NEW dn \in Nat, NEW wn \in Nat, NEW bn \in Nat, NEW n \in Nat,
         sn + dn + wn + bn = n
  PROVE  sn + (dn + 1) + wn + bn = n + 1 /\ sn + dn + (wn + 1) + bn = n + 1
OBVIOUS

(* A full queue drops its oldest envelope and reports it (enqueue).            *)
LEMMA EnqueueOwes ==
  ASSUME NEW q, NEW n \in Nat, NEW a \in Nat, Owes(q, n, a), a <= n
  PROVE  Owes(Enqueue(q, n + 1), n + 1, a)
<1>1. q \in QueueType
  BY DEF Owes
<1>2. CASE q.closed
  <2>0. q.dropped + 1 \in Nat
    BY <1>1, Counted
  <2>1. [q EXCEPT !.dropped = q.dropped + 1] \in QueueType
    BY <1>1, <2>0, Updated
  <2> DEFINE r == [q EXCEPT !.dropped = q.dropped + 1]
  <2>2. /\ r.dropped = q.dropped + 1 /\ r.sent = q.sent /\ r.items = q.items
        /\ r.batch = q.batch /\ r.pump = q.pump /\ r.flush = q.flush
    BY <1>1 DEF QueueType
  <2> HIDE DEF r
  <2>3. r.sent + r.dropped + Len(r.items) + Len(r.batch) = n + 1
    <3>1. /\ q.sent \in Nat /\ q.dropped \in Nat /\ Len(q.items) \in Nat /\ Len(q.batch) \in Nat
          /\ q.sent + q.dropped + Len(q.items) + Len(q.batch) = n
      BY <1>1, Counted DEF Owes
    <3> DEFINE sn == q.sent
               dn == q.dropped
               wn == Len(q.items)
               bn == Len(q.batch)
    <3>2. sn \in Nat /\ dn \in Nat /\ wn \in Nat /\ bn \in Nat /\ sn + dn + wn + bn = n
      BY <3>1
    <3> HIDE DEF sn, dn, wn, bn
    <3>3. sn + (dn + 1) + wn + bn = n + 1
      BY <3>2
    <3> QED
      BY <2>2, <3>3 DEF sn, dn, wn, bn
  <2>4. Owes(r, n + 1, a)
    BY <2>1, <2>2, <2>3 DEF Owes, r
  <2> QED
    BY <1>2, <2>4 DEF Enqueue, r
<1>3. CASE ~q.closed /\ Len(q.items) >= QueueCapacity
  <2> DEFINE r == [q EXCEPT !.items = Append(Tail(q.items), n + 1), !.dropped = q.dropped + 1]
  <2>1. q.items \in Seq(Nat) /\ q.items # <<>>
    BY <1>1, <1>3, Counted, SinkQueueAssumption
  <2>2. /\ Tail(q.items) \in Seq(Nat) /\ Append(Tail(q.items), n + 1) \in Seq(Nat)
        /\ Len(Append(Tail(q.items), n + 1)) = Len(q.items)
    BY <2>1
  <2>3. AllAfter(q.items, a) => AllAfter(Append(Tail(q.items), n + 1), a)
    <3>1. ASSUME AllAfter(q.items, a) PROVE AllAfter(Tail(q.items), a)
      BY <2>1, <3>1, AfterKept
    <3>2. n + 1 \in Nat /\ n + 1 > a
      OBVIOUS
    <3> QED
      BY <2>2, <3>1, <3>2, AfterKept
  <2>4. q.dropped + 1 \in Nat
    BY <1>1, Counted
  <2>5. r \in QueueType
    BY <1>1, <2>2, <2>4, Updated
  <2>6. /\ r.items = Append(Tail(q.items), n + 1) /\ r.dropped = q.dropped + 1
        /\ r.batch = q.batch /\ r.pump = q.pump /\ r.flush = q.flush /\ r.sent = q.sent
    BY <1>1 DEF QueueType
  <2>7. Enqueue(q, n + 1) = Schedule(r)
    BY <1>3 DEF Enqueue
  <2> HIDE DEF r
  <2>8. r.sent + r.dropped + Len(r.items) + Len(r.batch) = n + 1
    <3>1. q.sent + q.dropped + Len(q.items) + Len(q.batch) = n
      BY DEF Owes
    <3>2. Len(r.items) = Len(q.items) /\ Len(r.batch) = Len(q.batch)
      BY <2>2, <2>6
    <3>3. q.sent \in Nat /\ q.dropped \in Nat /\ Len(q.items) \in Nat /\ Len(q.batch) \in Nat
      BY <1>1, Counted
    <3>4. q.sent + (q.dropped + 1) + Len(q.items) + Len(q.batch) = n + 1
      <4> DEFINE sn == q.sent
                 dn == q.dropped
                 wn == Len(q.items)
                 bn == Len(q.batch)
      <4>1. sn \in Nat /\ dn \in Nat /\ wn \in Nat /\ bn \in Nat /\ sn + dn + wn + bn = n
        BY <3>1, <3>3
      <4> HIDE DEF sn, dn, wn, bn
      <4>2. sn + (dn + 1) + wn + bn = n + 1 /\ sn + dn + (wn + 1) + bn = n + 1
        BY <4>1, OneMore
      <4> QED
        BY <4>2 DEF sn, dn, wn, bn
    <3> QED
      BY <2>6, <3>2, <3>4, Zenon
  <2>9. Owes(r, n + 1, a)
    BY <2>3, <2>5, <2>6, <2>8 DEF Owes
  <2> QED
    BY <2>7, <2>9, ScheduleOwes
<1>4. CASE ~q.closed /\ ~(Len(q.items) >= QueueCapacity)
  <2> DEFINE r == [q EXCEPT !.items = Append(q.items, n + 1)]
  <2>1. q.items \in Seq(Nat)
    BY <1>1, Counted
  <2>2. Append(q.items, n + 1) \in Seq(Nat) /\ Len(Append(q.items, n + 1)) = Len(q.items) + 1
    BY <2>1
  <2>3. AllAfter(q.items, a) => AllAfter(Append(q.items, n + 1), a)
    BY <2>1, AfterKept
  <2>4. r \in QueueType
    BY <1>1, <2>2, Updated
  <2>5. /\ r.items = Append(q.items, n + 1) /\ r.dropped = q.dropped
        /\ r.batch = q.batch /\ r.pump = q.pump /\ r.flush = q.flush /\ r.sent = q.sent
    BY <1>1 DEF QueueType
  <2>6. Enqueue(q, n + 1) = Schedule(r)
    BY <1>4 DEF Enqueue
  <2> HIDE DEF r
  <2>7. r.sent + r.dropped + Len(r.items) + Len(r.batch) = n + 1
    <3>1. q.sent + q.dropped + Len(q.items) + Len(q.batch) = n
      BY DEF Owes
    <3>2. Len(r.items) = Len(q.items) + 1 /\ Len(r.batch) = Len(q.batch)
      BY <2>2, <2>5
    <3>3. q.sent \in Nat /\ q.dropped \in Nat /\ Len(q.items) \in Nat /\ Len(q.batch) \in Nat
      BY <1>1, Counted
    <3>4. q.sent + q.dropped + (Len(q.items) + 1) + Len(q.batch) = n + 1
      <4> DEFINE sn == q.sent
                 dn == q.dropped
                 wn == Len(q.items)
                 bn == Len(q.batch)
      <4>1. sn \in Nat /\ dn \in Nat /\ wn \in Nat /\ bn \in Nat /\ sn + dn + wn + bn = n
        BY <3>1, <3>3
      <4> HIDE DEF sn, dn, wn, bn
      <4>2. sn + (dn + 1) + wn + bn = n + 1 /\ sn + dn + (wn + 1) + bn = n + 1
        BY <4>1, OneMore
      <4> QED
        BY <4>2 DEF sn, dn, wn, bn
    <3> QED
      BY <2>5, <3>2, <3>4, Zenon
  <2>8. Owes(r, n + 1, a)
    BY <2>3, <2>4, <2>5, <2>7 DEF Owes
  <2> QED
    BY <2>6, <2>8, ScheduleOwes
<1> QED
  BY <1>2, <1>3, <1>4

(* The pump takes the oldest envelopes, or ends and answers the flush (run).   *)
LEMMA PumpOwes ==
  ASSUME NEW q, NEW n \in Nat, NEW a \in Nat, Owes(q, n, a), q.pump \in {"scheduled", "returned"}
  PROVE  Owes(Pump(q), n, a)
<1> DEFINE k == IF Len(q.items) < MaxBatch THEN Len(q.items) ELSE MaxBatch
           batch == SubSeq(q.items, 1, k)
           rest == SubSeq(q.items, k + 1, Len(q.items))
<1>0. q \in QueueType /\ q.batch = <<>>
  BY DEF Owes
<1>1. q.items \in Seq(Nat) /\ k \in Nat /\ k <= Len(q.items) /\ (k = 0 => q.items = <<>>)
  BY <1>0, Counted, SinkQueueAssumption
<1>2. batch \in Seq(Nat) /\ rest \in Seq(Nat) /\ Len(batch) = k /\ Len(rest) = Len(q.items) - k
  <2> HIDE DEF k
  <2> QED
    BY <1>1
<1>3. AllAfter(q.items, a) => AllAfter(batch, a) /\ AllAfter(rest, a)
  <2>1. Len(q.items) \in Nat /\ 1 \in Nat /\ k + 1 \in Nat /\ 1 <= k + 1
    BY <1>1
  <2> HIDE DEF k
  <2> QED
    BY <1>1, <2>1, AfterKept
<1>4. CASE ~q.closed /\ k > 0
  <2> DEFINE r == [q EXCEPT !.pump = "attempt", !.attempts = 1, !.batch = batch, !.items = rest]
  <2>1. Pump(q) = r
    BY <1>4 DEF Pump
  <2> HIDE DEF batch, rest
  <2>2. r \in QueueType
    BY <1>0, <1>2, Updated DEF Pumps
  <2>3. /\ r.pump = "attempt" /\ r.batch = batch /\ r.items = rest
        /\ r.flush = q.flush /\ r.sent = q.sent /\ r.dropped = q.dropped
    BY <1>0 DEF QueueType
  <2>4. Owes(r, n, a)
    <3> HIDE DEF r, k
    <3>1. Len(q.batch) = 0
      BY <1>0
    <3>2. r.sent + r.dropped + Len(r.items) + Len(r.batch) = n
      BY <1>0, <1>1, <1>2, <2>3, <3>1, Counted DEF Owes
    <3> QED
      BY <1>3, <2>2, <2>3, <3>2 DEF Owes
  <2> QED
    BY <2>1, <2>4
<1>5. CASE ~(~q.closed /\ k > 0)
  <2> DEFINE r == [q EXCEPT !.pump = "idle"]
  <2>1. r \in QueueType /\ [r EXCEPT !.flush = "idle"] \in QueueType
    BY <1>0, Updated DEF Pumps
  <2>2. Owes(r, n, a)
    BY <1>0, <2>1 DEF Owes, QueueType
  <2>3. q.items = <<>> => Owes([r EXCEPT !.flush = "idle"], n, a)
    BY <1>0, <2>1, AfterEmpty DEF Owes, QueueType
  <2>4. Pump(q) = IF q.closed THEN r ELSE ResolveIdle(r, "idle")
    BY <1>5 DEF Pump
  <2> HIDE DEF r
  <2> QED
    BY <1>1, <1>5, <2>2, <2>3, <2>4 DEF ResolveIdle
<1> QED
  BY <1>4, <1>5

(* A batch leaves the queue as it is reported, once (deliver, giveUp).         *)
LEMMA DeliverOwes ==
  ASSUME NEW q, NEW n \in Nat, NEW a \in Nat, Owes(q, n, a)
  PROVE  Owes(AfterAttempt(q), n, a) /\ Owes(AfterBackoff(q), n, a)
<1>1. q \in QueueType
  BY DEF Owes
<1>2. ASSUME NEW event \in {"sent", "dropped", "giveUp"} PROVE Owes(EndDeliver(q, event), n, a)
  <2> DEFINE r == Report(q, event)
             e == [r EXCEPT !.pump = "returned", !.batch = <<>>]
  <2>1. /\ q.sent + Len(q.batch) \in Nat /\ q.dropped + Len(q.batch) \in Nat
        /\ q.failed + Len(q.batch) \in Nat
    BY <1>1, Counted
  <2>2. r \in QueueType
    BY <1>1, <1>2, <2>1, Updated DEF Report
  <2>3. /\ r.sent + r.dropped = q.sent + q.dropped + Len(q.batch)
        /\ r.items = q.items /\ r.flush = q.flush
    BY <1>1, <1>2, Counted DEF Report, QueueType
  <2> HIDE DEF r
  <2>4. <<>> \in Seq(Nat)
    OBVIOUS
  <2>5. e \in QueueType
    BY <2>2, <2>4, Updated DEF Pumps
  <2>6. /\ e.batch = <<>> /\ e.items = q.items /\ e.flush = q.flush
        /\ e.sent = r.sent /\ e.dropped = r.dropped
    BY <2>2, <2>3 DEF QueueType
  <2>7. EndDeliver(q, event) = e
    BY DEF EndDeliver, r
  <2> HIDE DEF e
  <2>8. e.sent + e.dropped + Len(e.items) + Len(e.batch) = n
    <3>1. Len(e.batch) = 0
      BY <2>6
    <3> QED
      BY <1>1, <2>2, <2>3, <2>6, <3>1, Counted DEF Owes
  <2>9. Owes(e, n, a)
    BY <2>5, <2>6, <2>8, AfterEmpty DEF Owes
  <2> QED
    BY <2>7, <2>9
<1>3. Owes([q EXCEPT !.pump = "backoff"], n, a)
  <2>1. [q EXCEPT !.pump = "backoff"] \in QueueType
    BY <1>1, Updated DEF Pumps
  <2> QED
    BY <1>1, <2>1 DEF Owes, QueueType
<1>4. Owes([q EXCEPT !.pump = "attempt", !.attempts = q.attempts + 1], n, a)
  <2>0. q.attempts + 1 \in Nat
    BY <1>1, Counted
  <2>1. [q EXCEPT !.pump = "attempt", !.attempts = q.attempts + 1] \in QueueType
    BY <1>1, <2>0, Updated DEF Pumps
  <2> QED
    BY <1>1, <2>1 DEF Owes, QueueType
<1>5. Owes(AfterAttempt(q), n, a)
  BY <1>2, <1>3 DEF AfterAttempt
<1>6. Owes(AfterBackoff(q), n, a)
  BY <1>2, <1>4 DEF AfterBackoff
<1> QED
  BY <1>5, <1>6

(* A result, the end of a backoff and the end of a flush change no envelope.   *)
LEMMA OthersOwe ==
  ASSUME NEW q, NEW n \in Nat, NEW a \in Nat, Owes(q, n, a)
  PROVE  /\ \A result \in Results : Owes(SettleAttempt(q, result), n, a)
         /\ Owes([q EXCEPT !.pump = "woken"], n, a)
         /\ Owes([q EXCEPT !.flush = "not"], n, a)
<1>1. q \in QueueType
  BY DEF Owes
<1>2. ASSUME NEW result \in Results PROVE Owes(SettleAttempt(q, result), n, a)
  <2>1. SettleAttempt(q, result) \in QueueType
    BY <1>1, Updated DEF SettleAttempt, Pumps
  <2> QED
    BY <1>1, <2>1 DEF SettleAttempt, Owes, QueueType
<1>3. Owes([q EXCEPT !.pump = "woken"], n, a)
  <2>1. [q EXCEPT !.pump = "woken"] \in QueueType
    BY <1>1, Updated DEF Pumps
  <2> QED
    BY <1>1, <2>1 DEF Owes, QueueType
<1>4. Owes([q EXCEPT !.flush = "not"], n, a)
  <2>1. [q EXCEPT !.flush = "not"] \in QueueType
    BY <1>1, Updated
  <2> QED
    BY <1>1, <2>1 DEF Owes, QueueType
<1> QED
  BY <1>2, <1>3, <1>4

(* A flush is answered at once only by a queue that holds nothing (flush).     *)
LEMMA FlushOwes ==
  ASSUME NEW q, NEW n \in Nat, NEW a \in Nat, Owes(q, n, a)
  PROVE  Owes(StartFlush(q), n, n)
<1>1. q \in QueueType
  BY DEF Owes
<1>2. ASSUME NEW flush \in {"waiting", "not"} PROVE Owes([q EXCEPT !.flush = flush], n, n)
  <2>1. [q EXCEPT !.flush = flush] \in QueueType
    BY <1>1, Updated
  <2> QED
    BY <1>1, <2>1 DEF Owes, QueueType
<1>3. ASSUME q.pump = "idle", q.items = <<>> PROVE Owes([q EXCEPT !.flush = "idle"], n, n)
  <2>1. [q EXCEPT !.flush = "idle"] \in QueueType
    BY <1>1, Updated
  <2> QED
    BY <1>1, <1>3, <2>1, AfterEmpty DEF Owes, QueueType
<1> QED
  BY <1>2, <1>3 DEF StartFlush

(* close reports what waits, and leaves the batch in flight to its pump.       *)
LEMMA CloseOwes ==
  ASSUME NEW q, NEW n \in Nat, NEW a \in Nat, Owes(q, n, a)
  PROVE  Owes(CloseQueue(q), n, a)
<1>1. q \in QueueType
  BY DEF Owes
<1> DEFINE r == [q EXCEPT !.closed = TRUE, !.items = <<>>, !.dropped = q.dropped + Len(q.items)]
<1>2. r \in QueueType
  <2>1. <<>> \in Seq(Nat) /\ q.dropped + Len(q.items) \in Nat
    BY <1>1, Counted
  <2> QED
    BY <1>1, <2>1, Updated
<1>3. Owes(r, n, a)
  BY <1>1, <1>2, AfterEmpty, Counted DEF Owes, QueueType
<1> HIDE DEF r
<1>4. Owes(Interrupt(r), n, a)
  BY <1>3, OthersOwe DEF Interrupt, Results
<1>5. Owes(ResolveIdle(Interrupt(r), "not"), n, a)
  BY <1>4, OthersOwe DEF ResolveIdle
<1> QED
  BY <1>5 DEF CloseQueue, r

-------------------------------------------------------------------------------
(* The initial states satisfy the invariant. *)
LEMMA InitInductive == Init => QueuesInv
BY DEF Init, QueuesInv, Owes, QueueType, NewQueue, Pumps, Results, AllAfter

(* Every step keeps it. *)
LEMMA StepInductive == QueuesInv /\ [Next]_vars => QueuesInv'
<1> SUFFICES ASSUME QueuesInv, [Next]_vars PROVE QueuesInv'
  OBVIOUS
<1> USE DEF QueuesInv
<1>1. CASE FanOut
  BY <1>1, EnqueueOwes DEF FanOut
<1>2. ASSUME NEW s \in Sink, NEW q, Turn(s, q), Owes(q, arrived, asked) PROVE QueuesInv'
  BY <1>2 DEF Turn
<1>3. ASSUME NEW s \in Sink, PumpTurn(s) PROVE QueuesInv'
  BY <1>2, <1>3, PumpOwes, DeliverOwes DEF PumpTurn
<1>4. ASSUME NEW s \in Sink, TransportAnswers(s) PROVE QueuesInv'
  BY <1>2, <1>4, OthersOwe DEF TransportAnswers
<1>5. ASSUME NEW s \in Sink, RequestTimesOut(s) PROVE QueuesInv'
  BY <1>2, <1>5, OthersOwe DEF RequestTimesOut, Results
<1>6. ASSUME NEW s \in Sink, BackoffEnds(s) PROVE QueuesInv'
  BY <1>2, <1>6, OthersOwe DEF BackoffEnds
<1>7. ASSUME NEW s \in Sink, FlushTimesOut(s) PROVE QueuesInv'
  BY <1>2, <1>7, OthersOwe DEF FlushTimesOut
<1>8. CASE Flush
  BY <1>8, FlushOwes DEF Flush
<1>9. CASE Close
  BY <1>9, CloseOwes DEF Close
<1>10. CASE UNCHANGED vars
  BY <1>10 DEF vars
<1> QED
  BY <1>1, <1>3, <1>4, <1>5, <1>6, <1>7, <1>8, <1>9, <1>10 DEF Next

(* The inductive invariant holds. *)
LEMMA InvariantHolds == Spec => []QueuesInv
BY InitInductive, StepInductive, PTL DEF Spec

(* Every envelope is waiting, in flight, or reported exactly once, in every    *)
(* queue, whatever transports answer and however overflow, retries, late      *)
(* answers and close fall together (createSinkQueue).                         *)
THEOREM EnvelopesReported == Spec => []EveryEnvelopeReported
<1>1. QueuesInv => EveryEnvelopeReported
  BY DEF QueuesInv, Owes, EveryEnvelopeReported
<1> QED
  BY InvariantHolds, <1>1, PTL

(* A flush that was answered with true leaves nothing behind that came before  *)
(* it (flush, resolveIdle).                                                   *)
THEOREM FlushesTellTruth == Spec => []FlushTellsTruth
<1>1. QueuesInv => FlushTellsTruth
  BY DEF QueuesInv, Owes, QueueType, AllAfter, FlushTellsTruth, HeldIn, ToSet
<1> QED
  BY InvariantHolds, <1>1, PTL
-------------------------------------------------------------------------------
(* The jobs that have no outcome yet.                                          *)
Open(m) == {s \in Session : ~m.job[s].settled}

JobType == [status : {"none", "running"} \cup Outcomes, settled : BOOLEAN,
            reason : {"none"} \cup Aborts, plan : {"thinking", "calling", "ended"}]

PoolType == [held : Int, byPrincipal : [Slots!Principal -> Int],
             waiting : {Slots!EmptyPool.waiting}]

Memories == [jobs : SUBSET Session, job : [Session -> JobType], unpersisted : Seq(Session),
             pool : PoolType, closed : BOOLEAN, stopping : SUBSET Session]

(* The pool counts the holders, all of them and each principal's.              *)
SlotsMatch(pool, holders) ==
    /\ pool.held = Cardinality(holders)
    /\ \A p \in Slots!Principal :
          pool.byPrincipal[p] = Cardinality({s \in holders : PrincipalOf[s] = p})

(* The map holds the open jobs and those that could not be written, each of    *)
(* which is listed once; no one waits for a slot; the open jobs of admitted    *)
(* requests hold one each.                                                   *)
Sound(m) ==
    /\ m \in Memories
    /\ IsFiniteSet(Open(m)) /\ Cardinality(Open(m)) <= MaxConcurrentPlans
    /\ m.jobs = Open(m) \cup ToSet(m.unpersisted)
    /\ \A s \in Open(m) : m.job[s].status = "running" /\ s \notin ToSet(m.unpersisted)
    /\ \A i, j \in DOMAIN m.unpersisted : m.unpersisted[i] = m.unpersisted[j] => i = j
    /\ Len(m.unpersisted) <= UnpersistedMax
    /\ SlotsMatch(m.pool, Open(m) \cap Admitted)

(* Where writes do not fail, a file that says running is that of an open job.  *)
JobsInv ==
    /\ Sound(mem)
    /\ file \in [Session -> {"none", "running"} \cup Outcomes]
    /\ ~Faults => \A s \in Session : file[s] = "running" => s \in Open(mem)

LifeType ==
    [at : {"up", "drain", "flush", "planner", "spans", "stopped", "exited"},
     code : {0, 1}, stop : {"none", "pending", "done", "failed"}, store : {"open", "closed"}]

(* The planner's wait is for all that is open, and who is past it with code 0  *)
(* has passed every step before.                                             *)
LifeInv ==
    /\ JobsInv
    /\ life \in LifeType
    /\ restarts \in 0..MaxRestarts
    /\ life.at \in {"flush", "planner", "spans", "stopped"} => life.stop # "none"
    /\ life.at = "planner" => mem.closed /\ Open(mem) \subseteq mem.stopping
    /\ life.at \in {"spans", "stopped", "exited"} /\ life.code = 0 => mem.closed /\ Open(mem) = {}
    /\ life.at = "exited" /\ life.code = 0 => life.store = "closed" /\ life.stop = "done"

-------------------------------------------------------------------------------
(* Nobody waits for a slot of the planner, so giving one back wakes nobody.    *)
LEMMA NobodyWaits ==
  ASSUME NEW pool, pool.waiting = Slots!EmptyPool.waiting
  PROVE  Slots!AdmitWaiters(pool) = pool
<1>1. Slots!Queued(pool) = {}
  <2>1. \A cls \in Slots!ToSet(Slots!ClassOrder) : pool.waiting[cls] = <<>>
    BY DEF Slots!EmptyPool
  <2>2. Slots!ToSet(<<>>) = {}
    BY DEF Slots!ToSet
  <2> QED
    BY <2>1, <2>2 DEF Slots!Queued
<1> DEFINE k == Slots!Cardinality(Slots!Queued(pool))
           Is(g) == g = [n \in 0..k |-> IF n = 0 THEN {pool}
                                        ELSE {Slots!GrantNext(p) : p \in g[n - 1]}]
           none == [n \in 0..k |-> {pool}]
           f == CHOOSE g : Is(g)
<1>2. k = 0
  <2>1. Slots!Cardinality({}) = Cardinality({})
    BY DEF Slots!Cardinality, Cardinality
  <2> QED
    BY <1>1, <2>1, FS_EmptySet
<1>3. Slots!AdmitWaiters(pool) = CHOOSE p \in f[k] : TRUE
  BY DEF Slots!AdmitWaiters
<1> HIDE DEF k
<1>4. Is(none)
  <2>1. \A n \in 0..k : n = 0
    BY <1>2
  <2> QED
    BY <2>1
<1>5. Is(f)
  <2> HIDE DEF Is, none
  <2> QED
    BY <1>4
<1> HIDE DEF f
<1>6. f[0] = {pool}
  BY <1>2, <1>5
<1> QED
  BY <1>2, <1>3, <1>6

(* One holder more, and one less.                                              *)
LEMMA HolderMore ==
  ASSUME NEW H \in SUBSET Session, IsFiniteSet(H), NEW s \in Session, s \notin H,
         NEW pool \in PoolType, SlotsMatch(pool, H)
  PROVE  Slots!Take(pool, s) \in PoolType /\ SlotsMatch(Slots!Take(pool, s), H \cup {s})
<1> DEFINE t == Slots!Take(pool, s)
           Of(S, p) == {r \in S : PrincipalOf[r] = p}
<1>1. PrincipalOf[s] \in Slots!Principal
  BY DEF Slots!Principal
<1>2. /\ t \in PoolType
      /\ t.held = pool.held + 1
      /\ \A p \in Slots!Principal :
            t.byPrincipal[p] = IF p = PrincipalOf[s] THEN pool.byPrincipal[p] + 1
                               ELSE pool.byPrincipal[p]
  <2> DEFINE by == [pool.byPrincipal EXCEPT ![PrincipalOf[s]] = @ + 1]
  <2>1. /\ by \in [Slots!Principal -> Int]
        /\ \A p \in Slots!Principal :
              by[p] = IF p = PrincipalOf[s] THEN pool.byPrincipal[p] + 1
                      ELSE pool.byPrincipal[p]
    BY <1>1 DEF PoolType
  <2>2. t = [pool EXCEPT !.held = @ + 1, !.byPrincipal = by]
    BY DEF Slots!Take
  <2> HIDE DEF by, t
  <2>3. /\ t.held = pool.held + 1 /\ t.byPrincipal = by
        /\ t.waiting = Slots!EmptyPool.waiting /\ pool.held \in Int
    BY <2>2 DEF PoolType
  <2>4. t \in PoolType
    <3>1. pool = [held |-> pool.held, byPrincipal |-> pool.byPrincipal, waiting |-> pool.waiting]
      BY DEF PoolType
    <3>2. t = [held |-> t.held, byPrincipal |-> t.byPrincipal, waiting |-> t.waiting]
      BY <2>2, <3>1
    <3> QED
      BY <2>1, <2>3, <3>2 DEF PoolType
  <2> QED
    BY <2>1, <2>3, <2>4
<1>3. Cardinality(H \cup {s}) = Cardinality(H) + 1
  BY FS_AddElement
<1>4. ASSUME NEW p \in Slots!Principal PROVE t.byPrincipal[p] = Cardinality(Of(H \cup {s}, p))
  <2>1. IsFiniteSet(Of(H, p)) /\ s \notin Of(H, p)
    BY FS_Subset
  <2>2. CASE p = PrincipalOf[s]
    <3>1. Of(H \cup {s}, p) = Of(H, p) \cup {s}
      BY <2>2
    <3>2. Cardinality(Of(H, p) \cup {s}) = Cardinality(Of(H, p)) + 1
      BY <2>1, FS_AddElement
    <3> HIDE DEF t
    <3> QED
      BY <1>2, <2>2, <3>1, <3>2 DEF SlotsMatch
  <2>3. CASE p # PrincipalOf[s]
    <3>1. Of(H \cup {s}, p) = Of(H, p)
      BY <2>3
    <3> QED
      BY <1>2, <2>3, <3>1 DEF SlotsMatch
  <2> QED
    BY <2>2, <2>3
<1> QED
  BY <1>2, <1>3, <1>4 DEF SlotsMatch

(* One holder less.                                                           *)
LEMMA HolderLess ==
  ASSUME NEW H \in SUBSET Session, IsFiniteSet(H), NEW s \in H,
         NEW pool \in PoolType, SlotsMatch(pool, H)
  PROVE  /\ Slots!ReleaseSlot(pool, s) \in PoolType
         /\ SlotsMatch(Slots!ReleaseSlot(pool, s), H \ {s})
<1> DEFINE t == Slots!Free(pool, s)
           Of(S, p) == {r \in S : PrincipalOf[r] = p}
<1>1. PrincipalOf[s] \in Slots!Principal
  BY DEF Slots!Principal
<1>2. /\ t \in PoolType
      /\ t.held = pool.held - 1
      /\ t.waiting = Slots!EmptyPool.waiting
      /\ \A p \in Slots!Principal :
            t.byPrincipal[p] = IF p = PrincipalOf[s] THEN pool.byPrincipal[p] - 1
                               ELSE pool.byPrincipal[p]
  <2> DEFINE by == [pool.byPrincipal EXCEPT ![PrincipalOf[s]] = @ - 1]
  <2>1. /\ by \in [Slots!Principal -> Int]
        /\ \A p \in Slots!Principal :
              by[p] = IF p = PrincipalOf[s] THEN pool.byPrincipal[p] - 1
                      ELSE pool.byPrincipal[p]
    BY <1>1 DEF PoolType
  <2>2. t = [pool EXCEPT !.held = @ - 1, !.byPrincipal = by]
    BY DEF Slots!Free
  <2> HIDE DEF by, t
  <2>3. /\ t.held = pool.held - 1 /\ t.byPrincipal = by
        /\ t.waiting = Slots!EmptyPool.waiting /\ pool.held \in Int
    BY <2>2 DEF PoolType
  <2>4. t \in PoolType
    <3>1. pool = [held |-> pool.held, byPrincipal |-> pool.byPrincipal, waiting |-> pool.waiting]
      BY DEF PoolType
    <3>2. t = [held |-> t.held, byPrincipal |-> t.byPrincipal, waiting |-> t.waiting]
      BY <2>2, <3>1
    <3> QED
      BY <2>1, <2>3, <3>2 DEF PoolType
  <2> QED
    BY <2>1, <2>3, <2>4
<1>3. Slots!ReleaseSlot(pool, s) = t
  BY <1>2, NobodyWaits DEF Slots!ReleaseSlot
<1>4. Cardinality(H \ {s}) = Cardinality(H) - 1
  BY FS_RemoveElement
<1>5. ASSUME NEW p \in Slots!Principal PROVE t.byPrincipal[p] = Cardinality(Of(H \ {s}, p))
  <2>1. IsFiniteSet(Of(H, p))
    BY FS_Subset
  <2>2. CASE p = PrincipalOf[s]
    <3>1. Of(H \ {s}, p) = Of(H, p) \ {s} /\ s \in Of(H, p)
      BY <2>2
    <3>2. Cardinality(Of(H, p) \ {s}) = Cardinality(Of(H, p)) - 1
      BY <2>1, <3>1, FS_RemoveElement
    <3> HIDE DEF t
    <3> QED
      BY <1>2, <2>2, <3>1, <3>2 DEF SlotsMatch
  <2>3. CASE p # PrincipalOf[s]
    <3>1. Of(H \ {s}, p) = Of(H, p)
      BY <2>3
    <3> QED
      BY <1>2, <2>3, <3>1 DEF SlotsMatch
  <2> QED
    BY <2>2, <2>3
<1> HIDE DEF t
<1>6. SlotsMatch(t, H \ {s})
  BY <1>2, <1>4, <1>5 DEF SlotsMatch
<1> QED
  BY <1>2, <1>3, <1>6

(* A memory stays one when a field gets another value of its type.             *)
LEMMA MemoryUpdated ==
  ASSUME NEW m \in Memories
  PROVE  /\ \A S \in SUBSET Session : [m EXCEPT !.jobs = S] \in Memories
         /\ \A S \in SUBSET Session : [m EXCEPT !.stopping = S] \in Memories
         /\ \A f \in [Session -> JobType] : [m EXCEPT !.job = f] \in Memories
         /\ \A u \in Seq(Session) : [m EXCEPT !.unpersisted = u] \in Memories
         /\ \A p \in PoolType : [m EXCEPT !.pool = p] \in Memories
         /\ \A b \in BOOLEAN : [m EXCEPT !.closed = b] \in Memories
BY DEF Memories

(* Append drops nothing, and with Tail the first of the longer sequence.       *)
LEMMA Pushed ==
  ASSUME NEW u \in Seq(Session), NEW s \in Session
  PROVE  LET a == Append(u, s)
             v == Tail(a)
         IN  /\ a \in Seq(Session) /\ Len(a) = Len(u) + 1
             /\ \A i \in 1..Len(u) : a[i] = u[i]
             /\ a[Len(u) + 1] = s
             /\ v \in Seq(Session) /\ Len(v) = Len(u)
             /\ \A i \in 1..Len(u) : v[i] = IF i = Len(u) THEN s ELSE u[i + 1]
             /\ Head(a) = IF Len(u) = 0 THEN s ELSE u[1]
<1> DEFINE a == Append(u, s)
           v == Tail(a)
           n == Len(u)
<1>1. n \in Nat
  OBVIOUS
<1>2. /\ a \in Seq(Session) /\ Len(a) = n + 1
      /\ \A i \in 1..n : a[i] = u[i]
      /\ a[n + 1] = s
  OBVIOUS
<1> HIDE DEF a
<1>3. a # <<>> /\ Head(a) = a[1]
  BY <1>1, <1>2
<1>4. v \in Seq(Session) /\ Len(v) = Len(a) - 1 /\ \A i \in 1..Len(v) : v[i] = a[i + 1]
  BY <1>2, <1>3
<1> HIDE DEF v, n
<1>5. Len(v) = n
  BY <1>1, <1>2, <1>4
<1>6. \A i \in 1..n : v[i] = IF i = n THEN s ELSE u[i + 1]
  <2> TAKE i \in 1..n
  <2>1. v[i] = a[i + 1]
    BY <1>4, <1>5
  <2> QED
    BY <1>1, <1>2, <2>1
<1>7. Head(a) = IF n = 0 THEN s ELSE u[1]
  BY <1>1, <1>2, <1>3
<1> QED
  BY <1>2, <1>4, <1>5, <1>6, <1>7 DEF a, v, n

(* What finalize does to the map and to the list of unwritten jobs.            *)
Listed(m, n, s) ==
    \/ n.jobs = m.jobs \ {s} /\ n.unpersisted = m.unpersisted
    \/ /\ Len(m.unpersisted) < UnpersistedMax
       /\ n.jobs = m.jobs /\ n.unpersisted = Append(m.unpersisted, s)
    \/ /\ Len(m.unpersisted) = UnpersistedMax
       /\ n.jobs = m.jobs \ {Head(Append(m.unpersisted, s))}
       /\ n.unpersisted = Tail(Append(m.unpersisted, s))

(* finalize as far as the job and its slot go.                                 *)
Settle(m, s, o) == [Unslot(m, s) EXCEPT !.job[s].settled = TRUE, !.job[s].status = o]

(* Its first part: the outcome, and the slot given back.                       *)
LEMMA SettledIs ==
  ASSUME NEW m, Sound(m), NEW s \in Open(m), NEW o \in Outcomes,
         NEW n, n = Settle(m, s, o)
  PROVE  /\ n \in Memories /\ Open(n) = Open(m) \ {s}
         /\ SlotsMatch(n.pool, Open(n) \cap Admitted)
         /\ n.jobs = m.jobs /\ n.unpersisted = m.unpersisted
         /\ n.closed = m.closed /\ n.stopping = m.stopping
         /\ \A t \in Session \ {s} : n.job[t] = m.job[t]
<1> DEFINE b == Unslot(m, s)
           f == [m.job EXCEPT ![s] = [@ EXCEPT !.settled = TRUE, !.status = o]]
           H == Open(m) \cap Admitted
<1>1. m \in Memories /\ s \in Session /\ IsFiniteSet(H) /\ H \in SUBSET Session
      /\ m.pool \in PoolType /\ SlotsMatch(m.pool, H)
  <2>1. H \subseteq Open(m) /\ Open(m) \subseteq Session
    BY DEF Open
  <2>2. IsFiniteSet(H)
    BY <2>1, FS_Subset DEF Sound
  <2> QED
    BY <2>1, <2>2 DEF Sound, Memories
<1>2. /\ b \in Memories /\ b.job = m.job
      /\ b.jobs = m.jobs /\ b.unpersisted = m.unpersisted
      /\ b.closed = m.closed /\ b.stopping = m.stopping
      /\ SlotsMatch(b.pool, (Open(m) \ {s}) \cap Admitted)
  <2>1. CASE s \in Admitted
    <3> DEFINE p == Slots!ReleaseSlot(m.pool, s)
    <3>1. p \in PoolType /\ SlotsMatch(p, H \ {s})
      BY <1>1, <2>1, HolderLess
    <3>2. b = [m EXCEPT !.pool = p]
      BY <2>1 DEF Unslot
    <3> HIDE DEF p, b
    <3>3. b \in Memories
      BY <1>1, <3>1, <3>2, MemoryUpdated
    <3>4. (Open(m) \ {s}) \cap Admitted = H \ {s}
      OBVIOUS
    <3> HIDE DEF H
    <3>5. b.pool = p /\ b.job = m.job /\ b.jobs = m.jobs /\ b.unpersisted = m.unpersisted
          /\ b.closed = m.closed /\ b.stopping = m.stopping
      BY <1>1, <3>2 DEF Memories
    <3> QED
      BY <3>1, <3>3, <3>4, <3>5
  <2>2. CASE s \notin Admitted
    <3>1. b = m /\ (Open(m) \ {s}) \cap Admitted = H
      BY <2>2 DEF Unslot
    <3> QED
      BY <1>1, <3>1
  <2> QED
    BY <2>1, <2>2
<1>3. f \in [Session -> JobType] /\ f[s].settled /\ \A t \in Session \ {s} : f[t] = m.job[t]
  <2>1. m.job \in [Session -> JobType] /\ o \in {"none", "running"} \cup Outcomes
    BY <1>1 DEF Memories
  <2>2. [m.job[s] EXCEPT !.settled = TRUE, !.status = o] \in JobType
    BY <1>1, <2>1 DEF JobType
  <2>3. f[s] = [m.job[s] EXCEPT !.settled = TRUE, !.status = o]
    BY <1>1, <2>1
  <2>4. f[s].settled
    BY <1>1, <2>1, <2>3 DEF JobType
  <2> QED
    BY <1>1, <2>1, <2>2, <2>4
<1>4. n = [b EXCEPT !.job = f]
  BY <1>1, <1>2 DEF Memories, Settle
<1> HIDE DEF b, f, H
<1>5. n \in Memories
  BY <1>2, <1>3, <1>4, MemoryUpdated
<1>6. n.job = f /\ n.pool = b.pool /\ n.jobs = m.jobs /\ n.unpersisted = m.unpersisted
      /\ n.closed = m.closed /\ n.stopping = m.stopping
  BY <1>2, <1>4 DEF Memories
<1>7. Open(n) = Open(m) \ {s}
  BY <1>1, <1>3, <1>6 DEF Open
<1> QED
  BY <1>2, <1>3, <1>5, <1>6, <1>7

(* The list keeps the settled jobs of the map, each once and no more than it   *)
(* may.                                                                      *)
ListSound(m) ==
    /\ m.jobs = Open(m) \cup ToSet(m.unpersisted)
    /\ \A s \in Open(m) : s \notin ToSet(m.unpersisted)
    /\ \A i, j \in DOMAIN m.unpersisted : m.unpersisted[i] = m.unpersisted[j] => i = j
    /\ Len(m.unpersisted) <= UnpersistedMax

(* Who is in a list has a place in it.                                         *)
LEMMA InList ==
  ASSUME NEW u \in Seq(Session)
  PROVE  \A t : t \in ToSet(u) <=> \E i \in 1..Len(u) : u[i] = t
BY DEF ToSet

(* finalize keeps the list sound: nobody twice, nobody who is still open.       *)
LEMMA ListKept ==
  ASSUME NEW m \in Memories, ListSound(m), NEW s \in Open(m), NEW n \in Memories,
         Open(n) = Open(m) \ {s}, Listed(m, n, s)
  PROVE  ListSound(n)
<1> DEFINE u == m.unpersisted
           v == n.unpersisted
<1>1. /\ u \in Seq(Session) /\ v \in Seq(Session) /\ s \in Session
      /\ DOMAIN u = 1..Len(u) /\ DOMAIN v = 1..Len(v)
      /\ UnpersistedMax \in Nat /\ Len(u) \in Nat
  BY HeadlessJobsAssumption DEF Memories, Open
<1>2. \A t : t \in ToSet(u) <=> \E i \in 1..Len(u) : u[i] = t
  BY <1>1, InList
<1>3. \A t : t \in ToSet(v) <=> \E i \in 1..Len(v) : v[i] = t
  BY <1>1, InList
<1>4. /\ m.jobs = Open(m) \cup ToSet(u)
      /\ \A t \in Open(m) : t \notin ToSet(u)
      /\ \A i, j \in 1..Len(u) : u[i] = u[j] => i = j
      /\ Len(u) <= UnpersistedMax
  BY <1>1 DEF ListSound
<1>5. SUFFICES /\ n.jobs = Open(n) \cup ToSet(v)
               /\ \A t \in Open(n) : t \notin ToSet(v)
               /\ \A i, j \in 1..Len(v) : v[i] = v[j] => i = j
               /\ Len(v) <= UnpersistedMax
  BY <1>1 DEF ListSound
<1> HIDE DEF v
<1>6. CASE n.jobs = m.jobs \ {s} /\ v = u
  <2>1. n.jobs = Open(n) \cup ToSet(v)
    BY <1>4, <1>6
  <2> QED
    BY <1>4, <1>6, <2>1
<1>7. CASE /\ Len(u) < UnpersistedMax
           /\ n.jobs = m.jobs /\ v = Append(u, s)
  <2>1. Len(v) = Len(u) + 1 /\ (\A i \in 1..Len(u) : v[i] = u[i]) /\ v[Len(u) + 1] = s
    BY <1>1, <1>7, Pushed
  <2> HIDE DEF u
  <2>2. \A t : t \in ToSet(v) <=> t \in ToSet(u) \/ t = s
    <3>1. \A i \in 1..Len(v) : i \in 1..Len(u) \/ i = Len(u) + 1
      BY <1>1, <2>1
    <3>2. Len(u) + 1 \in 1..Len(v) /\ 1..Len(u) \subseteq 1..Len(v)
      BY <1>1, <2>1
    <3> QED
      BY <1>2, <1>3, <2>1, <3>1, <3>2
  <2>3. n.jobs = Open(n) \cup ToSet(v) /\ \A t \in Open(n) : t \notin ToSet(v)
    BY <1>4, <1>7, <2>2
  <2>4. ASSUME NEW i \in 1..Len(v), NEW j \in 1..Len(v), v[i] = v[j] PROVE i = j
    <3>1. \A k \in 1..Len(u) : u[k] # s
      BY <1>2, <1>4
    <3> QED
      BY <1>1, <1>4, <2>1, <2>4, <3>1
  <2> QED
    BY <1>1, <1>7, <2>1, <2>3, <2>4
<1>8. CASE /\ Len(u) = UnpersistedMax
           /\ n.jobs = m.jobs \ {Head(Append(u, s))}
           /\ v = Tail(Append(u, s))
  <2>1. /\ Len(v) = Len(u)
        /\ \A i \in 1..Len(u) : v[i] = IF i = Len(u) THEN s ELSE u[i + 1]
        /\ Head(Append(u, s)) = IF Len(u) = 0 THEN s ELSE u[1]
    BY <1>1, <1>8, Pushed
  <2> DEFINE h == Head(Append(u, s))
  <2>2. n.jobs = m.jobs \ {h}
    BY <1>8
  <2>3. h = IF Len(u) = 0 THEN s ELSE u[1]
    BY <2>1
  <2> HIDE DEF u, h
  <2>4. \A t : t \in ToSet(v) <=> (t \in ToSet(u) \/ t = s) /\ t # h
    <3> TAKE t
    <3>1. \A k \in 1..Len(u) : u[k] # s
      BY <1>2, <1>4
    <3>2. CASE Len(u) = 0
      BY <1>2, <1>3, <2>1, <2>3, <3>2
    <3>3. CASE Len(u) > 0
      <4>1. h = u[1] /\ v[Len(u)] = s /\ Len(u) \in 1..Len(v)
        <5> DEFINE a == Len(u)
        <5>1. a \in Nat /\ a > 0 /\ Len(v) = a
          BY <1>1, <2>1, <3>3
        <5>2. (\A i \in 1..a : v[i] = IF i = a THEN s ELSE u[i + 1]) /\ (a # 0 => h = u[1])
          BY <2>1, <2>3
        <5> HIDE DEF a
        <5>3. h = u[1] /\ v[a] = s /\ a \in 1..Len(v)
          BY <5>1, <5>2
        <5> QED
          BY <5>3 DEF a
      <4>2. ASSUME t \in ToSet(v) PROVE (t \in ToSet(u) \/ t = s) /\ t # h
        <5>1. PICK i \in 1..Len(v) : v[i] = t
          BY <1>3, <4>2
        <5>2. i \in 1..Len(u) /\ (i # Len(u) => i + 1 \in 1..Len(u) /\ i + 1 # 1)
          <6> DEFINE a == Len(u)
          <6>1. a \in Nat /\ i \in 1..a
            BY <1>1, <2>1, <5>1
          <6> HIDE DEF a
          <6>2. i \in 1..a /\ (i # a => i + 1 \in 1..a /\ i + 1 # 1)
            BY <6>1
          <6> QED
            BY <6>2 DEF a
        <5>3. 1 \in 1..Len(u)
          BY <1>1, <3>3
        <5>4. CASE i = Len(u)
          BY <2>1, <3>1, <4>1, <5>1, <5>2, <5>3, <5>4
        <5>5. CASE i # Len(u)
          <6>1. t = u[i + 1]
            BY <2>1, <5>1, <5>2, <5>5
          <6> QED
            BY <1>2, <1>4, <4>1, <5>2, <5>3, <5>5, <6>1
        <5> QED
          BY <5>4, <5>5
      <4>3. ASSUME t \in ToSet(u), t # h PROVE t \in ToSet(v)
        <5>1. PICK i \in 1..Len(u) : u[i] = t
          BY <1>2, <4>3
        <5>2. i - 1 \in 1..Len(u) /\ i - 1 # Len(u) /\ (i - 1) + 1 = i
          BY <1>1, <4>1, <4>3, <5>1
        <5>3. v[i - 1] = t
          BY <2>1, <5>1, <5>2
        <5> QED
          BY <1>3, <2>1, <5>2, <5>3
      <4>4. s \in ToSet(v)
        BY <1>3, <4>1
      <4> QED
        BY <4>2, <4>3, <4>4
    <3> QED
      BY <1>1, <3>2, <3>3
  <2>5. n.jobs = Open(n) \cup ToSet(v) /\ \A t \in Open(n) : t \notin ToSet(v)
    <3>1. h \notin Open(n)
      <4>1. Len(u) # 0 => u[1] \in ToSet(u)
        BY <1>1, <1>2
      <4> QED
        BY <1>4, <2>3, <4>1
    <3> QED
      BY <1>4, <2>2, <2>4, <3>1
  <2>6. ASSUME NEW i \in 1..Len(v), NEW j \in 1..Len(v), v[i] = v[j] PROVE i = j
    <3>1. \A k \in 1..Len(u) : u[k] # s
      BY <1>2, <1>4
    <3> DEFINE a == Len(u)
    <3>2. a \in Nat /\ i \in 1..a /\ j \in 1..a
      BY <1>1, <2>1
    <3>3. v[i] = (IF i = a THEN s ELSE u[i + 1]) /\ v[j] = (IF j = a THEN s ELSE u[j + 1])
      BY <2>1, <3>2
    <3>4. (i # a => i + 1 \in 1..a) /\ (j # a => j + 1 \in 1..a)
      BY <3>2
    <3>5. i # a /\ j # a => i + 1 = j + 1
      BY <1>4, <2>6, <3>3, <3>4
    <3> HIDE DEF a
    <3>6. i = a <=> j = a
      BY <2>6, <3>1, <3>3, <3>4 DEF a
    <3> QED
      BY <3>2, <3>5, <3>6
  <2> QED
    BY <1>8, <2>1, <2>5, <2>6 DEF u
<1> QED
  BY <1>6, <1>7, <1>8 DEF Listed, v

(* A job without an outcome gets it: its slot is given back, and it leaves the *)
(* map or joins the list.                                                    *)
LEMMA FinalizeIs ==
  ASSUME NEW m, Sound(m), NEW s \in Open(m), NEW o \in Outcomes, NEW W
  PROVE  LET n == Finalize(m, s, o, W)
         IN  /\ Sound(n) /\ Open(n) = Open(m) \ {s} /\ Listed(m, n, s)
             /\ n.closed = m.closed /\ n.stopping = m.stopping
             /\ \A t \in Session \ {s} : n.job[t] = m.job[t]
<1> DEFINE b == Settle(m, s, o)
           u == m.unpersisted
           n == Finalize(m, s, o, W)
<1>1. /\ b \in Memories /\ Open(b) = Open(m) \ {s}
      /\ SlotsMatch(b.pool, Open(b) \cap Admitted)
      /\ b.jobs = m.jobs /\ b.unpersisted = u
      /\ b.closed = m.closed /\ b.stopping = m.stopping
      /\ \A t \in Session \ {s} : b.job[t] = m.job[t]
  <2> HIDE DEF b
  <2> QED
    BY SettledIs DEF b
<1>2. m \in Memories /\ s \in Session /\ u \in Seq(Session) /\ m.jobs \in SUBSET Session
      /\ ListSound(m) /\ Len(u) \in Nat /\ UnpersistedMax \in Nat
  BY HeadlessJobsAssumption DEF Sound, ListSound, Memories, Open
<1>3. n = IF s \in W THEN [b EXCEPT !.jobs = @ \ {s}] ELSE Keep(b, s)
  BY DEF Finalize, Settle
<1> HIDE DEF b, n
<1>4. /\ n \in Memories /\ Listed(m, n, s)
      /\ n.job = b.job /\ n.pool = b.pool /\ n.closed = b.closed /\ n.stopping = b.stopping
  <2>1. CASE s \in W
    <3>1. n = [b EXCEPT !.jobs = m.jobs \ {s}]
      BY <1>1, <1>3, <2>1
    <3>2. n \in Memories
      <4>1. m.jobs \ {s} \in SUBSET Session
        BY <1>2
      <4> HIDE DEF u
      <4> QED
        BY <1>1, <3>1, <4>1, MemoryUpdated
    <3>3. /\ n.jobs = m.jobs \ {s} /\ n.unpersisted = u
          /\ n.job = b.job /\ n.pool = b.pool /\ n.closed = b.closed /\ n.stopping = b.stopping
      BY <1>1, <3>1 DEF Memories
    <3> QED
      BY <3>2, <3>3 DEF Listed
  <2>2. CASE s \notin W /\ Len(u) < UnpersistedMax
    <3> DEFINE v == Append(u, s)
    <3>1. n = [b EXCEPT !.unpersisted = v]
      BY <1>1, <1>3, <2>2 DEF Keep
    <3>2. v \in Seq(Session)
      BY <1>2, Pushed
    <3> HIDE DEF v
    <3>3. n \in Memories
      BY <1>1, <3>1, <3>2, MemoryUpdated
    <3>4. /\ n.jobs = m.jobs /\ n.unpersisted = v
          /\ n.job = b.job /\ n.pool = b.pool /\ n.closed = b.closed /\ n.stopping = b.stopping
      BY <1>1, <3>1 DEF Memories
    <3> QED
      BY <2>2, <3>3, <3>4 DEF Listed, v
  <2>3. CASE s \notin W /\ ~(Len(u) < UnpersistedMax)
    <3> DEFINE v == Tail(Append(u, s))
               S == m.jobs \ {Head(Append(u, s))}
    <3>1. n = [[b EXCEPT !.unpersisted = v] EXCEPT !.jobs = S]
      BY <1>1, <1>3, <2>3 DEF Keep
    <3>2. v \in Seq(Session) /\ S \in SUBSET Session
      BY <1>2, Pushed
    <3>3. Len(u) = UnpersistedMax
      BY <1>2, <2>3 DEF ListSound
    <3> HIDE DEF v, S
    <3>4. n \in Memories
      <4>1. [b EXCEPT !.unpersisted = v] \in Memories
        BY <1>1, <3>2, MemoryUpdated
      <4> DEFINE c == [b EXCEPT !.unpersisted = v]
      <4>2. c \in Memories
        BY <4>1
      <4>3. n = [c EXCEPT !.jobs = S]
        BY <3>1
      <4> HIDE DEF c
      <4> QED
        BY <3>2, <4>2, <4>3, MemoryUpdated
    <3>5. /\ n.jobs = S /\ n.unpersisted = v
          /\ n.job = b.job /\ n.pool = b.pool /\ n.closed = b.closed /\ n.stopping = b.stopping
      BY <1>1, <3>1 DEF Memories
    <3> QED
      BY <3>3, <3>4, <3>5 DEF Listed, v, S
  <2> QED
    BY <2>1, <2>2, <2>3
<1>5. Open(n) = Open(m) \ {s}
  BY <1>1, <1>4 DEF Open
<1>6. ListSound(n)
  BY <1>2, <1>4, <1>5, ListKept
<1>7. IsFiniteSet(Open(n)) /\ Cardinality(Open(n)) <= MaxConcurrentPlans
  <2>1. IsFiniteSet(Open(m)) /\ Cardinality(Open(m)) <= MaxConcurrentPlans
    BY DEF Sound
  <2>2. IsFiniteSet(Open(n)) /\ Cardinality(Open(n)) <= Cardinality(Open(m))
    BY <1>5, <2>1, FS_Subset
  <2> QED
    BY <2>1, <2>2, FS_CardinalityType, HeadlessJobsAssumption
<1>8. ASSUME NEW t \in Open(n) PROVE n.job[t].status = "running"
  <2>1. t \in Open(m) /\ t \in Session \ {s}
    BY <1>5 DEF Open
  <2> QED
    BY <1>1, <1>4, <2>1 DEF Sound
<1>9. Sound(n)
  BY <1>1, <1>4, <1>5, <1>6, <1>7, <1>8 DEF Sound, ListSound
<1> QED
  BY <1>1, <1>4, <1>5, <1>9 DEF n

-------------------------------------------------------------------------------
(* The first d of the list of o are gone, from the map too, because the list   *)
(* is full; the others are still in it, in their order.                       *)
Moved(o, n, d) ==
    /\ Len(o.unpersisted) - d <= Len(n.unpersisted)
    /\ \A i \in 1..Len(o.unpersisted) :
          IF i <= d THEN o.unpersisted[i] \notin n.jobs
          ELSE n.unpersisted[i - d] = o.unpersisted[i]
    /\ d > 0 => Len(n.unpersisted) = UnpersistedMax

Carries(o, n) ==
    /\ n.jobs \subseteq o.jobs
    /\ \A t \in Session \ Open(o) : n.job[t] = o.job[t]
    /\ \E d \in 0..Len(o.unpersisted) : Moved(o, n, d)

(* One more finalize drops at most one more of the old ones, the next in line.  *)
LEMMA MovesOn ==
  ASSUME NEW o \in Memories, NEW m \in Memories, NEW n \in Memories, ListSound(m),
         NEW s \in Session, Listed(m, n, s), NEW d \in 0..Len(o.unpersisted), Moved(o, m, d)
  PROVE  n.jobs \subseteq m.jobs /\ \E e \in 0..Len(o.unpersisted) : Moved(o, n, e)
<1> DEFINE u == m.unpersisted
           v == n.unpersisted
           w == o.unpersisted
           a == Len(w)
           b == Len(u)
           c == Len(v)
<1>1. u \in Seq(Session) /\ a \in Nat /\ b \in Nat /\ c \in Nat /\ d \in 0..a
      /\ UnpersistedMax \in Nat /\ b <= UnpersistedMax
  BY HeadlessJobsAssumption DEF Memories, ListSound
<1>2. /\ a - d <= b
      /\ \A i \in 1..a : IF i <= d THEN w[i] \notin m.jobs ELSE u[i - d] = w[i]
      /\ d > 0 => b = UnpersistedMax
  BY DEF Moved
<1>3. ASSUME NEW e \in 0..a, a - e <= c, e > 0 => c = UnpersistedMax,
             \A i \in 1..a : IF i <= e THEN w[i] \notin n.jobs ELSE v[i - e] = w[i]
      PROVE  \E f \in 0..Len(o.unpersisted) : Moved(o, n, f)
  BY <1>3 DEF Moved
<1> DEFINE Goal == \E e \in 0..Len(o.unpersisted) : Moved(o, n, e)
<1>4. ASSUME n.jobs = m.jobs \ {s} /\ v = u PROVE Goal
  <2>1. c = b
    BY <1>4
  <2>2. ASSUME NEW i \in 1..a PROVE IF i <= d THEN w[i] \notin n.jobs ELSE v[i - d] = w[i]
    BY <1>2, <1>4
  <2> HIDE DEF a, b, c, u, v, w
  <2>3. Goal
    BY <1>1, <1>2, <1>3, <2>1, <2>2
  <2> QED
    BY <2>3
<1>5. ASSUME b < UnpersistedMax /\ n.jobs = m.jobs /\ v = Append(u, s) PROVE Goal
  <2>1. c = b + 1 /\ \A i \in 1..b : v[i] = u[i]
    BY <1>1, <1>5, Pushed
  <2> HIDE DEF a, b, c, u, v, w
  <2>2. d = 0
    BY <1>1, <1>2, <1>5
  <2>3. ASSUME NEW i \in 1..a PROVE IF i <= d THEN w[i] \notin n.jobs ELSE v[i - d] = w[i]
    BY <1>1, <1>2, <2>1, <2>2
  <2>4. a - d <= c
    BY <1>1, <1>2, <2>1
  <2>5. Goal
    <3>1. d \in 0..a /\ (d > 0 => c = UnpersistedMax)
      BY <1>1, <2>2
    <3> QED
      BY <1>3, <2>3, <2>4, <3>1
  <2> QED
    BY <2>5
<1>6. ASSUME b = UnpersistedMax /\ n.jobs = m.jobs \ {Head(Append(u, s))}
             /\ v = Tail(Append(u, s))
      PROVE  Goal
  <2> DEFINE h == Head(Append(u, s))
  <2>1. c = b /\ (\A i \in 1..b : v[i] = IF i = b THEN s ELSE u[i + 1])
        /\ h = (IF b = 0 THEN s ELSE u[1]) /\ n.jobs = m.jobs \ {h}
    BY <1>1, <1>6, Pushed
  <2> HIDE DEF a, b, c, u, v, w, h
  <2>2. CASE d = a
    <3>1. \A i \in 1..a : i <= d /\ w[i] \notin n.jobs
      BY <1>1, <1>2, <2>1, <2>2
    <3>2. a - d <= c
      BY <1>1, <2>2
    <3>3. d \in 0..a /\ (d > 0 => c = UnpersistedMax)
      BY <1>1, <1>6, <2>1
    <3> QED
      BY <1>3, <3>1, <3>2, <3>3
  <2>3. CASE d < a
    <3> DEFINE e == d + 1
    <3>1. e \in 0..a /\ a - e <= c /\ b # 0
      BY <1>1, <1>2, <2>1, <2>3
    <3>2. ASSUME NEW i \in 1..a PROVE IF i <= e THEN w[i] \notin n.jobs ELSE v[i - e] = w[i]
      <4>1. CASE i <= d
        BY <1>1, <1>2, <2>1, <4>1
      <4>2. CASE i = d + 1
        <5>1. i - d = 1 /\ ~(i <= d)
          BY <1>1, <4>2
        <5>2. w[i] = h
          BY <1>2, <2>1, <3>1, <5>1
        <5> QED
          BY <1>1, <2>1, <4>2, <5>2
      <4>3. CASE i > d + 1
        <5>0. a \in Nat /\ b \in Nat /\ d \in Nat /\ i \in Nat /\ i <= a /\ a - d <= b
          BY <1>1, <1>2
        <5>1. i - e \in 1..b /\ i - e # b /\ (i - e) + 1 = i - d /\ ~(i <= d) /\ ~(i <= e)
          BY <4>3, <5>0
        <5>2. v[i - e] = u[i - d]
          <6> HIDE DEF e
          <6> QED
            BY <2>1, <5>1
        <5> QED
          BY <1>2, <5>1, <5>2
      <4> QED
        BY <1>1, <4>1, <4>2, <4>3
    <3> HIDE DEF e
    <3> QED
      BY <1>3, <1>6, <2>1, <3>1, <3>2
  <2> QED
    BY <1>1, <2>2, <2>3
<1>7. n.jobs \subseteq m.jobs
  BY DEF Listed
<1> QED
  BY <1>4, <1>5, <1>6, <1>7 DEF Listed

(* A nonempty set of numbers has a least one.                                  *)
LEMMA Least ==
  ASSUME NEW T \in SUBSET Nat, T # {}
  PROVE  \E n \in T : \A m \in T : n <= m
<1>1. PICK n \in T : \A m \in T : ~(<<m, n>> \in OpToRel(<, Nat))
  BY NatLessThanWellFounded, WFMin, Zenon
<1>2. ASSUME NEW m \in T, m < n PROVE <<m, n>> \in OpToRel(<, Nat)
  BY <1>2 DEF OpToRel
<1>3. \A m \in T : ~(m < n)
  BY <1>1, <1>2, Zenon
<1> QED
  BY <1>3

(* The memories of shutdown's loop: f[n] is what the first n jobs of q leave.  *)
Loop(f, o, q, W, k) ==
    f = [n \in 0..k |-> IF n = 0 THEN o ELSE Finalize(f[n - 1], q[n], "interrupted", W)]

(* The loop has a result.                                                      *)
LEMMA LoopExists ==
  ASSUME NEW o, NEW q, NEW W, NEW k \in Nat
  PROVE  \E f : Loop(f, o, q, W, k)
<1> DEFINE Bad == {n \in Nat : ~ \E f : Loop(f, o, q, W, n)}
<1> SUFFICES ASSUME Bad # {} PROVE FALSE
  OBVIOUS
<1>1. PICK n \in Bad : \A m \in Bad : n <= m
  <2> HIDE DEF Bad
  <2> QED
    BY Least DEF Bad
<1>2. n \in Nat /\ ~ \E f : Loop(f, o, q, W, n)
  BY <1>1
<1>3. n # 0
  <2> DEFINE g == [m \in 0..0 |-> o]
  <2>1. g = [m \in 0..0 |-> IF m = 0 THEN o ELSE Finalize(g[m - 1], q[m], "interrupted", W)]
    <3>1. \A m \in 0..0 : m = 0
      OBVIOUS
    <3> QED
      BY <3>1
  <2> HIDE DEF g
  <2>2. Loop(g, o, q, W, 0)
    BY <2>1 DEF Loop
  <2> QED
    BY <1>2, <2>2
<1>4. n - 1 \in Nat /\ n - 1 \notin Bad
  BY <1>1, <1>2, <1>3
<1>5. PICK f : Loop(f, o, q, W, n - 1)
  BY <1>4
<1> DEFINE last == Finalize(f[n - 1], q[n], "interrupted", W)
           g == [m \in 0..n |-> IF m = n THEN last ELSE f[m]]
<1>6. ASSUME NEW m \in 0..n
      PROVE  g[m] = IF m = 0 THEN o ELSE Finalize(g[m - 1], q[m], "interrupted", W)
  <2>1. CASE m = n
    <3>1. n - 1 \in 0..n /\ n - 1 # n
      BY <1>2, <1>4
    <3>2. g[m - 1] = f[n - 1]
      BY <2>1, <3>1
    <3> QED
      BY <1>3, <2>1, <3>2
  <2>2. CASE m # n
    <3>1. m \in 0..(n - 1)
      BY <1>2, <2>2
    <3>2. f[m] = IF m = 0 THEN o ELSE Finalize(f[m - 1], q[m], "interrupted", W)
      BY <1>5, <3>1 DEF Loop
    <3>3. m # 0 => m - 1 \in 0..n /\ m - 1 # n
      BY <1>2, <3>1
    <3>4. m # 0 => g[m - 1] = f[m - 1]
      BY <3>3
    <3> QED
      BY <2>2, <3>2, <3>4
  <2> QED
    BY <2>1, <2>2
<1> HIDE DEF last
<1>7. g = [m \in 0..n |-> IF m = 0 THEN o ELSE Finalize(g[m - 1], q[m], "interrupted", W)]
  BY <1>6
<1> HIDE DEF g
<1>8. Loop(g, o, q, W, n)
  BY <1>7 DEF Loop
<1> QED
  BY <1>2, <1>8

(* Its first n rounds settle the first n jobs and carry the rest.               *)
LEMMA LoopKeeps ==
  ASSUME NEW o, Sound(o), NEW S \in SUBSET Open(o), NEW k \in Nat, NEW q \in [1..k -> S],
         \A i, j \in 1..k : i # j => q[i] # q[j],
         NEW W, NEW f, Loop(f, o, q, W, k), NEW n \in 0..k
  PROVE  /\ Sound(f[n]) /\ Open(f[n]) = Open(o) \ {q[i] : i \in 1..n}
         /\ f[n].closed = o.closed /\ f[n].stopping = o.stopping
         /\ Carries(o, f[n])
<1> DEFINE Kept(m) == /\ Sound(f[m]) /\ Open(f[m]) = Open(o) \ {q[i] : i \in 1..m}
                      /\ f[m].closed = o.closed /\ f[m].stopping = o.stopping
                      /\ Carries(o, f[m])
           Bad == {m \in 0..k : ~Kept(m)}
<1> SUFFICES ASSUME Bad # {} PROVE FALSE
  OBVIOUS
<1>1. PICK m \in Bad : \A j \in Bad : m <= j
  <2>1. Bad \in SUBSET Nat
    OBVIOUS
  <2> HIDE DEF Bad
  <2> QED
    BY <2>1, Least
<1>2. m \in 0..k /\ ~Kept(m)
  BY <1>1
<1>3. \A j \in 0..k : f[j] = IF j = 0 THEN o ELSE Finalize(f[j - 1], q[j], "interrupted", W)
  BY DEF Loop
<1>4. o \in Memories /\ o.unpersisted \in Seq(Session) /\ Len(o.unpersisted) \in Nat
  BY DEF Sound, Memories
<1>5. m # 0
  <2>1. f[0] = o
    BY <1>3
  <2>2. Moved(o, o, 0)
    BY <1>4 DEF Moved
  <2>3. Carries(o, o)
    BY <1>4, <2>2 DEF Carries
  <2>4. {q[i] : i \in 1..0} = {}
    OBVIOUS
  <2>5. Kept(0)
    BY <2>1, <2>3, <2>4
  <2> QED
    BY <1>2, <2>5
<1>6. m - 1 \in 0..k /\ m - 1 \notin Bad /\ m \in 1..k
  BY <1>1, <1>2, <1>5
<1>7. Kept(m - 1)
  BY <1>6
<1> DEFINE p == f[m - 1]
           s == q[m]
<1>8. s \in Open(o) /\ s \in Open(p) /\ s \in Session
  <2>1. s \in S /\ s \in Open(o)
    BY <1>6
  <2>2. \A i \in 1..(m - 1) : i \in 1..k /\ i # m
    BY <1>6
  <2>3. s \notin {q[i] : i \in 1..(m - 1)}
    BY <1>6, <2>2
  <2> QED
    BY <1>7, <2>1, <2>3 DEF Open
<1>9. f[m] = Finalize(p, s, "interrupted", W)
  BY <1>3, <1>5, <1>6
<1> DEFINE r == f[m]
<1>10. Sound(p) /\ Carries(o, p) /\ p.closed = o.closed /\ p.stopping = o.stopping
       /\ Open(p) = Open(o) \ {q[i] : i \in 1..(m - 1)}
  BY <1>7
<1> HIDE DEF p, s, r
<1>11. /\ Sound(r) /\ Open(r) = Open(p) \ {s} /\ Listed(p, r, s)
       /\ r.closed = p.closed /\ r.stopping = p.stopping
       /\ \A t \in Session \ {s} : r.job[t] = p.job[t]
  BY <1>8, <1>9, <1>10, FinalizeIs DEF r, Outcomes
<1>12. Open(r) = Open(o) \ {q[i] : i \in 1..m}
  <2>1. 1..m = 1..(m - 1) \cup {m}
    BY <1>6
  <2>2. {q[i] : i \in 1..m} = {q[i] : i \in 1..(m - 1)} \cup {s}
    BY <2>1 DEF s
  <2> QED
    BY <1>10, <1>11, <2>2
<1>13. Carries(o, r)
  <2>1. PICK d \in 0..Len(o.unpersisted) : Moved(o, p, d)
    BY <1>10 DEF Carries
  <2>2. p \in Memories /\ r \in Memories /\ ListSound(p)
    BY <1>10, <1>11 DEF Sound, ListSound
  <2>3. r.jobs \subseteq p.jobs /\ \E e \in 0..Len(o.unpersisted) : Moved(o, r, e)
    BY <1>4, <1>8, <1>11, <2>1, <2>2, MovesOn
  <2>4. \A t \in Session \ Open(o) : r.job[t] = o.job[t]
    BY <1>8, <1>10, <1>11 DEF Carries
  <2> QED
    BY <1>10, <2>3, <2>4 DEF Carries
<1>14. Kept(m)
  BY <1>10, <1>11, <1>12, <1>13 DEF r
<1> QED
  BY <1>2, <1>14
-------------------------------------------------------------------------------
(* What a step does to the answers: a file that holds an outcome is swept at   *)
(* most, a settled job keeps its status while it is in the map, and it leaves  *)
(* the map only from the front of a full list, or with its process.          *)
Truthful ==
    /\ \A s \in Session : s \notin mem.jobs /\ file[s] \in Outcomes =>
          s \notin mem'.jobs /\ file'[s] \in {file[s], "none"}
    /\ \A s \in mem.jobs \ Open(mem) :
          s \in mem'.jobs => mem'.job[s].status = mem.job[s].status
    /\ \/ mem' = FreshMemory
       \/ \E d \in 0..Len(mem.unpersisted) : Moved(mem, mem', d)

(* That is what AnswersStand says.                                             *)
LEMMA AnswersFollow ==
  ASSUME JobsInv, JobsInv', Truthful, NEW s \in Session, Shown(s) \in Outcomes
  PROVE  \/ Shown(s)' \in {Shown(s), "none"}
         \/ s \in ToSet(mem.unpersisted) /\ (mem' = FreshMemory \/ Crowded(s))
<1> DEFINE u == mem.unpersisted
           v == mem'.unpersisted
           a == Len(u)
           b == Len(v)
<1>1. /\ u \in Seq(Session) /\ v \in Seq(Session) /\ a \in Nat /\ b \in Nat
      /\ DOMAIN u = 1..a
      /\ mem.jobs = Open(mem) \cup ToSet(u) /\ ToSet(v) \subseteq mem'.jobs
  BY DEF JobsInv, Sound, Memories
<1>2. CASE s \notin mem.jobs
  BY <1>2 DEF Shown, Truthful
<1>3. CASE s \in mem.jobs
  <2>1. s \notin Open(mem)
    BY <1>3 DEF Shown, JobsInv, Sound, Job, Outcomes
  <2>2. s \in ToSet(u)
    BY <1>1, <1>3, <2>1
  <2>3. PICK i \in 1..a : u[i] = s
    BY <1>1, <2>2, InList
  <2>4. ASSUME NEW d \in 0..a, Moved(mem, mem', d)
        PROVE  Shown(s)' = Shown(s) \/ Crowded(s)
    <3>1. /\ a - d <= b /\ (d > 0 => b = UnpersistedMax)
          /\ \A j \in 1..a : IF j <= d THEN u[j] \notin mem'.jobs ELSE v[j - d] = u[j]
      BY <2>4 DEF Moved
    <3>2. CASE i <= d
      <4>1. b = UnpersistedMax
        BY <2>3, <3>1, <3>2
      <4>2. \A j \in 1..i : u[j] \notin ToSet(v)
        BY <1>1, <2>3, <3>1, <3>2
      <4> QED
        BY <1>1, <2>3, <4>1, <4>2 DEF Crowded
    <3>3. CASE ~(i <= d)
      <4>1. v[i - d] = s
        BY <2>3, <3>1, <3>3
      <4> HIDE DEF a, b
      <4>2. i - d \in 1..b
        <5>1. a - d <= b
          BY <3>1
        <5> QED
          BY <1>1, <2>3, <3>3, <5>1
      <4>3. s \in ToSet(v)
        BY <1>1, <4>1, <4>2, InList DEF b
      <4>4. s \in mem'.jobs
        BY <1>1, <4>3
      <4> QED
        BY <1>3, <2>1, <4>4 DEF Truthful, Shown, Job
    <3> QED
      BY <3>2, <3>3
  <2> QED
    BY <2>2, <2>4 DEF Truthful
<1> QED
  BY <1>2, <1>3

-------------------------------------------------------------------------------
(* Steps that touch a job's plan or reason, or forget a job outside the map.   *)
LEMMA JobTouched ==
  ASSUME NEW o, Sound(o), NEW f \in [Session -> JobType], NEW n, n = [o EXCEPT !.job = f],
         \A t \in Session : f[t].settled = o.job[t].settled,
         \A t \in o.jobs : f[t].status = o.job[t].status
  PROVE  /\ Sound(n) /\ Open(n) = Open(o) /\ Moved(o, n, 0)
         /\ n.jobs = o.jobs /\ n.unpersisted = o.unpersisted
         /\ n.closed = o.closed /\ n.stopping = o.stopping /\ n.job = f
<1>1. /\ n \in Memories /\ n.pool = o.pool
      /\ n.jobs = o.jobs /\ n.unpersisted = o.unpersisted
      /\ n.closed = o.closed /\ n.stopping = o.stopping /\ n.job = f
  <2>1. o \in Memories
    BY DEF Sound
  <2>2. n \in Memories
    BY <2>1, MemoryUpdated
  <2> QED
    BY <2>1, <2>2 DEF Memories
<1>2. Open(n) = Open(o)
  BY <1>1 DEF Open
<1>3. \A t \in Open(n) : n.job[t].status = "running"
  BY <1>1, <1>2 DEF Sound
<1>4. Sound(n)
  BY <1>1, <1>2, <1>3 DEF Sound
<1>5. Len(o.unpersisted) \in Nat
  BY DEF Sound, Memories
<1>6. Moved(o, n, 0)
  BY <1>1, <1>5 DEF Moved
<1> QED
  BY <1>1, <1>2, <1>4, <1>6

(* What every callback does: it keeps the invariant and the answers, and once  *)
(* the planner is closed it starts nothing.                                  *)
Tame ==
    /\ JobsInv' /\ Truthful
    /\ mem'.stopping = mem.stopping
    /\ mem.closed => mem'.closed /\ Open(mem') \subseteq Open(mem)

(* As a step of the planner, a callback is tame when it only touches jobs so.   *)
LEMMA Touched ==
  ASSUME JobsInv, NEW f \in [Session -> JobType], mem' = [mem EXCEPT !.job = f],
         \A t \in Session : f[t].settled = mem.job[t].settled,
         \A t \in mem.jobs : f[t].status = mem.job[t].status, UNCHANGED file
  PROVE  Tame /\ Open(mem') = Open(mem)
<1>1. /\ Sound(mem') /\ Open(mem') = Open(mem) /\ Moved(mem, mem', 0)
      /\ mem'.jobs = mem.jobs
      /\ mem'.closed = mem.closed /\ mem'.stopping = mem.stopping /\ mem'.job = f
  <2>1. Sound(mem)
    BY DEF JobsInv
  <2> DEFINE o == mem
             n == mem'
  <2>2. Sound(o) /\ n = [o EXCEPT !.job = f]
    BY <2>1
  <2> HIDE DEF n
  <2> QED
    BY <2>2, JobTouched DEF n
<1>2. JobsInv'
  BY <1>1 DEF JobsInv, Open, Sound
<1>3. Truthful
  <2>1. 0 \in 0..Len(mem.unpersisted)
    BY DEF JobsInv, Sound, Memories
  <2> QED
    BY <1>1, <2>1 DEF Truthful
<1> QED
  BY <1>1, <1>2, <1>3 DEF Tame

(* What the leaves need of the invariant.                                      *)
LEMMA TypedJob ==
  ASSUME JobsInv
  PROVE  /\ mem \in Memories /\ mem.job \in [Session -> JobType] /\ mem.jobs \subseteq Session
         /\ Open(mem) \subseteq mem.jobs /\ mem.unpersisted \in Seq(Session)
         /\ Len(mem.unpersisted) \in Nat
BY DEF JobsInv, Sound, Memories

(* A new plan state is one field of one job.                                   *)
LEMMA PlanSet ==
  ASSUME JobsInv, NEW s \in Session, NEW plan \in {"thinking", "calling", "ended"},
         mem' = [mem EXCEPT !.job[s].plan = plan], UNCHANGED file
  PROVE  Tame
<1> DEFINE f == [mem.job EXCEPT ![s].plan = plan]
<1>1. f \in [Session -> JobType]
  BY TypedJob DEF JobType
<1>2. \A t \in Session : f[t].settled = mem.job[t].settled /\ f[t].status = mem.job[t].status
  <2> TAKE t \in Session
  <2>1. mem.job[t] \in JobType
    BY TypedJob
  <2>2. CASE t = s
    BY <2>1, <2>2, TypedJob DEF JobType
  <2>3. CASE t # s
    BY <2>3, TypedJob
  <2> QED
    BY <2>2, <2>3
<1>3. mem' = [mem EXCEPT !.job = f]
  BY TypedJob DEF Memories
<1> HIDE DEF f
<1> QED
  BY <1>1, <1>2, <1>3, Touched, TypedJob

(* The reason of an abort too.                                                 *)
LEMMA AbortIs ==
  ASSUME NEW m \in Memories, NEW S, NEW reason \in Aborts
  PROVE  \E f \in [Session -> JobType] :
            /\ Abort(m, S, reason) = [m EXCEPT !.job = f]
            /\ \A t \in Session : f[t].settled = m.job[t].settled /\ f[t].status = m.job[t].status
<1> DEFINE f == [s \in Session |-> IF s \in S /\ m.job[s].reason = "none"
                                   THEN [m.job[s] EXCEPT !.reason = reason] ELSE m.job[s]]
<1>1. m.job \in [Session -> JobType]
  BY DEF Memories
<1>2. ASSUME NEW t \in Session
      PROVE  f[t] \in JobType /\ f[t].settled = m.job[t].settled /\ f[t].status = m.job[t].status
  <2>1. m.job[t] \in JobType
    BY <1>1
  <2>2. /\ [m.job[t] EXCEPT !.reason = reason] \in JobType
        /\ [m.job[t] EXCEPT !.reason = reason].settled = m.job[t].settled
        /\ [m.job[t] EXCEPT !.reason = reason].status = m.job[t].status
    BY <2>1 DEF JobType
  <2> QED
    BY <2>1, <2>2
<1>3. f \in [Session -> JobType]
  BY <1>2
<1>4. Abort(m, S, reason) = [m EXCEPT !.job = f]
  BY DEF Abort
<1> HIDE DEF f
<1> QED
  BY <1>2, <1>3, <1>4

(* So an abort is tame, ...                                                    *)
LEMMA AbortTame ==
  ASSUME JobsInv, NEW S, NEW reason \in Aborts, mem' = Abort(mem, S, reason), UNCHANGED file
  PROVE  Tame
<1>1. PICK f \in [Session -> JobType] :
            /\ Abort(mem, S, reason) = [mem EXCEPT !.job = f]
            /\ \A t \in Session : f[t].settled = mem.job[t].settled
                                  /\ f[t].status = mem.job[t].status
  BY AbortIs, TypedJob
<1> QED
  BY <1>1, Touched, TypedJob

(* ... a start, which takes a slot and opens one job, ...                       *)
LEMMA StartTame ==
  ASSUME JobsInv, NEW s \in Session, Start(s)
  PROVE  Tame
<1> DEFINE js == mem.jobs \cup {s}
           f == [mem.job EXCEPT ![s] = NewJob]
           p == IF s \in Admitted THEN Slots!Take(mem.pool, s) ELSE mem.pool
           H == Open(mem) \cap Admitted
           n == mem'
<1>1. /\ s \notin mem.jobs /\ file[s] = "none" /\ ~mem.closed
      /\ Cardinality(Running) < MaxConcurrentPlans
      /\ file' = [file EXCEPT ![s] = "running"]
      /\ mem' = [[[mem EXCEPT !.jobs = js] EXCEPT !.job = f] EXCEPT !.pool = p]
  BY DEF Start
<1>2. Sound(mem) /\ mem.pool \in PoolType
  BY DEF JobsInv, Sound, Memories
<1>3. IsFiniteSet(Open(mem)) /\ Running = Open(mem) /\ s \notin Open(mem)
      /\ Open(mem) \subseteq Session
  BY <1>1, <1>2, TypedJob DEF Running, Open, Job, Sound
<1>4. p \in PoolType /\ SlotsMatch(p, (Open(mem) \cup {s}) \cap Admitted)
  <2>1. IsFiniteSet(H) /\ s \notin H /\ H \in SUBSET Session /\ SlotsMatch(mem.pool, H)
    BY <1>2, <1>3, FS_Subset DEF Sound
  <2>2. CASE s \in Admitted
    <3>1. (Open(mem) \cup {s}) \cap Admitted = H \cup {s}
      BY <2>2
    <3> HIDE DEF H
    <3> QED
      BY <1>2, <2>1, <2>2, <3>1, HolderMore
  <2>3. CASE s \notin Admitted
    <3>1. (Open(mem) \cup {s}) \cap Admitted = H
      BY <2>3
    <3> QED
      BY <1>2, <2>1, <2>3, <3>1
  <2> QED
    BY <2>2, <2>3
<1>5. f \in [Session -> JobType] /\ f[s] = NewJob /\ \A t \in Session \ {s} : f[t] = mem.job[t]
  <2>1. NewJob \in JobType
    BY DEF NewJob, JobType
  <2> QED
    BY <2>1, TypedJob
<1> HIDE DEF js, f, p, H
<1>6. n \in Memories
  <2>1. js \in SUBSET Session
    BY TypedJob DEF js
  <2> DEFINE a == [mem EXCEPT !.jobs = js]
             b == [a EXCEPT !.job = f]
  <2>2. a \in Memories
    BY <2>1, TypedJob, MemoryUpdated
  <2>3. mem' = [b EXCEPT !.pool = p]
    BY <1>1
  <2> HIDE DEF a
  <2>4. b \in Memories
    BY <1>5, <2>2, MemoryUpdated
  <2> HIDE DEF b
  <2> QED
    BY <1>4, <2>3, <2>4, MemoryUpdated
<1>7. /\ n.jobs = js /\ n.job = f /\ n.pool = p /\ n.unpersisted = mem.unpersisted
      /\ n.closed = mem.closed /\ n.stopping = mem.stopping
  BY <1>1, TypedJob DEF Memories
<1> HIDE DEF n
<1>8. Open(n) = Open(mem) \cup {s}
  BY <1>3, <1>5, <1>7 DEF Open, NewJob
<1>9. IsFiniteSet(Open(n)) /\ Cardinality(Open(n)) <= MaxConcurrentPlans
  <2>1. IsFiniteSet(Open(n)) /\ Cardinality(Open(n)) = Cardinality(Open(mem)) + 1
    BY <1>3, <1>8, FS_AddElement
  <2> QED
    BY <1>1, <1>3, <2>1, FS_CardinalityType, HeadlessJobsAssumption
<1>10. Sound(n)
  <2>1. n.jobs = Open(n) \cup ToSet(n.unpersisted)
    BY <1>2, <1>7, <1>8 DEF Sound, js
  <2>2. \A t \in Open(n) : n.job[t].status = "running" /\ t \notin ToSet(n.unpersisted)
    <3>1. s \notin ToSet(mem.unpersisted)
      BY <1>1, <1>2 DEF Sound
    <3> QED
      BY <1>2, <1>3, <1>5, <1>7, <1>8, <3>1 DEF Sound, NewJob
  <2> QED
    BY <1>2, <1>4, <1>6, <1>7, <1>8, <1>9, <2>1, <2>2 DEF Sound
<1>11. JobsInv'
  <2>1. file' \in [Session -> {"none", "running"} \cup Outcomes]
    BY <1>1 DEF JobsInv
  <2>2. ~Faults => \A t \in Session : file'[t] = "running" => t \in Open(n)
    BY <1>1, <1>8 DEF JobsInv
  <2> QED
    BY <1>10, <2>1, <2>2 DEF JobsInv, n, Open, Sound
<1>12. Truthful
  <2>1. Moved(mem, n, 0) /\ 0 \in 0..Len(mem.unpersisted)
    BY <1>7, TypedJob DEF Moved
  <2>2. ASSUME NEW t \in Session, t \notin mem.jobs, file[t] \in Outcomes
        PROVE  t \notin n.jobs /\ file'[t] = file[t]
    <3>1. t # s
      BY <1>1, <2>2 DEF Outcomes
    <3> QED
      BY <1>1, <1>7, <2>2, <3>1 DEF JobsInv, js
  <2>3. ASSUME NEW t \in mem.jobs \ Open(mem) PROVE n.job[t].status = mem.job[t].status
    BY <1>1, <1>5, <1>7, TypedJob
  <2> QED
    BY <2>1, <2>2, <2>3 DEF Truthful, n
<1> QED
  BY <1>1, <1>7, <1>11, <1>12 DEF Tame, n

(* Forgetting a job touches nothing that is in the map.                        *)
LEMMA ForgetIs ==
  ASSUME NEW m, Sound(m), NEW s \in Session
  PROVE  LET n == Forget(m, s)
         IN  /\ Sound(n) /\ Open(n) = Open(m)
             /\ n.jobs = m.jobs /\ n.unpersisted = m.unpersisted
             /\ n.closed = m.closed /\ n.stopping = m.stopping
             /\ \A t \in m.jobs : n.job[t] = m.job[t]
<1>1. CASE s \in m.jobs \/ m.job[s].plan # "ended"
  <2>1. Forget(m, s) = m
    BY <1>1 DEF Forget
  <2> QED
    BY <2>1
<1>2. CASE ~(s \in m.jobs \/ m.job[s].plan # "ended")
  <2> DEFINE f == [m.job EXCEPT ![s] = NoJob]
             n == Forget(m, s)
  <2>1. n = [m EXCEPT !.job = f]
    BY <1>2 DEF Forget
  <2>2. m.job \in [Session -> JobType] /\ s \notin m.jobs /\ m.job[s].settled = TRUE
    <3>1. m.job \in [Session -> JobType] /\ s \notin Open(m)
      BY <1>2 DEF Sound, Memories
    <3>2. m.job[s].settled \in BOOLEAN
      BY <3>1 DEF JobType
    <3> QED
      BY <1>2, <3>1, <3>2 DEF Open
  <2>3. f \in [Session -> JobType] /\ f[s] = NoJob /\ \A t \in Session \ {s} : f[t] = m.job[t]
    BY <2>2 DEF NoJob, JobType
  <2>4. \A t \in Session : f[t].settled = m.job[t].settled
    BY <2>2, <2>3 DEF NoJob
  <2>5. \A t \in m.jobs : f[t] = m.job[t]
    BY <2>2, <2>3 DEF Sound, Memories
  <2> HIDE DEF f, n
  <2> QED
    BY <2>1, <2>3, <2>4, <2>5, JobTouched DEF n
<1> QED
  BY <1>1, <1>2

(* ... the end of a plan, ...                                                  *)
LEMMA EndPlanTame ==
  ASSUME JobsInv, NEW s \in Session, EndPlan(s)
  PROVE  Tame
<1> DEFINE e == [mem EXCEPT !.job[s].plan = "ended"]
           f == [mem.job EXCEPT ![s].plan = "ended"]
<1>1. f \in [Session -> JobType]
      /\ \A t \in Session : f[t].settled = mem.job[t].settled /\ f[t].status = mem.job[t].status
  <2>1. f \in [Session -> JobType]
    BY TypedJob DEF JobType
  <2>2. ASSUME NEW t \in Session
        PROVE  f[t].settled = mem.job[t].settled /\ f[t].status = mem.job[t].status
    <3>1. mem.job[t] \in JobType
      BY TypedJob
    <3>2. CASE t = s
      BY <3>1, <3>2, TypedJob DEF JobType
    <3>3. CASE t # s
      BY <3>3, TypedJob
    <3> QED
      BY <3>2, <3>3
  <2> QED
    BY <2>1, <2>2
<1>2. e = [mem EXCEPT !.job = f]
  BY TypedJob DEF Memories
<1>3. Unsettled({s}) = {} => mem' = Forget(e, s) /\ UNCHANGED file
  BY DEF EndPlan
<1>4. Unsettled({s}) # {} =>
          \E o \in Judge(s), W \in WriteSets({s}) :
             mem' = Forget(Finalize(e, s, o, W), s) /\ Persist(W, o)
  BY DEF EndPlan
<1> HIDE DEF e, f
<1>5. /\ Sound(e) /\ Open(e) = Open(mem) /\ Moved(mem, e, 0)
      /\ e.jobs = mem.jobs /\ e.unpersisted = mem.unpersisted
      /\ e.closed = mem.closed /\ e.stopping = mem.stopping /\ e.job = f
  <2> DEFINE o == mem
  <2>1. Sound(o) /\ o.jobs \subseteq Session
    BY TypedJob DEF JobsInv
  <2>2. e = [o EXCEPT !.job = f]
    BY <1>2
  <2>3. \A t \in o.jobs : f[t].status = o.job[t].status
    BY <1>1, <2>1
  <2>4. \A t \in Session : f[t].settled = o.job[t].settled
    BY <1>1
  <2> HIDE DEF o
  <2>5. /\ Sound(e) /\ Open(e) = Open(o) /\ Moved(o, e, 0)
        /\ e.jobs = o.jobs /\ e.unpersisted = o.unpersisted
        /\ e.closed = o.closed /\ e.stopping = o.stopping /\ e.job = f
    BY <1>1, <2>1, <2>2, <2>3, <2>4, JobTouched
  <2> QED
    BY <2>5 DEF o
<1>6. \A t \in mem.jobs : e.job[t].status = mem.job[t].status
  BY <1>1, <1>5, TypedJob
<1>7. CASE Unsettled({s}) = {}
  <2> DEFINE n == mem'
  <2>1. n = Forget(e, s)
    BY <1>3, <1>7
  <2> HIDE DEF n
  <2>2. /\ Sound(n) /\ Open(n) = Open(e)
        /\ n.jobs = e.jobs /\ n.unpersisted = e.unpersisted
        /\ n.closed = e.closed /\ n.stopping = e.stopping
        /\ \A t \in e.jobs : n.job[t] = e.job[t]
    BY <1>5, <2>1, ForgetIs
  <2>3. JobsInv'
    BY <1>3, <1>5, <1>7, <2>2 DEF JobsInv, Open, Sound, n
  <2>4. Moved(mem, n, 0) /\ 0 \in 0..Len(mem.unpersisted)
    BY <1>5, <2>2, TypedJob DEF Moved
  <2>5. Truthful
    BY <1>3, <1>5, <1>6, <1>7, <2>2, <2>4 DEF Truthful, n
  <2> QED
    BY <1>5, <2>2, <2>3, <2>5 DEF Tame, n
<1>8. CASE Unsettled({s}) # {}
  <2>1. s \in Open(mem)
    BY <1>8 DEF Unsettled, Open, Job
  <2>2. PICK o \in Judge(s), W \in WriteSets({s}) :
             mem' = Forget(Finalize(e, s, o, W), s) /\ Persist(W, o)
    BY <1>4, <1>8
  <2>3. W \subseteq {s} /\ (~Faults => W = {s})
    BY <2>2 DEF WriteSets
  <2>4. o \in Outcomes
    <3>1. mem.job[s].reason \in {"none"} \cup Aborts
      BY TypedJob DEF JobType
    <3> QED
      BY <2>2, <3>1 DEF Judge, Job, AbortOutcome, Aborts, Outcomes
  <2> DEFINE x == Finalize(e, s, o, W)
             n == mem'
  <2>5. n = Forget(x, s)
    BY <2>2
  <2> HIDE DEF x, n
  <2>6. /\ Sound(x) /\ Open(x) = Open(e) \ {s} /\ Listed(e, x, s)
        /\ x.closed = e.closed /\ x.stopping = e.stopping
        /\ \A t \in Session \ {s} : x.job[t] = e.job[t]
    BY <1>5, <2>1, <2>4, FinalizeIs DEF x
  <2>7. /\ Sound(n) /\ Open(n) = Open(x)
        /\ n.jobs = x.jobs /\ n.unpersisted = x.unpersisted
        /\ n.closed = x.closed /\ n.stopping = x.stopping
        /\ \A t \in x.jobs : n.job[t] = x.job[t]
    BY <2>5, <2>6, ForgetIs
  <2>8. x.jobs \subseteq e.jobs /\ \E d \in 0..Len(mem.unpersisted) : Moved(mem, x, d)
    <3>1. e \in Memories /\ ListSound(e) /\ x \in Memories
      BY <1>5, <2>6 DEF Sound, ListSound
    <3>2. 0 \in 0..Len(mem.unpersisted)
      BY TypedJob
    <3> DEFINE a == mem
    <3>3. a \in Memories /\ Moved(a, e, 0) /\ 0 \in 0..Len(a.unpersisted)
      BY <1>5, <3>2, TypedJob
    <3> HIDE DEF a
    <3>4. x.jobs \subseteq e.jobs /\ \E d \in 0..Len(a.unpersisted) : Moved(a, x, d)
      BY <2>6, <3>1, <3>3, MovesOn
    <3> QED
      BY <3>4 DEF a
  <2>9. \E d \in 0..Len(mem.unpersisted) : Moved(mem, n, d)
    BY <2>7, <2>8 DEF Moved
  <2>10. file' = [t \in Session |-> IF t \in W THEN o ELSE file[t]]
    BY <2>2 DEF Persist
  <2>11. JobsInv'
    <3>1. file' \in [Session -> {"none", "running"} \cup Outcomes]
      BY <2>4, <2>10 DEF JobsInv
    <3>2. ~Faults => \A t \in Session : file'[t] = "running" => t \in Open(n)
      <4> SUFFICES ASSUME ~Faults, NEW t \in Session, file'[t] = "running" PROVE t \in Open(n)
        OBVIOUS
      <4>1. o # "running"
        BY <2>4 DEF Outcomes
      <4>2. t # s /\ file[t] = "running"
        BY <2>3, <2>10, <4>1
      <4>3. t \in Open(mem)
        BY <4>2 DEF JobsInv
      <4> QED
        BY <1>5, <2>6, <2>7, <4>2, <4>3
    <3> QED
      BY <2>7, <3>1, <3>2 DEF JobsInv, n, Open, Sound
  <2>12. Truthful
    <3>1. ASSUME NEW t \in Session, t \notin mem.jobs, file[t] \in Outcomes
          PROVE  t \notin n.jobs /\ file'[t] = file[t]
      <4>1. t \notin n.jobs
        BY <1>5, <2>7, <2>8, <3>1
      <4>2. t # s
        BY <2>1, <3>1, TypedJob
      <4> QED
        BY <2>3, <2>10, <4>1, <4>2
    <3>2. ASSUME NEW t \in mem.jobs \ Open(mem), t \in n.jobs
          PROVE  n.job[t].status = mem.job[t].status
      <4>1. t # s /\ t \in Session
        BY <2>1, TypedJob
      <4>2. n.job[t] = x.job[t] /\ x.job[t] = e.job[t]
        BY <2>6, <2>7, <3>2, <4>1
      <4> QED
        BY <1>6, <4>2
    <3> QED
      BY <2>9, <3>1, <3>2 DEF Truthful, n
  <2> QED
    BY <1>5, <2>6, <2>7, <2>11, <2>12 DEF Tame, n
<1> QED
  BY <1>7, <1>8

(* ... and the sweep of a file.                                               *)
LEMMA SweepTame ==
  ASSUME JobsInv, NEW s \in Session, SweepJob(s)
  PROVE  Tame
<1>1. mem' = mem /\ file' = [file EXCEPT ![s] = "none"]
  BY DEF SweepJob
<1>2. JobsInv'
  BY <1>1 DEF JobsInv, Sound, Open
<1>3. Truthful
  <2>1. Moved(mem, mem, 0) /\ 0 \in 0..Len(mem.unpersisted)
    BY TypedJob DEF Moved
  <2>2. \A t \in Session : file'[t] \in {file[t], "none"}
    BY <1>1 DEF JobsInv
  <2> QED
    BY <1>1, <2>1, <2>2 DEF Truthful
<1> QED
  BY <1>1, <1>2, <1>3 DEF Tame

(* Every callback is tame.                                                     *)
LEMMA JobStepTame ==
  ASSUME JobsInv, NEW s \in Session, JobStep(s)
  PROVE  Tame
<1>1. CASE Start(s)
  BY <1>1, StartTame
<1>2. CASE BeginCall(s)
  BY <1>2, PlanSet, AbortTame DEF BeginCall, Aborts
<1>3. CASE EndCall(s)
  BY <1>3, PlanSet DEF EndCall
<1>4. CASE EndPlan(s)
  BY <1>4, EndPlanTame
<1>5. CASE TimeOut(s)
  BY <1>5, AbortTame DEF TimeOut, Aborts
<1>6. CASE SweepJob(s)
  BY <1>6, SweepTame
<1> QED
  BY <1>1, <1>2, <1>3, <1>4, <1>5, <1>6 DEF JobStep
-------------------------------------------------------------------------------
(* shutdown up to its wait: closed, and waiting for all that is open.           *)
LEMMA BeginShutdownIs ==
  ASSUME JobsInv, BeginShutdown
  PROVE  JobsInv' /\ Truthful /\ mem'.closed /\ Open(mem') = mem'.stopping
<1>1. Running = Open(mem) /\ Open(mem) \subseteq Session
  BY TypedJob DEF Running, Open, Job
<1>2. PICK f \in [Session -> JobType] :
            /\ Abort(mem, Running, "shutdown") = [mem EXCEPT !.job = f]
            /\ \A t \in Session : f[t].settled = mem.job[t].settled
                                  /\ f[t].status = mem.job[t].status
  BY AbortIs, TypedJob DEF Aborts
<1> DEFINE a == [mem EXCEPT !.job = f]
           b == [a EXCEPT !.closed = TRUE]
           n == mem'
<1>3. n = [b EXCEPT !.stopping = Open(mem)] /\ UNCHANGED file
  BY <1>1, <1>2 DEF BeginShutdown
<1>4. /\ Sound(a) /\ Open(a) = Open(mem) /\ Moved(mem, a, 0)
      /\ a.jobs = mem.jobs /\ a.unpersisted = mem.unpersisted /\ a.job = f
  <2> DEFINE o == mem
  <2>1. Sound(o) /\ o.jobs \subseteq Session
    BY TypedJob DEF JobsInv
  <2>2. a = [o EXCEPT !.job = f]
    OBVIOUS
  <2>3. /\ \A t \in Session : f[t].settled = o.job[t].settled
        /\ \A t \in o.jobs : f[t].status = o.job[t].status
    BY <1>2, <2>1
  <2> HIDE DEF o, a
  <2>4. /\ Sound(a) /\ Open(a) = Open(o) /\ Moved(o, a, 0)
        /\ a.jobs = o.jobs /\ a.unpersisted = o.unpersisted /\ a.job = f
    BY <1>2, <2>1, <2>2, <2>3, JobTouched
  <2> QED
    BY <2>4 DEF o
<1> HIDE DEF a
<1>5. a \in Memories /\ b \in Memories
  BY <1>4, MemoryUpdated DEF Sound
<1>6. n \in Memories
  <2> HIDE DEF b
  <2> QED
    BY <1>1, <1>3, <1>5, MemoryUpdated
<1>7. /\ n.jobs = a.jobs /\ n.job = a.job /\ n.unpersisted = a.unpersisted /\ n.pool = a.pool
      /\ n.closed = TRUE /\ n.stopping = Open(mem)
  BY <1>3, <1>5 DEF Memories
<1> HIDE DEF n
<1>8. Open(n) = Open(a)
  BY <1>7 DEF Open
<1>9. \A t \in Open(n) : n.job[t].status = "running"
  BY <1>4, <1>7, <1>8 DEF Sound
<1>10. Sound(n)
  BY <1>4, <1>6, <1>7, <1>8, <1>9 DEF Sound
<1>11. JobsInv'
  BY <1>3, <1>4, <1>8, <1>10 DEF JobsInv, n, Open, Sound
<1>12. Truthful
  <2>1. Moved(mem, n, 0) /\ 0 \in 0..Len(mem.unpersisted)
    BY <1>4, <1>7, TypedJob DEF Moved
  <2>2. \A t \in mem.jobs : n.job[t].status = mem.job[t].status
    BY <1>2, <1>4, <1>7, TypedJob
  <2> QED
    BY <1>3, <1>4, <1>7, <2>1, <2>2 DEF Truthful, n
<1> QED
  BY <1>4, <1>7, <1>8, <1>11, <1>12 DEF n

(* shutdown after its wait: nothing it waited for is open.                      *)
LEMMA EndShutdownIs ==
  ASSUME JobsInv, EndShutdown
  PROVE  /\ JobsInv' /\ Truthful
         /\ mem'.closed = mem.closed
         /\ Open(mem') = Open(mem) \ mem.stopping
<1> DEFINE S == Unsettled(mem.stopping)
           c == Cardinality(S)
<1>1. S = Open(mem) \cap mem.stopping /\ IsFiniteSet(S) /\ c \in Nat /\ mem.stopping \subseteq Session
  <2>1. S = Open(mem) \cap mem.stopping /\ mem.stopping \subseteq Session
    BY TypedJob DEF Unsettled, Open, Job, Memories
  <2>2. IsFiniteSet(Open(mem))
    BY DEF JobsInv, Sound
  <2> QED
    BY <2>1, <2>2, FS_Subset, FS_CardinalityType
<1>2. PICK q \in SetToSeqs(S), W \in WriteSets(S) :
         /\ mem' = (LET after[n \in 0..Len(q)] ==
                           IF n = 0 THEN mem
                           ELSE Finalize(after[n - 1], q[n], "interrupted", W)
                    IN  after[Len(q)])
         /\ Persist(W, "interrupted")
  BY Zenon DEF EndShutdown
<1>3. W \subseteq S /\ (~Faults => W = S)
  BY <1>2 DEF WriteSets
<1> HIDE DEF S
<1>4. q \in [1..c -> S] /\ \A i, j \in 1..c : i # j => q[i] # q[j]
  BY <1>2 DEF SetToSeqs
<1> HIDE DEF c
<1>5. Len(q) = c
  BY <1>1, <1>4
<1>6. {q[i] : i \in 1..c} = S
  <2>1. q \in Injection(1..c, S)
    BY <1>4 DEF Injection, IsInjective
  <2>2. Cardinality(1..c) = Cardinality(S)
    BY <1>1, FS_Interval DEF c
  <2>3. q \in Surjection(1..c, S)
    BY <1>1, <2>1, <2>2, FS_Injection
  <2> QED
    BY <1>4, <2>3 DEF Surjection
<1> DEFINE f == CHOOSE g : Loop(g, mem, q, W, c)
           n == mem'
<1>7. n = f[c]
  BY <1>2, <1>5 DEF Loop
<1>8. Loop(f, mem, q, W, c)
  BY <1>1, LoopExists
<1> HIDE DEF f, n
<1>9. /\ Sound(n) /\ Open(n) = Open(mem) \ S
      /\ n.closed = mem.closed /\ n.stopping = mem.stopping
      /\ Carries(mem, n)
  <2> DEFINE o == mem
  <2>1. Sound(o) /\ S \in SUBSET Open(o) /\ c \in 0..c
    BY <1>1 DEF JobsInv
  <2>2. Loop(f, o, q, W, c)
    BY <1>8
  <2> HIDE DEF o
  <2>3. /\ Sound(f[c]) /\ Open(f[c]) = Open(o) \ {q[i] : i \in 1..c}
        /\ f[c].closed = o.closed /\ f[c].stopping = o.stopping
        /\ Carries(o, f[c])
    BY <1>1, <1>4, <2>1, <2>2, LoopKeeps
  <2> QED
    BY <1>6, <1>7, <2>3 DEF o
<1>10. file' = [t \in Session |-> IF t \in W THEN "interrupted" ELSE file[t]]
  BY <1>2 DEF Persist
<1>11. JobsInv'
  <2>1. file' \in [Session -> {"none", "running"} \cup Outcomes]
    BY <1>10 DEF JobsInv, Outcomes
  <2>2. ~Faults => \A t \in Session : file'[t] = "running" => t \in Open(n)
    BY <1>3, <1>9, <1>10 DEF JobsInv
  <2> QED
    BY <1>9, <2>1, <2>2 DEF JobsInv, n, Open, Sound
<1>12. Truthful
  <2>1. ASSUME NEW t \in Session, t \notin mem.jobs, file[t] \in Outcomes
        PROVE  t \notin n.jobs /\ file'[t] = file[t]
    BY <1>1, <1>3, <1>9, <1>10, <2>1, TypedJob DEF Carries
  <2>2. ASSUME NEW t \in mem.jobs \ Open(mem) PROVE n.job[t].status = mem.job[t].status
    BY <1>9, TypedJob DEF Carries
  <2> QED
    BY <1>9, <2>1, <2>2 DEF Truthful, Carries, n
<1> QED
  BY <1>1, <1>9, <1>11, <1>12 DEF n

(* A new process knows no jobs.                                                *)
LEMMA FreshIs == Sound(FreshMemory) /\ Open(FreshMemory) = {}
<1> DEFINE n == FreshMemory
           holders == Open(n) \cap Admitted
<1>1. Open(n) = {}
  BY DEF FreshMemory, NoJob, Open
<1>2. n.pool \in PoolType /\ SlotsMatch(n.pool, {})
  <2>1. n.pool = Slots!EmptyPool
    BY DEF FreshMemory
  <2>2. Slots!EmptyPool.held = 0
        /\ Slots!EmptyPool.byPrincipal = [p \in Slots!Principal |-> 0]
    BY DEF Slots!EmptyPool
  <2>3. Slots!EmptyPool \in PoolType
    BY DEF Slots!EmptyPool, PoolType
  <2>4. \A p : {s \in {} : PrincipalOf[s] = p} = {}
    OBVIOUS
  <2> QED
    BY <2>1, <2>2, <2>3, <2>4, FS_EmptySet DEF SlotsMatch
<1>3. n \in Memories
  <2>1. NoJob \in JobType
    BY DEF NoJob, JobType
  <2>2. n.pool = Slots!EmptyPool
    BY DEF FreshMemory
  <2> QED
    BY <1>2, <2>1, <2>2 DEF FreshMemory, Memories
<1>4. n.jobs = {} /\ n.unpersisted = <<>> /\ ToSet(<<>>) = {}
  BY DEF FreshMemory, ToSet
<1>5. {} \cap Admitted = {}
  OBVIOUS
<1> QED
  BY <1>1, <1>2, <1>3, <1>4, <1>5, FS_EmptySet, HeadlessJobsAssumption DEF Sound

(* What the last process left running is marked, and no answer changes.         *)
LEMMA RestartIs ==
  ASSUME JobsInv, Restart
  PROVE  JobsInv' /\ Truthful
<1>1. mem' = FreshMemory
  BY DEF Restart
<1>2. PICK W \in WriteSets(Interrupted) : Persist(W, "interrupted")
  BY DEF Restart
<1>3. W \subseteq Interrupted /\ (~Faults => W = Interrupted)
  BY <1>2 DEF WriteSets
<1>4. file' = [t \in Session |-> IF t \in W THEN "interrupted" ELSE file[t]]
  BY <1>2 DEF Persist
<1>5. Sound(mem') /\ mem'.jobs = {}
  BY <1>1, FreshIs DEF FreshMemory
<1>6. JobsInv'
  <2>1. file' \in [Session -> {"none", "running"} \cup Outcomes]
    BY <1>4 DEF JobsInv, Outcomes
  <2>2. ~Faults => \A t \in Session : file'[t] # "running"
    BY <1>3, <1>4 DEF Interrupted
  <2> QED
    BY <1>5, <2>1, <2>2 DEF JobsInv, Open, Sound
<1>7. Truthful
  <2>1. \A t \in Session : file[t] \in Outcomes => file'[t] = file[t]
    BY <1>3, <1>4 DEF Interrupted, Outcomes
  <2> QED
    BY <1>1, <1>5, <2>1 DEF Truthful
<1> QED
  BY <1>6, <1>7
-------------------------------------------------------------------------------
(* What every step keeps, and every step but a stuttering one answers.         *)
Steps == LifeInv' /\ (Truthful \/ UNCHANGED <<file, mem>>)

(* failedStep changes the code alone.                                          *)
LEMMA LifeUpdated ==
  ASSUME NEW l \in LifeType
  PROVE  /\ Failed(l) \in LifeType /\ Failed(l).code = 1
         /\ Failed(l).at = l.at /\ Failed(l).stop = l.stop /\ Failed(l).store = l.store
BY DEF LifeType, Failed

(* One step per station of the shutdown, and one for all callbacks.            *)
LEMMA LifeStepKeeps ==
  ASSUME LifeInv, LifeNext
  PROVE  Steps
<1>1. /\ JobsInv /\ life \in LifeType /\ restarts \in 0..MaxRestarts
      /\ Failed(life) \in LifeType /\ Failed(life).code = 1
      /\ Failed(life).at = life.at /\ Failed(life).stop = life.stop
      /\ Failed(life).store = life.store
  BY LifeUpdated DEF LifeInv, LifeType
<1>2. Stay => JobsInv'
  BY <1>1 DEF Stay, JobsInv, Sound, Open
<1>3. Stay => Open(mem') = Open(mem) /\ mem' = mem /\ file' = file
  BY DEF Stay, Open
<1>4. ASSUME Stay, life' \in LifeType,
             life'.at \in {"flush", "planner", "spans", "stopped"} => life'.stop # "none",
             life'.at = "planner" => life.at = "planner",
             life'.at \in {"spans", "stopped", "exited"} /\ life'.code = 0 =>
                 life.at \in {"spans", "stopped", "exited"} /\ life.code = 0,
             life'.at = "exited" /\ life'.code = 0 =>
                 life'.store = "closed" /\ life'.stop = "done"
      PROVE  Steps
  BY <1>2, <1>3, <1>4 DEF Steps, LifeInv, LifeType, Stay
<1>5. CASE BeginDrain
  <2>1. Stay /\ life' \in LifeType /\ life'.at = "drain"
    BY <1>1, <1>5 DEF BeginDrain, LifeType
  <2> QED
    BY <1>4, <2>1
<1>6. CASE StopServer
  <2>1. Stay /\ life' \in LifeType /\ life'.at = "flush" /\ life'.stop # "none"
    BY <1>1, <1>6 DEF StopServer, LifeType
  <2> QED
    BY <1>4, <2>1
<1>7. CASE ServerStops
  <2>1. /\ Stay /\ life' \in LifeType /\ life'.at = life.at /\ life'.stop # "none"
        /\ life'.code = life.code /\ life.at # "exited"
    BY <1>1, <1>7 DEF ServerStops, LifeType, Alive
  <2> QED
    BY <1>4, <2>1
<1>8. CASE FlushSinks
  <2>1. CASE BeginShutdown /\ life' = [life EXCEPT !.at = "planner"] /\ UNCHANGED restarts
    <3>1. JobsInv' /\ Truthful /\ mem'.closed /\ Open(mem') = mem'.stopping
      BY <1>1, <2>1, BeginShutdownIs
    <3>2. life' \in LifeType /\ life'.at = "planner" /\ life'.stop = life.stop /\ life.stop # "none"
      BY <1>1, <1>8, <2>1 DEF FlushSinks, LifeType, LifeInv
    <3> QED
      BY <1>1, <2>1, <3>1, <3>2 DEF Steps, LifeInv, LifeType, Open
  <2>2. CASE life' = [Failed(life) EXCEPT !.at = "stopped"] /\ Stay
    <3>1. Stay /\ life' \in LifeType /\ life'.at = "stopped" /\ life'.code = 1
          /\ life'.stop = life.stop /\ life.stop # "none"
      <4>1. life.stop # "none"
        BY <1>8 DEF FlushSinks, LifeInv
      <4> DEFINE l == Failed(life)
      <4>2. l \in LifeType /\ l.code = 1 /\ l.stop = life.stop /\ life' = [l EXCEPT !.at = "stopped"]
        BY <1>1, <2>2
      <4> HIDE DEF l
      <4> QED
        BY <2>2, <4>1, <4>2 DEF LifeType
    <3> QED
      BY <1>4, <3>1
  <2> QED
    BY <1>8, <2>1, <2>2 DEF FlushSinks
<1>9. CASE PlannerStopped
  <2>1. /\ JobsInv' /\ Truthful /\ mem'.closed = mem.closed
        /\ Open(mem') = Open(mem) \ mem.stopping
    BY <1>1, <1>9, EndShutdownIs DEF PlannerStopped
  <2>2. /\ life' \in LifeType /\ life'.at = "spans" /\ life'.stop = life.stop
        /\ life.stop # "none" /\ UNCHANGED restarts
        /\ mem.closed /\ Open(mem) \subseteq mem.stopping
    BY <1>1, <1>9 DEF PlannerStopped, LifeType, LifeInv
  <2>3. Open(mem') = {}
    BY <2>1, <2>2
  <2> QED
    BY <1>1, <2>1, <2>2, <2>3 DEF Steps, LifeInv, LifeType, Open
<1>10. CASE FlushSpans
  <2>1. life.stop # "none" /\ life.at = "spans"
    BY <1>10 DEF FlushSpans, LifeInv
  <2> DEFINE l == Failed(life)
  <2>2. Stay /\ (life' = [life EXCEPT !.at = "stopped"] \/ life' = [l EXCEPT !.at = "stopped"])
    BY <1>10 DEF FlushSpans
  <2>3. l \in LifeType /\ l.code = 1 /\ l.stop = life.stop
    BY <1>1
  <2> HIDE DEF l
  <2>4. life' \in LifeType /\ life'.at = "stopped" /\ life'.stop # "none"
        /\ (life'.code = 0 => life.code = 0)
    BY <1>1, <2>1, <2>2, <2>3 DEF LifeType
  <2> QED
    BY <1>4, <2>1, <2>2, <2>4
<1>11. CASE CloseStore
  <2> DEFINE l == IF life.stop = "failed" THEN Failed(life) ELSE life
             k == Failed(l)
  <2>1. /\ Stay /\ life.at = "stopped" /\ life.stop # "pending" /\ life.stop # "none"
        /\ \/ life' = [[l EXCEPT !.at = "exited"] EXCEPT !.store = "closed"]
           \/ life' = [k EXCEPT !.at = "exited"]
    BY <1>11 DEF CloseStore, LifeInv
  <2>2. l \in LifeType /\ l.stop = life.stop /\ (l.code = 0 => l = life /\ life.stop # "failed")
    BY <1>1
  <2> HIDE DEF l
  <2>3. k \in LifeType /\ k.code = 1
    BY <2>2, LifeUpdated
  <2> HIDE DEF k
  <2>4. life' \in LifeType /\ life'.at = "exited"
    BY <2>1, <2>2, <2>3 DEF LifeType
  <2>5. life'.code = 0 => life.code = 0 /\ life'.store = "closed" /\ life'.stop = "done"
    <3>1. life.stop \in {"none", "pending", "done", "failed"}
      BY <1>1 DEF LifeType
    <3>2. CASE life' = [[l EXCEPT !.at = "exited"] EXCEPT !.store = "closed"]
      <4>1. life'.code = l.code /\ life'.store = "closed" /\ life'.stop = l.stop
        BY <2>2, <3>2 DEF LifeType
      <4> QED
        BY <2>1, <2>2, <3>1, <4>1
    <3>3. CASE life' = [k EXCEPT !.at = "exited"]
      BY <2>3, <3>3 DEF LifeType
    <3> QED
      BY <2>1, <3>2, <3>3
  <2> QED
    BY <1>4, <2>1, <2>4, <2>5
<1>12. ASSUME Stay, life' = [Failed(life) EXCEPT !.at = "exited"] PROVE Steps
  <2> DEFINE l == Failed(life)
  <2>1. l \in LifeType /\ l.code = 1 /\ life' = [l EXCEPT !.at = "exited"]
    BY <1>1, <1>12
  <2> HIDE DEF l
  <2>2. life' \in LifeType /\ life'.at = "exited" /\ life'.code = 1
    BY <2>1 DEF LifeType
  <2> QED
    BY <1>4, <1>12, <2>2
<1>13. CASE StartAgain
  <2>1. JobsInv' /\ Truthful
    BY <1>1, <1>13, RestartIs DEF StartAgain
  <2>2. life' \in LifeType /\ life'.at = "up" /\ restarts' \in 0..MaxRestarts
    BY <1>1, <1>13, LifecycleAssumption DEF StartAgain, Up, LifeType
  <2> QED
    BY <2>1, <2>2 DEF Steps, LifeInv, LifeType
<1>14. ASSUME NEW s \in Session, Callback(s) PROVE Steps
  <2>1. Alive /\ Tame /\ life' = life /\ restarts' = restarts
    BY <1>1, <1>14, JobStepTame DEF Callback
  <2>2. life.at = "planner" => mem'.closed /\ Open(mem') \subseteq mem'.stopping
    BY <2>1 DEF LifeInv, Tame
  <2>3. life.at \in {"spans", "stopped", "exited"} /\ life.code = 0 =>
            mem'.closed /\ Open(mem') = {}
    BY <2>1 DEF LifeInv, Tame
  <2> QED
    BY <2>1, <2>2, <2>3 DEF Steps, LifeInv, Tame, Open
<1> QED
  BY <1>5, <1>6, <1>7, <1>8, <1>9, <1>10, <1>11, <1>12, <1>13, <1>14
     DEF LifeNext, Watchdog, Crash

(* The inductive invariant of the lifecycle holds.                             *)
LEMMA LifeInductive == LifeSpec => []LifeInv
<1>1. LifeInit => LifeInv
  <2> SUFFICES ASSUME LifeInit PROVE LifeInv
    OBVIOUS
  <2>1. Sound(mem) /\ file = [s \in Session |-> "none"]
    BY FreshIs DEF LifeInit, InitJobs
  <2>2. JobsInv
    BY <2>1 DEF JobsInv
  <2> QED
    BY <2>2, LifecycleAssumption DEF LifeInit, Up, LifeInv, LifeType
<1>2. LifeInv /\ [LifeNext]_lifeVars => LifeInv'
  <2> SUFFICES ASSUME LifeInv, [LifeNext]_lifeVars PROVE LifeInv'
    OBVIOUS
  <2>1. CASE LifeNext
    BY <2>1, LifeStepKeeps DEF Steps
  <2>2. CASE UNCHANGED lifeVars
    BY <2>2 DEF lifeVars, LifeInv, JobsInv, Sound, Open
  <2> QED
    BY <2>1, <2>2
<1> QED
  BY <1>1, <1>2, PTL DEF LifeSpec

(* The variables of the process keep their types: see LifeTypeOK.              *)
THEOREM LifeTypeCorrect == LifeSpec => []LifeTypeOK
<1>1. LifeInv => LifeTypeOK
  BY DEF LifeInv, LifeType, LifeTypeOK, JobsInv, JobsTypeOK, Sound, Memories, JobType
<1> QED
  BY <1>1, LifeInductive, PTL

(* finalize gives a slot back once, whatever races for it: see SlotsMatchJobs. *)
THEOREM SlotsMatchTheJobs == LifeSpec => []SlotsMatchJobs
<1>1. LifeInv => SlotsMatchJobs
  <2> SUFFICES ASSUME LifeInv PROVE SlotsMatchJobs
    OBVIOUS
  <2>1. {s \in Session \cap Admitted : ~Job(s).settled} = Open(mem) \cap Admitted
        /\ {s \in Session : ~Job(s).settled} = Open(mem)
    BY DEF Open, Job
  <2> QED
    BY <2>1 DEF LifeInv, JobsInv, Sound, SlotsMatch, SlotsMatchJobs
<1> QED
  BY <1>1, LifeInductive, PTL

(* Exit code 0 means a graceful end: see CleanExit.                            *)
THEOREM ExitsClean == LifeSpec => []CleanExit
<1>1. LifeInv => CleanExit
  <2> SUFFICES ASSUME LifeInv, life.at = "exited" /\ life.code = 0
               PROVE  /\ life.store = "closed" /\ life.stop = "done"
                      /\ \A s \in Session : Job(s).settled
                      /\ ~Faults => \A s \in Session : file[s] # "running"
    BY DEF CleanExit
  <2>1. life.store = "closed" /\ life.stop = "done" /\ Open(mem) = {}
    BY DEF LifeInv
  <2> QED
    BY <2>1 DEF LifeInv, JobsInv, Open, Job
<1> QED
  BY <1>1, LifeInductive, PTL

(* What a client was told of a job's end stands: see AnswersStand.             *)
THEOREM AnswersHold == LifeSpec => AnswersStand
<1>1. LifeInv /\ [LifeNext]_lifeVars =>
        [\A s \in Session : Shown(s) \in Outcomes =>
            \/ Shown(s)' \in {Shown(s), "none"}
            \/ s \in ToSet(mem.unpersisted) /\ (mem' = FreshMemory \/ Crowded(s))]_<<file, mem>>
  <2> SUFFICES ASSUME LifeInv, LifeNext, ~UNCHANGED <<file, mem>>,
                      NEW s \in Session, Shown(s) \in Outcomes
               PROVE  \/ Shown(s)' \in {Shown(s), "none"}
                      \/ s \in ToSet(mem.unpersisted) /\ (mem' = FreshMemory \/ Crowded(s))
    BY DEF lifeVars
  <2>1. JobsInv /\ JobsInv' /\ Truthful
    BY LifeStepKeeps DEF Steps, LifeInv
  <2> QED
    BY <2>1, AnswersFollow
<1> QED
  BY <1>1, LifeInductive, PTL DEF LifeSpec, AnswersStand
===============================================================================
