------------------------- MODULE CircuitBreaker_proofs -------------------------
(***************************************************************************)
(* Proofs about CircuitBreaker, for any finite set of calls and any           *)
(* thresholds.                                                              *)
(*                                                                          *)
(* ProbesBounded is not inductive: the limit is compared with a counter, and  *)
(* nothing in it says what the counter counts.  IInv adds that a fresh slot   *)
(* belongs to a call whose request is out, and that the counter is the number *)
(* of fresh slots of a half-open breaker.                                   *)
(*                                                                          *)
(* The last part is about the history that MCCircuitBreaker keeps: what the   *)
(* breaker counts are the newest failures of it, no older than its window.    *)
(***************************************************************************)
EXTENDS MCCircuitBreaker, FiniteSetTheorems, TLAPS

(* What the breaker alone keeps to, in every state b of it.                   *)
Sound(b) ==
    /\ b \in Breaker
    /\ b.state = "open" => b.fresh = {}
    /\ b.state = "half_open" => /\ b.inFlight = Cardinality(b.fresh)
                                /\ b.inFlight <= HalfOpenMaxCalls
    /\ b.state # "half_open" => b.inFlight = 0

IInv ==
    /\ TypeOK
    /\ Sound(breaker)
    /\ \A c \in breaker.fresh : pc[c] = "sent"

-------------------------------------------------------------------------------
(* A set of calls is finite. *)
LEMMA FiniteCalls == \A S \in SUBSET Call : IsFiniteSet(S)
  BY BreakerAssumption, FS_Subset

(* The bounds are positive, so the values assigned are in range. *)
LEMMA Bounds ==
    /\ FailureThreshold \in Nat /\ WindowMs \in Nat /\ OpenMs \in Nat
    /\ HalfOpenMaxCalls \in Nat /\ HalfOpenMaxCalls > 0
    /\ 0 \in 0..(FailureThreshold + 1) /\ 1 \in 0..(FailureThreshold + 1)
    /\ 0 \in 0..WindowMs /\ WindowMs \in 0..WindowMs
    /\ 0 \in 0..OpenMs /\ OpenMs \in 0..OpenMs
  BY BreakerAssumption

(* OneMore stays in the range of the failure count. *)
LEMMA OneMoreTyped == \A n \in 0..(FailureThreshold + 1) : OneMore(n) \in 0..(FailureThreshold + 1)
  BY BreakerAssumption DEF OneMore, Lesser

(* A transition forgets every slot, so its result is sound. *)
LEMMA TransitionSound ==
    ASSUME NEW b \in Breaker, NEW to \in {"closed", "open", "half_open"}
    PROVE  /\ Sound(Transition(b, to))
           /\ Transition(b, to).state = to
           /\ Transition(b, to).fresh = {}
           /\ Transition(b, to).inFlight = 0
<1> DEFINE t == Transition(b, to)
<1>1. t \in Breaker /\ t.state = to /\ t.inFlight = 0 /\ t.fresh = {}
  BY DEF Transition, Breaker
<1>2. Cardinality({}) = 0
  BY FS_EmptySet
<1>3. 0 <= HalfOpenMaxCalls
  BY Bounds
<1> QED
  BY <1>1, <1>2, <1>3 DEF Sound

(* Opening is a transition. *)
LEMMA OpenSound ==
    ASSUME NEW b \in Breaker
    PROVE  Sound(Open(b)) /\ Open(b).state = "open" /\ Open(b).fresh = {}
<1>1. [b EXCEPT !.openAge = 0] \in Breaker
  BY Bounds DEF Breaker
<1> QED
  BY <1>1, TransitionSound DEF Open

(* Releasing a slot keeps the breaker sound and takes the slot away. *)
LEMMA ReleaseSound ==
    ASSUME NEW b, Sound(b), NEW c \in Call,
           NEW outcome \in {"success", "failure", "ignored"}
    PROVE  /\ Sound(Release(b, c, outcome))
           /\ Release(b, c, outcome).fresh \subseteq b.fresh \ {c}
<1> DEFINE freed == [b EXCEPT !.fresh = @ \ {c}]
           r == Release(b, c, outcome)
<1>1. b \in Breaker /\ freed \in Breaker
  BY DEF Sound, Breaker
<1>2. CASE c \notin b.fresh
  BY <1>2 DEF Release
<1>3. CASE c \in b.fresh /\ b.state = "half_open"
  <2>1. r = ReleaseProbe(freed, outcome)
    BY <1>3 DEF Release
  <2>2. CASE outcome = "success"
    <3> DEFINE reset == [freed EXCEPT !.failures = 0, !.window = WindowMs]
    <3> HIDE DEF freed
    <3>1. reset \in Breaker
      BY <1>1, Bounds DEF Breaker
    <3>2. r = Transition(reset, "closed")
      BY <2>1, <2>2 DEF ReleaseProbe
    <3> QED
      BY <3>1, <3>2, TransitionSound
  <2>3. CASE outcome = "failure"
    <3> DEFINE counted == [freed EXCEPT !.failures = OneMore(@)]
    <3>1. counted \in Breaker
      BY <1>1, OneMoreTyped DEF Breaker
    <3>2. r = Open(counted)
      BY <2>1, <2>3 DEF ReleaseProbe
    <3> QED
      BY <3>1, <3>2, OpenSound
  <2>4. CASE outcome = "ignored"
    <3>1. r = [freed EXCEPT !.inFlight = @ - 1]
      BY <2>1, <2>4 DEF ReleaseProbe
    <3>2. Cardinality(b.fresh \ {c}) = Cardinality(b.fresh) - 1
      BY <1>1, <1>3, FiniteCalls, FS_RemoveElement DEF Breaker
    <3>3. Cardinality(b.fresh \ {c}) \in Nat
      BY <1>1, FiniteCalls, FS_CardinalityType DEF Breaker
    <3>4. b.inFlight = Cardinality(b.fresh) /\ b.inFlight <= HalfOpenMaxCalls
      BY <1>3 DEF Sound
    <3>5. /\ r.state = "half_open"
          /\ r.fresh = b.fresh \ {c}
          /\ r.inFlight = b.inFlight - 1
      BY <1>1, <1>3, <3>1 DEF Breaker
    <3>6. r \in Breaker
      BY <1>1, <3>1, <3>2, <3>3, <3>4 DEF Breaker
    <3>7. r.inFlight <= HalfOpenMaxCalls
      BY <1>1, <3>4, <3>5, Bounds DEF Breaker
    <3> QED
      BY <3>2, <3>4, <3>5, <3>6, <3>7 DEF Sound
  <2> QED
    BY <2>2, <2>3, <2>4
<1>4. CASE c \in b.fresh /\ b.state # "half_open"
  <2>1. b.state = "closed" /\ b.inFlight = 0
    BY <1>1, <1>4 DEF Sound, Breaker
  <2>2. freed.state = "closed" /\ freed.inFlight = 0 /\ freed.fresh = b.fresh \ {c}
    BY <1>1, <2>1 DEF Breaker
  <2>3. CASE outcome # "failure"
    <3>1. r = freed
      BY <1>4, <2>3 DEF Release
    <3> QED
      BY <1>1, <2>2, <3>1 DEF Sound
  <2>4. CASE outcome = "failure"
    <3> DEFINE n == CountFailure(freed)
    <3>1. r = IF n.failures >= FailureThreshold THEN Open(n) ELSE n
      BY <1>4, <2>4 DEF Release, RecordClosedFailure
    <3>2. n \in Breaker
      BY <1>1, OneMoreTyped, Bounds DEF Breaker, CountFailure
    <3>3. n.state = "closed" /\ n.inFlight = 0 /\ n.fresh = b.fresh \ {c}
      BY <1>1, <2>2 DEF Breaker, CountFailure
    <3>4. Sound(n)
      BY <3>2, <3>3 DEF Sound
    <3> QED
      BY <3>1, <3>2, <3>3, <3>4, OpenSound
  <2> QED
    BY <2>3, <2>4
<1> QED
  BY <1>2, <1>3, <1>4

(* What a call asking for a slot finds: a sound breaker. *)
LEMMA SettledSound ==
    ASSUME NEW b, Sound(b)
    PROVE  Sound(Settled(b)) /\ Settled(b).fresh \subseteq b.fresh
<1>1. CASE b.state = "open" /\ b.openAge = OpenMs
  <2>1. Settled(b) = Transition(b, "half_open")
    BY <1>1 DEF Settled
  <2> QED
    BY <2>1, TransitionSound DEF Sound
<1>2. CASE ~(b.state = "open" /\ b.openAge = OpenMs)
  BY <1>2 DEF Settled
<1> QED
  BY <1>1, <1>2

(* Handing out a slot that is not refused stays within the limit. *)
LEMMA GrantSound ==
    ASSUME NEW b, Sound(b), NEW c \in Call, c \notin b.fresh, ~Refuses(b)
    PROVE  Sound(Grant(b, c)) /\ Grant(b, c).fresh \subseteq b.fresh \cup {c}
<1> DEFINE s == Settled(b)
           g == Grant(b, c)
<1>1. Sound(s) /\ s \in Breaker /\ s.fresh \subseteq b.fresh /\ c \notin s.fresh
  BY SettledSound DEF Sound
<1>2. s.state # "open" /\ ~(s.state = "half_open" /\ s.inFlight >= HalfOpenMaxCalls)
  BY DEF Refuses
<1>3. g = [s EXCEPT !.fresh = @ \cup {c},
                    !.inFlight = IF s.state = "half_open" THEN @ + 1 ELSE @]
  BY DEF Grant
<1> HIDE DEF s, g
<1> DEFINE n == IF s.state = "half_open" THEN s.inFlight + 1 ELSE s.inFlight
<1>4. n \in Nat /\ s.fresh \cup {c} \in SUBSET Call
  BY <1>1 DEF Breaker
<1>5. g = [s EXCEPT !.fresh = s.fresh \cup {c}, !.inFlight = n]
  BY <1>3
<1>6. /\ g \in Breaker
      /\ g.state = s.state
      /\ g.fresh = s.fresh \cup {c}
      /\ g.inFlight = n
  <2> HIDE DEF n
  <2> QED
    BY <1>1, <1>4, <1>5 DEF Breaker
<1>7. Cardinality(s.fresh \cup {c}) = Cardinality(s.fresh) + 1
  BY <1>1, FiniteCalls, FS_AddElement DEF Breaker
<1>8. s.state = "half_open" => s.inFlight + 1 <= HalfOpenMaxCalls
  BY <1>1, <1>2, Bounds DEF Breaker
<1> QED
  BY <1>1, <1>2, <1>6, <1>7, <1>8 DEF Sound, g

(* One pass of a call's loop, from any sound state of the breaker in which the
   call has no slot. *)
LEMMA NextPassInductive ==
    ASSUME TypeOK, NEW c \in Call, NEW n \in 0..MaxRetries,
           NEW b, Sound(b), c \notin b.fresh,
           \A d \in b.fresh : pc[d] = "sent",
           NextPass(c, b, n), healthy' \in BOOLEAN
    PROVE  IInv'
<1>1. CASE EndCall(c, b)
  <2>1. breaker' = b /\ pc' = [pc EXCEPT ![c] = "idle"] /\ retries' = [retries EXCEPT ![c] = 0]
    BY <1>1 DEF EndCall
  <2>2. b \in Breaker
    BY DEF Sound
  <2>3. TypeOK'
    BY <2>1, <2>2, BreakerAssumption DEF TypeOK
  <2>4. \A d \in b.fresh : pc'[d] = "sent"
    BY <2>1, <2>2 DEF TypeOK, Breaker
  <2> QED
    BY <2>1, <2>3, <2>4 DEF IInv
<1>2. CASE /\ ~Refuses(b)
           /\ breaker' = Grant(b, c)
           /\ pc' = [pc EXCEPT ![c] = "sent"]
           /\ retries' = [retries EXCEPT ![c] = n]
  <2>1. Sound(breaker') /\ breaker'.fresh \subseteq b.fresh \cup {c}
    BY <1>2, GrantSound
  <2>2. breaker' \in Breaker /\ b \in Breaker
    BY <2>1 DEF Sound
  <2>3. TypeOK'
    BY <1>2, <2>2 DEF TypeOK
  <2>4. \A d \in breaker'.fresh : pc'[d] = "sent"
    BY <1>2, <2>1, <2>2 DEF TypeOK, Breaker
  <2> QED
    BY <2>1, <2>3, <2>4 DEF IInv
<1> QED
  BY <1>1, <1>2 DEF NextPass

(* A call that is not in fetch has no slot the breaker counts. *)
LEMMA NoSlotElsewhere ==
    ASSUME IInv, NEW c \in Call, pc[c] # "sent"
    PROVE  c \notin breaker.fresh
  BY DEF IInv

LEMMA ReplyInductive ==
    ASSUME IInv, NEW c \in Call, NEW result \in Results, Reply(c, result)
    PROVE  IInv'
<1> DEFINE b == Release(breaker, c, ReleaseOutcome(result))
<1>1. TypeOK /\ Sound(breaker) /\ breaker \in Breaker
  BY DEF IInv, Sound
<1>2. ReleaseOutcome(result) \in {"success", "failure", "ignored"}
  BY DEF ReleaseOutcome, Results
<1>3. Sound(b) /\ b.fresh \subseteq breaker.fresh \ {c}
  BY <1>1, <1>2, ReleaseSound
<1>4. c \notin b.fresh /\ \A d \in b.fresh : pc[d] = "sent"
  BY <1>3 DEF IInv
<1>5. healthy' \in BOOLEAN
  BY <1>1 DEF Reply, TypeOK
<1>6. CASE EndCall(c, b)
  <2>1. NextPass(c, b, 0) /\ 0 \in 0..MaxRetries
    BY <1>6, BreakerAssumption DEF NextPass
  <2> HIDE DEF b
  <2> QED
    BY <1>1, <1>3, <1>4, <1>5, <2>1, NextPassInductive
<1>7. CASE Retriable(c, result) /\ NextPass(c, b, retries[c] + 1)
  <2>1. retries[c] + 1 \in 0..MaxRetries
    BY <1>1, <1>7, BreakerAssumption DEF Retriable, TypeOK
  <2> HIDE DEF b
  <2> QED
    BY <1>1, <1>3, <1>4, <1>5, <1>7, <2>1, NextPassInductive
<1>8. CASE /\ Retriable(c, result)
           /\ breaker' = b
           /\ pc' = [pc EXCEPT ![c] = "asleep"]
           /\ retries' = [retries EXCEPT ![c] = @ + 1]
  <2> HIDE DEF b
  <2>1. retries[c] + 1 \in 0..MaxRetries
    BY <1>1, <1>8, BreakerAssumption DEF Retriable, TypeOK
  <2>2. b \in Breaker
    BY <1>3 DEF Sound
  <2>3. TypeOK'
    BY <1>1, <1>5, <1>8, <2>1, <2>2 DEF TypeOK
  <2>4. \A d \in b.fresh : pc'[d] = "sent"
    BY <1>1, <1>4, <1>8, <2>2 DEF TypeOK, Breaker
  <2> QED
    BY <1>3, <1>8, <2>3, <2>4 DEF IInv
<1> QED
  BY <1>6, <1>7, <1>8 DEF Reply

LEMMA Inductive == IInv /\ [Next]_vars => IInv'
<1> SUFFICES ASSUME IInv, [Next]_vars PROVE IInv'
  OBVIOUS
<1>1. TypeOK /\ Sound(breaker) /\ breaker \in Breaker
  BY DEF IInv, Sound
<1>2. \A d \in breaker.fresh : pc[d] = "sent"
  BY DEF IInv
<1>3. ASSUME NEW c \in Call, Start(c) PROVE IInv'
  <2>1. NextPass(c, breaker, 0) /\ c \notin breaker.fresh /\ healthy' \in BOOLEAN
    BY <1>1, <1>3, NoSlotElsewhere DEF Start, TypeOK
  <2>2. 0 \in 0..MaxRetries
    BY BreakerAssumption
  <2> QED
    BY <1>1, <1>2, <2>1, <2>2, NextPassInductive
<1>4. ASSUME NEW c \in Call, Wake(c) PROVE IInv'
  <2>1. /\ NextPass(c, breaker, retries[c])
        /\ c \notin breaker.fresh
        /\ healthy' \in BOOLEAN
    BY <1>1, <1>4, NoSlotElsewhere DEF Wake, TypeOK, NextPass
  <2>2. retries[c] \in 0..MaxRetries
    BY <1>1 DEF TypeOK
  <2> QED
    BY <1>1, <1>2, <2>1, <2>2, NextPassInductive
<1>5. ASSUME NEW c \in Call, NEW result \in Results, Reply(c, result) PROVE IInv'
  BY <1>5, ReplyInductive
<1>6. CASE Tick
  <2>1. /\ breaker' \in Breaker
        /\ breaker'.state = breaker.state
        /\ breaker'.fresh = breaker.fresh
        /\ breaker'.inFlight = breaker.inFlight
    <3>1. /\ Lesser(breaker.window + 1, WindowMs) \in 0..WindowMs
          /\ Lesser(breaker.openAge + 1, OpenMs) \in 0..OpenMs
      BY <1>1, Bounds DEF Breaker, Lesser
    <3> QED
      BY <1>1, <1>6, <3>1 DEF Tick, Breaker
  <2>2. Sound(breaker')
    BY <1>1, <2>1 DEF Sound
  <2> QED
    BY <1>1, <1>2, <1>6, <2>1, <2>2 DEF Tick, IInv, TypeOK
<1>7. CASE UpstreamChanges
  BY <1>1, <1>2, <1>7 DEF UpstreamChanges, IInv, TypeOK
<1>8. CASE UNCHANGED vars
  BY <1>1, <1>2, <1>8 DEF vars, IInv, TypeOK
<1> QED
  BY <1>3, <1>4, <1>5, <1>6, <1>7, <1>8 DEF Next

LEMMA Initial == Init => IInv
<1> SUFFICES ASSUME Init PROVE IInv
  OBVIOUS
<1>1. breaker \in Breaker
  BY Bounds DEF Init, Breaker
<1>2. TypeOK
  BY <1>1, BreakerAssumption DEF Init, TypeOK
<1> QED
  BY <1>1, <1>2 DEF Init, IInv, Sound

(* The invariant behind the theorems below. *)
LEMMA Invariance == Spec => []IInv
  BY Initial, Inductive, PTL DEF Spec

-------------------------------------------------------------------------------
(* The breaker, the calls and their retry counts stay within their ranges.    *)
THEOREM TypeCorrect == Spec => []TypeOK
<1>1. IInv => TypeOK
  BY DEF IInv
<1> QED
  BY <1>1, Invariance, PTL

(* A breaker that is not closed lets at most HalfOpenMaxCalls requests reach the
   upstream, however many calls there are and whenever older ones come back.  *)
THEOREM UpstreamSpared == Spec => []ProbesBounded
<1>1. IInv => ProbesBounded
  <2> SUFFICES ASSUME IInv PROVE ProbesBounded
    OBVIOUS
  <2>1. Outstanding = breaker.fresh
    BY DEF IInv, Outstanding
  <2> QED
    BY <2>1 DEF IInv, Sound, ProbesBounded
<1> QED
  BY <1>1, Invariance, PTL

(* The probe counter is the number of probes in flight.                      *)
THEOREM SlotsReturn == Spec => []NoSlotLeaks
<1>1. IInv => NoSlotLeaks
  <2> SUFFICES ASSUME IInv PROVE NoSlotLeaks
    OBVIOUS
  <2>1. Outstanding = breaker.fresh
    BY DEF IInv, Outstanding
  <2> QED
    BY <2>1 DEF IInv, Sound, NoSlotLeaks
<1> QED
  BY <1>1, Invariance, PTL

(* A result that arrives after a transition leaves the breaker as it is; the
   call may only become the next probe.                                      *)
THEOREM LateResults == Spec => LateResultsHarmless
<1> DEFINE Goes(c) == /\ pc[c] = "sent"
                      /\ pc'[c] # "sent" \/ retries'[c] # retries[c]
           Harmless == \A c \in Call \ breaker.fresh :
                          Goes(c) => breaker' \in {breaker, Grant(breaker, c)}
<1>1. IInv /\ [Next]_vars => Harmless
  <2> SUFFICES ASSUME IInv, [Next]_vars,
                      NEW c \in Call, c \notin breaker.fresh, Goes(c)
               PROVE  breaker' \in {breaker, Grant(breaker, c)}
    OBVIOUS
  <2>1. pc \in [Call -> {"idle", "sent", "asleep"}] /\ retries \in [Call -> 0..MaxRetries]
    BY DEF IInv, TypeOK
  <2>2. ASSUME NEW d \in Call, NEW b, NEW n, NextPass(d, b, n), d # c
        PROVE  pc'[c] = pc[c] /\ retries'[c] = retries[c]
    BY <2>1, <2>2 DEF NextPass, EndCall
  <2>3. ASSUME NEW d \in Call, Start(d) PROVE FALSE
    <3>1. d # c /\ NextPass(d, breaker, 0)
      BY <2>3 DEF Start
    <3> QED
      BY <2>2, <3>1
  <2>4. ASSUME NEW d \in Call, Wake(d) PROVE FALSE
    <3>1. d # c /\ NextPass(d, breaker, retries[d])
      BY <2>4 DEF Wake, NextPass
    <3> QED
      BY <2>2, <3>1
  <2>5. ASSUME NEW d \in Call, NEW result \in Results, Reply(d, result)
        PROVE  breaker' \in {breaker, Grant(breaker, c)}
    <3> DEFINE b == Release(breaker, d, ReleaseOutcome(result))
    <3>1. CASE d = c
      <4>1. b = breaker
        BY <3>1 DEF Release
      <4> QED
        BY <2>5, <3>1, <4>1 DEF Reply, EndCall, NextPass
    <3>2. CASE d # c
      <4>1. \/ EndCall(d, b)
            \/ NextPass(d, b, retries[d] + 1)
            \/ /\ pc' = [pc EXCEPT ![d] = "asleep"]
               /\ retries' = [retries EXCEPT ![d] = @ + 1]
        BY <2>5 DEF Reply
      <4> HIDE DEF b
      <4>2. pc'[c] = pc[c] /\ retries'[c] = retries[c]
        BY <2>1, <2>2, <3>2, <4>1 DEF EndCall
      <4> QED
        BY <4>2
    <3> QED
      BY <3>1, <3>2
  <2>6. CASE Tick
    BY <2>6 DEF Tick
  <2>7. CASE UpstreamChanges
    BY <2>7 DEF UpstreamChanges
  <2>8. CASE UNCHANGED vars
    BY <2>8 DEF vars
  <2> QED
    BY <2>3, <2>4, <2>5, <2>6, <2>7, <2>8 DEF Next
<1> QED
  BY <1>1, Invariance, PTL DEF Spec, LateResultsHarmless
-------------------------------------------------------------------------------
(* The failures that the breaker counts are the last ones, and all younger     *)
(* than its window, whenever that runs.                                      *)
Ages == 0..WindowMs
Recent(b, h) ==
    /\ b.failures < FailureThreshold
    /\ b.window < WindowMs =>
           /\ b.failures <= Len(h)
           /\ \A i \in DOMAIN h : i > Len(h) - b.failures => h[i] <= b.window

HistoryInv ==
    /\ IInv
    /\ history \in Seq(Ages) /\ Len(history) <= FailureThreshold
    /\ breaker.state = "closed" => Recent(breaker, history)

(* A history grows to FailureThreshold failures and then forgets the oldest.   *)
LEMMA OneFailureMore ==
  ASSUME NEW h \in Seq(Ages), Len(h) <= FailureThreshold, NEW n, n = Newest(Append(h, 0))
  PROVE  /\ n \in Seq(Ages) /\ Len(n) \in Nat /\ Len(n) > 0
         /\ Len(n) = Lesser(Len(h) + 1, FailureThreshold)
         /\ n[Len(n)] = 0
         /\ \A i \in DOMAIN n : i < Len(n) => /\ i + Len(h) - Len(n) + 1 \in DOMAIN h
                                              /\ n[i] = h[i + Len(h) - Len(n) + 1]
<1> DEFINE a == Append(h, 0)
<1>1. FailureThreshold \in Nat /\ FailureThreshold > 0 /\ WindowMs \in Nat /\ 0 \in Ages
  BY BreakerAssumption DEF Ages
<1>2. /\ a \in Seq(Ages) /\ Len(a) = Len(h) + 1 /\ a[Len(h) + 1] = 0 /\ Len(h) \in Nat
      /\ \A i \in 1..Len(h) : a[i] = h[i]
      /\ DOMAIN h = 1..Len(h)
  BY <1>1
<1> HIDE DEF a
<1>3. CASE Len(a) > FailureThreshold
  <2>1. n = Tail(a)
    BY <1>3 DEF Newest, a
  <2>2. /\ n \in Seq(Ages) /\ Len(n) = Len(h) /\ DOMAIN n = 1..Len(h)
        /\ \A i \in 1..Len(h) : n[i] = a[i + 1]
    BY <1>2, <2>1
  <2>3. Len(h) = FailureThreshold
    <3>1. Len(h) + 1 > FailureThreshold /\ Len(h) <= FailureThreshold
      BY <1>2, <1>3
    <3>2. Len(h) \in Nat /\ FailureThreshold \in Nat
      BY <1>1, <1>2
    <3>3. \A x, y \in Nat : (x + 1 > y /\ x <= y) => x = y
      OBVIOUS
    <3> QED
      BY <3>1, <3>2, <3>3, Zenon
  <2> QED
    BY <1>1, <1>2, <2>2, <2>3 DEF Lesser
<1>4. CASE ~(Len(a) > FailureThreshold)
  <2>1. n = a
    BY <1>4 DEF Newest, a
  <2> QED
    BY <1>1, <1>2, <1>4, <2>1 DEF Lesser
<1> QED
  BY <1>3, <1>4

(* A failure of a closed breaker: it opens on FailureThreshold recent ones, or *)
(* counts one more.                                                          *)
LEMMA FailureCounted ==
  ASSUME NEW b \in Breaker, b.state = "closed",
         NEW h \in Seq(Ages), Len(h) <= FailureThreshold, Recent(b, h),
         NEW n, n = Newest(Append(h, 0)), NEW r, r = RecordClosedFailure(b)
  PROVE  /\ n \in Seq(Ages) /\ Len(n) <= FailureThreshold
         /\ r.state = "closed" => Recent(r, n)
         /\ r.state # "closed" => /\ Len(n) = FailureThreshold
                                  /\ \A i \in DOMAIN n : n[i] < WindowMs
         /\ r.state \in {"closed", "open"}
<1> DEFINE c == CountFailure(b)
<1>1. /\ FailureThreshold \in Nat /\ FailureThreshold > 0 /\ WindowMs \in Nat /\ WindowMs > 0
      /\ b.failures \in Nat /\ b.window \in 0..WindowMs
  BY BreakerAssumption DEF Breaker
<1>2. /\ n \in Seq(Ages) /\ Len(n) \in Nat /\ Len(n) > 0 /\ Len(h) \in Nat
      /\ Len(n) = Lesser(Len(h) + 1, FailureThreshold)
      /\ n[Len(n)] = 0
      /\ \A i \in DOMAIN n : i < Len(n) => /\ i + Len(h) - Len(n) + 1 \in DOMAIN h
                                           /\ n[i] = h[i + Len(h) - Len(n) + 1]
      /\ DOMAIN n = 1..Len(n)
  BY OneFailureMore
<1>3. /\ c.state = "closed" /\ c.window \in 0..WindowMs /\ c.window < WindowMs
      /\ c.failures \in Nat /\ c.failures <= FailureThreshold /\ c.failures <= Len(n)
      /\ \A i \in DOMAIN n : i > Len(n) - c.failures => n[i] <= c.window
  <2>1. CASE b.window = WindowMs
    <3>1. c.state = "closed" /\ c.window = 0 /\ c.failures = 1
      BY <2>1 DEF CountFailure, Breaker
    <3>2. \A i \in DOMAIN n : i > Len(n) - 1 => i = Len(n)
      BY <1>2
    <3> HIDE DEF c
    <3> QED
      BY <1>1, <1>2, <3>1, <3>2
  <2>2. CASE b.window # WindowMs
    <3>1. b.window < WindowMs
      BY <1>1, <2>2
    <3>2. /\ b.failures < FailureThreshold /\ b.failures <= Len(h)
          /\ \A i \in DOMAIN h : i > Len(h) - b.failures => h[i] <= b.window
      BY <3>1 DEF Recent
    <3>3. c.state = "closed" /\ c.window = b.window /\ c.failures = b.failures + 1
      <4>1. OneMore(b.failures) = b.failures + 1
        BY <1>1, <3>2 DEF OneMore, Lesser
      <4> QED
        BY <2>2, <4>1 DEF CountFailure, Breaker
    <3> HIDE DEF c
    <3>4. c.failures <= Len(n)
      BY <1>1, <1>2, <3>2, <3>3 DEF Lesser
    <3>5. ASSUME NEW i \in DOMAIN n, i > Len(n) - c.failures PROVE n[i] <= c.window
      <4>1. CASE i = Len(n)
        BY <1>1, <1>2, <3>3, <4>1
      <4>2. CASE i < Len(n)
        <5> DEFINE j == i + Len(h) - Len(n) + 1
        <5>1. j \in DOMAIN h /\ n[i] = h[j]
          BY <1>2, <4>2
        <5>2. j > Len(h) - b.failures
          BY <1>1, <1>2, <3>3, <3>5
        <5> QED
          BY <3>2, <3>3, <5>1, <5>2
      <4> QED
        BY <1>2, <4>1, <4>2
    <3> QED
      BY <1>1, <3>1, <3>2, <3>3, <3>4, <3>5
  <2> QED
    BY <2>1, <2>2
<1>4. r = IF c.failures >= FailureThreshold THEN Open(c) ELSE c
  BY DEF RecordClosedFailure
<1>5. CASE c.failures >= FailureThreshold
  <2>1. c \in Breaker
    BY OneMoreTyped, Bounds DEF Breaker, CountFailure
  <2>2. r.state = "open"
    BY <1>4, <1>5, <2>1, OpenSound
  <2> HIDE DEF c
  <2>3. c.failures = FailureThreshold /\ Len(n) = FailureThreshold
    BY <1>1, <1>2, <1>3, <1>5 DEF Lesser
  <2>4. ASSUME NEW i \in DOMAIN n PROVE n[i] < WindowMs
    <3>1. n[i] <= c.window /\ n[i] \in Ages
      BY <1>1, <1>2, <1>3, <2>3
    <3> QED
      BY <1>1, <1>3, <3>1 DEF Ages
  <2> QED
    BY <1>1, <1>2, <2>2, <2>3, <2>4
<1>6. CASE ~(c.failures >= FailureThreshold)
  <2>1. r = c
    BY <1>4, <1>6
  <2> HIDE DEF c
  <2> QED
    BY <1>1, <1>2, <1>3, <1>6, <2>1 DEF Recent, Lesser
<1> QED
  BY <1>5, <1>6

(* A step of a call that is not told of a failure that counts.                 *)
LEMMA NothingCounted ==
  ASSUME NEW b \in Breaker, NEW c \in Call, NEW outcome \in {"success", "failure", "ignored"},
         NEW r, r = Release(b, c, outcome),
         ~(outcome = "failure" /\ c \in b.fresh /\ b.state = "closed")
  PROVE  /\ b.state = "closed" => /\ r.state = "closed" /\ r.failures = b.failures
                                  /\ r.window = b.window
         /\ (b.state # "closed" /\ r.state = "closed") =>
                r.failures = 0 /\ r.window = WindowMs
<1> DEFINE freed == [b EXCEPT !.fresh = @ \ {c}]
<1>1. /\ freed.state = b.state /\ freed.failures = b.failures /\ freed.window = b.window
      /\ freed \in Breaker
  BY DEF Breaker
<1>2. CASE c \notin b.fresh
  BY <1>2 DEF Release
<1>3. CASE c \in b.fresh /\ b.state = "half_open"
  <2>1. r = ReleaseProbe(freed, outcome)
    BY <1>3 DEF Release
  <2> HIDE DEF freed
  <2>2. CASE outcome = "success"
    <3>1. r = Transition([freed EXCEPT !.failures = 0, !.window = WindowMs], "closed")
      BY <2>1, <2>2 DEF ReleaseProbe
    <3> QED
      BY <1>1, <1>3, <3>1 DEF Transition, Breaker
  <2>3. CASE outcome = "failure"
    <3>1. r = Open([freed EXCEPT !.failures = OneMore(@)])
      BY <2>1, <2>3 DEF ReleaseProbe
    <3>2. r.state = "open"
      BY <1>1, <3>1 DEF Open, Transition, Breaker
    <3> QED
      BY <1>3, <3>2
  <2>4. CASE outcome = "ignored"
    <3>1. r = [freed EXCEPT !.inFlight = @ - 1]
      BY <2>1, <2>4 DEF ReleaseProbe
    <3> QED
      BY <1>1, <1>3, <3>1 DEF Breaker
  <2> QED
    BY <2>2, <2>3, <2>4
<1>4. CASE c \in b.fresh /\ b.state # "half_open"
  <2>1. CASE outcome = "failure"
    <3>1. b.state = "open" /\ r = RecordClosedFailure(freed)
      BY <1>4, <2>1 DEF Release, Breaker
    <3> DEFINE n == CountFailure(freed)
    <3>2. n.state = "open" /\ n \in Breaker
      BY <1>1, <3>1, OneMoreTyped, Bounds DEF CountFailure, Breaker
    <3>3. r = IF n.failures >= FailureThreshold THEN Open(n) ELSE n
      BY <3>1 DEF RecordClosedFailure
    <3> HIDE DEF n
    <3>4. r.state = "open"
      BY <3>2, <3>3, OpenSound
    <3> QED
      BY <3>1, <3>4
  <2>2. CASE outcome # "failure"
    <3>1. r = freed
      BY <1>4, <2>2 DEF Release
    <3> QED
      BY <1>1, <3>1
  <2> QED
    BY <2>1, <2>2
<1> QED
  BY <1>2, <1>3, <1>4

(* Asking for a slot changes neither the count nor, of a closed breaker, the    *)
(* state.                                                                    *)
LEMMA PassLeaves ==
  ASSUME NEW b \in Breaker, NEW c, NEW n, NextPass(c, b, n)
  PROVE  /\ breaker'.state = "closed" <=> b.state = "closed"
         /\ b.state = "closed" => breaker'.failures = b.failures /\ breaker'.window = b.window
<1>1. CASE breaker' = b
  BY <1>1
<1>2. CASE breaker' = Grant(b, c)
  <2> DEFINE s == Settled(b)
  <2>1. /\ s \in Breaker /\ (s.state = "closed" <=> b.state = "closed")
        /\ b.state = "closed" => s = b
    BY DEF Settled, Transition, Breaker
  <2>2. Grant(b, c) = [s EXCEPT !.fresh = @ \cup {c},
                               !.inFlight = IF s.state = "half_open" THEN @ + 1 ELSE @]
    BY DEF Grant
  <2> HIDE DEF s
  <2>3. /\ breaker'.state = s.state /\ breaker'.failures = s.failures
        /\ breaker'.window = s.window
    BY <1>2, <2>1, <2>2 DEF Breaker
  <2> QED
    BY <2>1, <2>3
<1> QED
  BY <1>1, <1>2 DEF NextPass, EndCall

(* A reply: what the breaker does with it, and what the history does.          *)
LEMMA ReplyRecorded ==
  ASSUME HistoryInv, NEW c \in Call, NEW result \in Results, Reply(c, result),
         history' = HistoryAfter(c, result)
  PROVE  /\ history' \in Seq(Ages) /\ Len(history') <= FailureThreshold
         /\ breaker'.state = "closed" => Recent(breaker', history')
         /\ (breaker.state = "closed" /\ breaker'.state # "closed") =>
                /\ Len(history') = FailureThreshold
                /\ \A i \in DOMAIN history' : history'[i] < WindowMs
<1> DEFINE outcome == ReleaseOutcome(result)
           b == Release(breaker, c, outcome)
<1>1. breaker \in Breaker /\ Sound(breaker)
  BY DEF HistoryInv, IInv, Sound
<1>2. outcome \in {"success", "failure", "ignored"}
  BY DEF ReleaseOutcome, Results
<1>3. Sound(b) /\ b \in Breaker
  BY <1>1, <1>2, ReleaseSound DEF Sound
<1>4. breaker' = b \/ \E n : NextPass(c, b, n)
  BY DEF Reply, EndCall
<1> HIDE DEF outcome
<1>5. b = Release(breaker, c, outcome)
  OBVIOUS
<1> HIDE DEF b
<1>6. /\ breaker'.state = "closed" <=> b.state = "closed"
      /\ b.state = "closed" => breaker'.failures = b.failures /\ breaker'.window = b.window
  BY <1>3, <1>4, PassLeaves
<1>7. FailureThreshold \in Nat /\ FailureThreshold > 0
  BY BreakerAssumption
<1>8. CASE Counts(c, result)
  <2>1. outcome = "failure" /\ c \in breaker.fresh /\ breaker.state = "closed"
    BY <1>8 DEF Counts, outcome
  <2> DEFINE freed == [breaker EXCEPT !.fresh = @ \ {c}]
  <2>2. b = RecordClosedFailure(freed)
    BY <1>5, <2>1 DEF Release
  <2>3. /\ freed \in Breaker /\ freed.state = "closed" /\ freed.failures = breaker.failures
        /\ freed.window = breaker.window
    BY <1>1, <2>1 DEF Breaker
  <2>4. Recent(freed, history)
    BY <2>1, <2>3 DEF HistoryInv, Recent
  <2>5. history' = Newest(Append(history, 0))
    BY <1>8, <2>1 DEF HistoryAfter
  <2> HIDE DEF freed
  <2>6. /\ history' \in Seq(Ages) /\ Len(history') <= FailureThreshold
        /\ b.state = "closed" => Recent(b, history')
        /\ b.state # "closed" => /\ Len(history') = FailureThreshold
                                 /\ \A i \in DOMAIN history' : history'[i] < WindowMs
    BY <2>2, <2>3, <2>4, <2>5, FailureCounted DEF HistoryInv
  <2> QED
    BY <1>6, <2>6 DEF Recent
<1>9. CASE ~Counts(c, result)
  <2>1. ~(outcome = "failure" /\ c \in breaker.fresh /\ breaker.state = "closed")
    BY <1>9 DEF Counts, outcome
  <2>2. /\ breaker.state = "closed" => /\ b.state = "closed" /\ b.failures = breaker.failures
                                       /\ b.window = breaker.window
        /\ (breaker.state # "closed" /\ b.state = "closed") =>
               b.failures = 0 /\ b.window = WindowMs
    BY <1>1, <1>2, <1>5, <2>1, NothingCounted
  <2>3. CASE breaker.state = "closed"
    <3>1. history' = history
      BY <1>9, <2>3 DEF HistoryAfter
    <3> QED
      BY <1>6, <2>2, <2>3, <3>1 DEF HistoryInv, Recent
  <2>4. CASE breaker.state # "closed" /\ b.state # "closed"
    <3>1. history' = history
      BY <1>6, <1>9, <2>4 DEF HistoryAfter
    <3> QED
      BY <1>6, <2>4, <3>1 DEF HistoryInv
  <2>5. CASE breaker.state # "closed" /\ b.state = "closed"
    <3>1. history' = <<>>
      BY <1>6, <2>5 DEF HistoryAfter
    <3>2. breaker'.failures = 0 /\ breaker'.window = WindowMs
      BY <1>6, <2>2, <2>5
    <3> QED
      BY <1>7, <2>5, <3>1, <3>2, Bounds DEF Recent
  <2> QED
    BY <2>3, <2>4, <2>5
<1> QED
  BY <1>8, <1>9

(* Time passes for the window and the failures alike.                          *)
LEMMA TickAges ==
  ASSUME HistoryInv, Tick, history' = Older(history)
  PROVE  /\ history' \in Seq(Ages) /\ Len(history') <= FailureThreshold
         /\ breaker'.state = breaker.state
         /\ breaker'.state = "closed" => Recent(breaker', history')
<1>1. /\ breaker \in Breaker /\ WindowMs \in Nat /\ FailureThreshold \in Nat
      /\ history \in Seq(Ages)
  BY BreakerAssumption DEF HistoryInv, IInv, Sound
<1>2. /\ Len(history) \in Nat /\ DOMAIN history = 1..Len(history)
      /\ \A i \in DOMAIN history : history[i] \in Ages
  BY <1>1
<1>3. /\ breaker'.state = breaker.state /\ breaker'.failures = breaker.failures
      /\ breaker'.window = Lesser(breaker.window + 1, WindowMs)
      /\ breaker.window \in 0..WindowMs
  BY <1>1 DEF Tick, Breaker
<1>4. \A i \in DOMAIN history : Lesser(history[i] + 1, WindowMs) \in Ages
  BY <1>1, <1>2 DEF Lesser, Ages
<1>5. /\ history' \in Seq(Ages) /\ Len(history') = Len(history)
      /\ DOMAIN history' = DOMAIN history
      /\ \A i \in DOMAIN history : history'[i] = Lesser(history[i] + 1, WindowMs)
  <2>1. history' = [i \in 1..Len(history) |-> Lesser(history[i] + 1, WindowMs)]
    BY <1>2 DEF Older
  <2> QED
    BY <1>2, <1>4, <2>1
<1>6. ASSUME breaker.state = "closed" PROVE Recent(breaker', history')
  <2>1. Recent(breaker, history)
    BY <1>6 DEF HistoryInv
  <2>2. CASE breaker'.window < WindowMs
    <3>1. breaker.window < WindowMs /\ breaker'.window = breaker.window + 1
      BY <1>1, <1>3, <2>2 DEF Lesser
    <3>2. ASSUME NEW i \in DOMAIN history, i > Len(history) - breaker.failures
          PROVE  history'[i] <= breaker'.window
      <4>1. history[i] <= breaker.window
        BY <2>1, <3>1, <3>2 DEF Recent
      <4> QED
        BY <1>1, <1>2, <1>3, <1>5, <3>1, <4>1 DEF Lesser, Ages
    <3> QED
      BY <1>3, <1>5, <2>1, <3>1, <3>2 DEF Recent
  <2>3. CASE ~(breaker'.window < WindowMs)
    BY <1>3, <2>1, <2>3 DEF Recent
  <2> QED
    BY <2>2, <2>3
<1> QED
  BY <1>3, <1>5, <1>6 DEF HistoryInv

(* What the breaker opens on, step by step.                                   *)
OpensRecently ==
    breaker.state = "closed" /\ breaker'.state = "open" =>
        /\ Len(history') = FailureThreshold
        /\ \A i \in DOMAIN history' : history'[i] < WindowMs

LEMMA HistoryStarts == MCInit => HistoryInv
<1> SUFFICES ASSUME MCInit PROVE HistoryInv
  OBVIOUS
<1>1. IInv
  BY Initial DEF MCInit
<1>2. breaker.failures = 0 /\ breaker.window = WindowMs /\ history = <<>>
  BY DEF MCInit, Init
<1> QED
  BY <1>1, <1>2, BreakerAssumption DEF HistoryInv, Recent

LEMMA HistoryKept ==
  ASSUME HistoryInv, [MCNext]_<<vars, history>>
  PROVE  HistoryInv' /\ OpensRecently
<1>1. breaker \in Breaker
  BY DEF HistoryInv, IInv, Sound
<1>2. IInv'
  <2>1. [Next]_vars
    BY DEF MCNext, Next
  <2> QED
    BY <2>1, Inductive DEF HistoryInv
<1>3. ASSUME NEW c \in Call, NEW result \in Results, Reply(c, result),
             history' = HistoryAfter(c, result)
      PROVE  HistoryInv' /\ OpensRecently
  BY <1>2, <1>3, ReplyRecorded DEF HistoryInv, OpensRecently
<1>4. ASSUME NEW c \in Call, Start(c) \/ Wake(c), UNCHANGED history
      PROVE  HistoryInv' /\ OpensRecently
  <2>1. \E n : NextPass(c, breaker, n)
    BY <1>4 DEF Start, Wake
  <2>2. /\ breaker'.state = "closed" <=> breaker.state = "closed"
        /\ breaker.state = "closed" =>
               breaker'.failures = breaker.failures /\ breaker'.window = breaker.window
    BY <1>1, <2>1, PassLeaves
  <2> QED
    BY <1>2, <1>4, <2>2 DEF HistoryInv, OpensRecently, Recent
<1>5. CASE Tick /\ history' = Older(history)
  BY <1>2, <1>5, TickAges DEF HistoryInv, OpensRecently
<1>6. CASE UNCHANGED <<breaker, history>>
  BY <1>2, <1>6 DEF HistoryInv, OpensRecently, Recent
<1> QED
  BY <1>3, <1>4, <1>5, <1>6 DEF MCNext, UpstreamChanges, vars

(* The breaker opens only on FailureThreshold failures younger than a window,  *)
(* none of them of a call from before it last closed: a failure of an older    *)
(* window or of a stale slot does not count (recordClosedFailure, release).   *)
THEOREM FailuresRecent == MCSpec => OpensOnRecentFailures
<1>1. HistoryInv /\ [MCNext]_<<vars, history>> => HistoryInv'
  BY HistoryKept
<1>2. HistoryInv /\ [MCNext]_<<vars, history>> =>
          [breaker.state = "closed" /\ breaker'.state = "open" =>
              /\ Len(history') = FailureThreshold
              /\ \A i \in DOMAIN history' : history'[i] < WindowMs]_<<vars, history>>
  BY HistoryKept DEF OpensRecently
<1> QED
  BY <1>1, <1>2, HistoryStarts, PTL DEF MCSpec, OpensOnRecentFailures
================================================================================
