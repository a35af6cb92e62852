----------------------------- MODULE CircuitBreaker -----------------------------
(***************************************************************************)
(* The breaker of engine/breaker.ts together with the completer of           *)
(* engine/openrouter.ts that takes a slot for every HTTP attempt.  Calls run  *)
(* concurrently; what happens between two awaits of a call is one action.     *)
(*                                                                          *)
(* Abstractions.  `generation` only ever tells whether a slot was handed out  *)
(* since the last transition: `fresh` is the set of calls whose slot was.     *)
(* Times are ages, stopped at the value the code compares them with; a        *)
(* window that was never started and one that ran out are treated alike, and  *)
(* both are the age WindowMs.  `failures` stops one above the threshold:      *)
(* beyond it only snapshot() reads it.  The clock does not run backwards.     *)
(***************************************************************************)
EXTENDS Naturals, FiniteSets

CONSTANTS
    Call,             \* completer calls, each retrying on its own
    FailureThreshold, \* config.breakerFailures
    WindowMs,         \* failure-counting window, in ticks
    OpenMs,           \* time the breaker stays open, in ticks
    HalfOpenMaxCalls, \* probes in flight while half open
    MaxRetries        \* MAX_RETRIES of the completer

ASSUME BreakerAssumption ==
    /\ IsFiniteSet(Call)
    /\ {FailureThreshold, WindowMs, OpenMs, HalfOpenMaxCalls} \subseteq Nat \ {0}
    /\ MaxRetries \in Nat

VARIABLES
    breaker,  \* what createCircuitBreaker keeps
    pc,       \* where each call is: idle, sent (in fetch), asleep (backing off)
    retries,  \* attempts a call has repeated
    healthy   \* whether the upstream answers

vars == <<breaker, pc, retries, healthy>>

Breaker == [state : {"closed", "open", "half_open"},
            failures : 0..(FailureThreshold + 1),
            window : 0..WindowMs,
            openAge : 0..OpenMs,
            inFlight : Nat,
            fresh : SUBSET Call]

TypeOK ==
    /\ breaker \in Breaker
    /\ pc \in [Call -> {"idle", "sent", "asleep"}]
    /\ retries \in [Call -> 0..MaxRetries]
    /\ healthy \in BOOLEAN

Lesser(a, b) == IF a < b THEN a ELSE b

-------------------------------------------------------------------------------
(* The breaker, as functions of its state b.                                  *)

Transition(b, to) == [b EXCEPT !.state = to, !.inFlight = 0, !.fresh = {}]

Open(b) == Transition([b EXCEPT !.openAge = 0], "open")

OneMore(n) == Lesser(n + 1, FailureThreshold + 1)

\* Mutated CountFailure: a window never ends.
CountFailureForEver(b) == [b EXCEPT !.failures = OneMore(@)]

\* A failure of a closed breaker starts a window or counts in the current one.
CountFailure(b) ==
    IF b.window = WindowMs THEN [b EXCEPT !.window = 0, !.failures = 1]
                           ELSE [b EXCEPT !.failures = OneMore(@)]

RecordClosedFailure(b) ==
    LET n == CountFailure(b)
    IN  IF n.failures >= FailureThreshold THEN Open(n) ELSE n

\* Mutated ReleaseProbe: an ignored result keeps its slot.
ReleaseProbeKeepsIgnored(b, outcome) ==
    CASE outcome = "success" ->
            Transition([b EXCEPT !.failures = 0, !.window = WindowMs], "closed")
      [] outcome = "failure" -> Open([b EXCEPT !.failures = OneMore(@)])
      [] outcome = "ignored" -> b

\* A probe's result; its slot is free again whatever it says.
ReleaseProbe(b, outcome) ==
    CASE outcome = "success" ->
            Transition([b EXCEPT !.failures = 0, !.window = WindowMs], "closed")
      [] outcome = "failure" -> Open([b EXCEPT !.failures = OneMore(@)])
      [] outcome = "ignored" -> [b EXCEPT !.inFlight = @ - 1]

\* Mutated Release: a closed breaker counts every failure, stale or not.
ReleaseCountsStale(b, c, outcome) ==
    LET freed == [b EXCEPT !.fresh = @ \ {c}]
    IN  IF b.state = "closed" /\ outcome = "failure" THEN RecordClosedFailure(freed)
        ELSE IF c \notin b.fresh THEN b
        ELSE IF b.state = "half_open" THEN ReleaseProbe(freed, outcome)
        ELSE freed

\* The release function of a slot.  The slot of a call outside fresh is stale.
Release(b, c, outcome) ==
    LET freed == [b EXCEPT !.fresh = @ \ {c}]
    IN  IF c \notin b.fresh THEN b
        ELSE IF b.state = "half_open" THEN ReleaseProbe(freed, outcome)
        ELSE IF outcome = "failure" THEN RecordClosedFailure(freed)
        ELSE freed

\* An open breaker whose time is up turns half open for the call that asks.
Settled(b) ==
    IF b.state = "open" /\ b.openAge = OpenMs THEN Transition(b, "half_open") ELSE b

\* Mutated Refuses: one probe too many.
RefusesOneLate(b) ==
    \/ Settled(b).state = "open"
    \/ Settled(b).state = "half_open" /\ Settled(b).inFlight > HalfOpenMaxCalls

Refuses(b) ==
    \/ Settled(b).state = "open"
    \/ Settled(b).state = "half_open" /\ Settled(b).inFlight >= HalfOpenMaxCalls

\* The slot tryAcquire hands to c.
Grant(b, c) ==
    LET s == Settled(b)
    IN  [s EXCEPT !.fresh = @ \cup {c},
                  !.inFlight = IF s.state = "half_open" THEN @ + 1 ELSE @]

-------------------------------------------------------------------------------
(* The completer.                                                             *)

Init ==
    /\ breaker = [state |-> "closed", failures |-> 0, window |-> WindowMs,
                  openAge |-> OpenMs, inFlight |-> 0, fresh |-> {}]
    /\ pc = [c \in Call |-> "idle"]
    /\ retries = [c \in Call |-> 0]
    /\ healthy \in BOOLEAN

EndCall(c, b) ==
    /\ breaker' = b
    /\ pc' = [pc EXCEPT ![c] = "idle"]
    /\ retries' = [retries EXCEPT ![c] = 0]

\* One pass of the loop from the breaker state b up to the next await, as the
\* n-th repetition: it ends, aborted by its caller or refused, or it is sent.
NextPass(c, b, n) ==
    \/ EndCall(c, b)
    \/ /\ ~Refuses(b)
       /\ breaker' = Grant(b, c)
       /\ pc' = [pc EXCEPT ![c] = "sent"]
       /\ retries' = [retries EXCEPT ![c] = n]

Start(c) ==
    /\ pc[c] = "idle"
    /\ NextPass(c, breaker, 0)
    /\ UNCHANGED healthy

\* The backoff is over, or an abort cut it short.
Wake(c) ==
    /\ pc[c] = "asleep"
    /\ NextPass(c, breaker, retries[c])
    /\ UNCHANGED healthy

\* What an attempt can come to: a reply, an upstream that is unreachable or
\* overloaded, one that times out or rejects the request, and anything it is
\* not to blame for (our key, the shape of the body, the caller's abort).
Results == {"ok", "overloaded", "timeout", "notUpstream"}

ReleaseOutcome(result) ==
    CASE result = "ok" -> "success"
      [] result \in {"overloaded", "timeout"} -> "failure"
      [] result = "notUpstream" -> "ignored"

Retriable(c, result) == result = "overloaded" /\ retries[c] < MaxRetries

\* An attempt ends: the slot is released first.  A failed call whose breaker is
\* open does not back off but takes its next pass at once.
Reply(c, result) ==
    /\ pc[c] = "sent"
    /\ result = "ok" => healthy
    /\ ReleaseOutcome(result) = "failure" => ~healthy
    /\ LET b == Release(breaker, c, ReleaseOutcome(result))
       IN  \/ /\ ~Retriable(c, result)
              /\ EndCall(c, b)
           \/ /\ Retriable(c, result)
              /\ b.state = "open"
              /\ NextPass(c, b, retries[c] + 1)
           \/ /\ Retriable(c, result)
              /\ b.state # "open"
              /\ breaker' = b
              /\ pc' = [pc EXCEPT ![c] = "asleep"]
              /\ retries' = [retries EXCEPT ![c] = @ + 1]
    /\ UNCHANGED healthy

Tick ==
    /\ breaker' = [breaker EXCEPT !.window = Lesser(@ + 1, WindowMs),
                                  !.openAge = Lesser(@ + 1, OpenMs)]
    /\ UNCHANGED <<pc, retries, healthy>>

\* The upstream goes down or comes back.
UpstreamChanges ==
    /\ healthy' = ~healthy
    /\ UNCHANGED <<breaker, pc, retries>>

Next ==
    \/ \E c \in Call : Start(c) \/ Wake(c) \/ \E result \in Results : Reply(c, result)
    \/ Tick
    \/ UpstreamChanges

Spec == Init /\ [][Next]_vars

\* Time passes and every attempt and backoff ends (both have timers).  The last
\* two are about callers, not about the code: planning is asked for again and
\* again, and a call that keeps asking is not aborted before every answer.
Fairness ==
    /\ WF_vars(Tick)
    /\ \A c \in Call : /\ WF_vars(\E result \in Results : Reply(c, result))
                       /\ WF_vars(Wake(c))
                       /\ WF_vars(Start(c))
                       /\ SF_vars(Reply(c, "ok"))

FairSpec == Spec /\ Fairness

-------------------------------------------------------------------------------
\* Calls whose request went out under the breaker's present state.
Outstanding == {c \in breaker.fresh : pc[c] = "sent"}

\* While the breaker is not closed the upstream is spared: nothing sent since it
\* opened is outstanding, and once half open at most HalfOpenMaxCalls probes are,
\* whatever the order in which older calls come back (probeAcquire, release).
ProbesBounded ==
    /\ breaker.state = "open" => Outstanding = {}
    /\ breaker.state = "half_open" => Cardinality(Outstanding) <= HalfOpenMaxCalls

\* No probe slot leaks: the counter that tryAcquire compares with the limit is
\* the number of probes in flight, across late, repeated and ignored releases.
NoSlotLeaks ==
    breaker.state = "half_open" => breaker.inFlight = Cardinality(Outstanding)

\* "A slot admitted before the last transition is stale": its result leaves the
\* breaker as it is.  The call itself may go on, as the probe of a breaker whose
\* time is up.
LateResultsHarmless ==
    [][\A c \in Call \ breaker.fresh :
          /\ pc[c] = "sent"
          /\ pc'[c] # "sent" \/ retries'[c] # retries[c]
          => breaker' \in {breaker, Grant(breaker, c)}]_vars

\* Once the upstream stays up, the breaker does not stay open or half open.
ClosesAgain == <>[]healthy => []<>(breaker.state = "closed")
===============================================================================
