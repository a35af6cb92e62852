---------------------------- MODULE MCCircuitBreaker ----------------------------
(***************************************************************************)
(* CircuitBreaker with a history of the failures that counted since the       *)
(* breaker last closed: the ages of the last FailureThreshold of them, oldest *)
(* first, stopped at a window.                                               *)
(***************************************************************************)
EXTENDS CircuitBreaker, Sequences

VARIABLE history

Older(ages) == [i \in DOMAIN ages |-> Lesser(ages[i] + 1, WindowMs)]

Newest(ages) == IF Len(ages) > FailureThreshold THEN Tail(ages) ELSE ages

\* A failure that counts: of a call admitted in the present closed period.
Counts(c, result) ==
    /\ ReleaseOutcome(result) = "failure"
    /\ c \in breaker.fresh
    /\ breaker.state = "closed"

HistoryAfter(c, result) ==
    IF breaker.state # "closed" /\ breaker'.state = "closed" THEN <<>>
    ELSE IF Counts(c, result) THEN Newest(Append(history, 0))
    ELSE history

MCInit == Init /\ history = <<>>

MCNext ==
    \/ \E c \in Call, result \in Results :
          Reply(c, result) /\ history' = HistoryAfter(c, result)
    \/ \E c \in Call : (Start(c) \/ Wake(c)) /\ UNCHANGED history
    \/ Tick /\ history' = Older(history)
    \/ UpstreamChanges /\ UNCHANGED history

MCSpec == MCInit /\ [][MCNext]_<<vars, history>> /\ Fairness

\* The breaker is cut only if the last FailureThreshold failures are younger than one
\* window, none of them of a call from before it last closed (recordClosedFailure).
OpensOnRecentFailures ==
    [][breaker.state = "closed" /\ breaker'.state = "open" =>
          /\ Len(history') = FailureThreshold
          /\ \A i \in DOMAIN history' : history'[i] < WindowMs]_<<vars, history>>
===============================================================================
