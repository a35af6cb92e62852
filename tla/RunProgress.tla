------------------------------ MODULE RunProgress ------------------------------
(***************************************************************************)
(* What the run worker promises about a run's phases, whoever works on it:  *)
(* each phase is recorded once, by one attempt, after all earlier phases,   *)
(* and a record is never taken back.                                        *)
(***************************************************************************)
EXTENDS Naturals, FiniteSets

CONSTANTS Run, NumPhases

VARIABLE log    \* log[r]: the recorded <<phase, attempt>> of run r

Init == log = [r \in Run |-> {}]

Record(r) ==
    /\ Cardinality(log[r]) < NumPhases
    /\ \E row \in log'[r] :
          /\ row[1] = Cardinality(log[r]) + 1
          /\ log' = [log EXCEPT ![r] = @ \cup {row}]

Next == \E r \in Run : Record(r)

Spec == Init /\ [][Next]_log
===============================================================================
