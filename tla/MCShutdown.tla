------------------------------ MODULE MCShutdown ------------------------------
(***************************************************************************)
(* What the end of the server's process runs through, for TLC: the queues of  *)
(* the audit streams, flushed and closed (AuditStreams), and the shutdown over *)
(* the planner's jobs that flushes them (ConnectorLifecycle).  The two are    *)
(* checked side by side: one moves while the other is at its start.           *)
(***************************************************************************)
EXTENDS AuditStreams, ConnectorLifecycle

MCSession == {"c1", "o1"}
MCClassOf == [s \in MCSession |-> IF s = "c1" THEN "connector" ELSE "owner"]
MCPrincipalOf == [s \in MCSession |-> IF s = "c1" THEN "app" ELSE "owner"]

MCInit == Init /\ LifeInit
MCNext ==
    \/ LifeInit /\ Next /\ UNCHANGED lifeVars
    \/ Init /\ LifeNext /\ UNCHANGED vars

MCSpec == MCInit /\ [][MCNext]_<<vars, lifeVars>> /\ Fairness /\ LifeFairness
===============================================================================
