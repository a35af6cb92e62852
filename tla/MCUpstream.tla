------------------------------ MODULE MCUpstream ------------------------------
(***************************************************************************)
(* What bounds the server's work, for TLC, side by side (one moves while the  *)
(* other is at its start): the circuit breaker of the upstream (with the      *)
(* history of MCCircuitBreaker), and the admission of requests: two of the    *)
(* owner, one with the connector key, and four with bearer tokens, three of   *)
(* them the same token.                                                     *)
(***************************************************************************)
EXTENDS MCCircuitBreaker, HttpAdmission

Requests ==
    << <<"owner", "owner">>, <<"owner", "owner">>, <<"connector", "key">>,
       <<"bearer", "token1">>, <<"bearer", "token1">>, <<"bearer", "token1">>,
       <<"bearer", "token2">> >>

MCRequest == DOMAIN Requests
MCClassOf == [r \in MCRequest |-> Requests[r][1]]
MCPrincipalOf == [r \in MCRequest |-> Requests[r][2]]

breakerVars == <<vars, history>>

UpstreamInit == MCInit /\ AdmissionInit
UpstreamNext ==
    \/ AdmissionInit /\ MCNext /\ UNCHANGED admissionVars
    \/ MCInit /\ AdmissionNext /\ UNCHANGED breakerVars

(* Calls are fair to start from the breaker's first state on: not while it    *)
(* has to stay there.                                                        *)
UpstreamSpec ==
    /\ UpstreamInit /\ [][UpstreamNext]_<<breakerVars, admissionVars>>
    /\ Fairness \/ <>[]~AdmissionInit
    /\ AdmissionFairness
===============================================================================
