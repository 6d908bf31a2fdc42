---------------------------- MODULE MCSafeguards ----------------------------
(* What guards a process against its dependencies, its clients and its own   *)
(* end, for TLC: a behaviour is about one safeguard, and the others rest.    *)
EXTENDS CircuitBreaker, RateLimit, Attempts, Shutdown, Accounts

VARIABLE safeguard

Init ==
    /\ safeguard \in {"breaker", "limiter", "attempts", "shutdown", "accounts"}
    /\ CBInit
    /\ RLInit
    /\ ATInit /\ (timed => safeguard = "attempts")
    /\ SDInit /\ (safeguard # "shutdown" => entry = "server" /\ taking)
    /\ ACInit

Next ==
    \/ safeguard = "breaker" /\ CBNext /\ UNCHANGED <<safeguard, rlVars, atVars, sdVars, acVars>>
    \/ safeguard = "limiter" /\ RLNext /\ UNCHANGED <<safeguard, cbVars, atVars, sdVars, acVars>>
    \/ safeguard = "attempts" /\ ATNext /\ UNCHANGED <<safeguard, cbVars, rlVars, sdVars, acVars>>
    \/ safeguard = "shutdown" /\ SDNext /\ UNCHANGED <<safeguard, cbVars, rlVars, atVars, acVars>>
    \/ safeguard = "accounts" /\ ACNext /\ UNCHANGED <<safeguard, cbVars, rlVars, atVars, sdVars>>

\* The fairness of each safeguard is asked of the behaviours about it.
Fairness ==
    /\ safeguard = "breaker" => CBFairness
    /\ safeguard = "accounts" => ACFairness

Spec == Init /\ [][Next]_<<safeguard, cbVars, rlVars, atVars, sdVars, acVars>> /\ Fairness

\* Each safeguard keeps its types.
SafeguardsTypeOK == CBTypeOK /\ RLTypeOK /\ ATTypeOK /\ SDTypeOK /\ ACTypeOK

=============================================================================
