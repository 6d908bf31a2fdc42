----------------------------- MODULE MCRecords -----------------------------
(* The services that keep records outside the dispatch core, for TLC: a      *)
(* behaviour is about one of them, and the others rest.                      *)
EXTENDS PriorityScore, CachedRegistry, HospitalBeds

VARIABLE service

Init ==
    /\ service \in {"priority", "registry", "beds"}
    /\ PSInit
    /\ CRInit /\ (service # "registry" => registry = "resource")
    /\ HBInit /\ (service # "beds" => \A p \in Pools : beds[p] = [capacity |-> 1, available |-> 1])

Next ==
    \/ service = "priority" /\ PSNext /\ UNCHANGED <<service, crVars, hbVars>>
    \/ service = "registry" /\ CRNext /\ UNCHANGED <<service, psVars, hbVars>>
    \/ service = "beds" /\ HBNext /\ UNCHANGED <<service, psVars, crVars>>

Spec == Init /\ [][Next]_<<service, psVars, crVars, hbVars>> /\ PSFairness /\ CRFairness

\* Each service keeps its types.
RecordsTypeOK == PSTypeOK /\ CRTypeOK /\ HBTypeOK

=============================================================================
