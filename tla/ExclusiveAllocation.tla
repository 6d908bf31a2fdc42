------------------------- MODULE ExclusiveAllocation -------------------------
(***************************************************************************)
(* What the dispatch core promises about who serves whom, with nothing     *)
(* said of how: at any moment a resource serves at most one incident and   *)
(* an incident is served by at most one resource, and a replacement takes  *)
(* the incident from one resource to the next in a single step.            *)
(***************************************************************************)
CONSTANTS Incidents, Resources

VARIABLE serving      \* the <<incident, resource>> pairs in force

Free(i) == \A q \in Resources : <<i, q>> \notin serving
Unused(r) == \A j \in Incidents : <<j, r>> \notin serving

Init == serving = {}

\* A free incident gets an unused resource.
Assign(i, r) ==
    /\ Free(i)
    /\ Unused(r)
    /\ serving' = serving \union {<<i, r>>}

\* The pair ends: the mission was completed or called off.
Release(i, r) ==
    /\ <<i, r>> \in serving
    /\ serving' = serving \ {<<i, r>>}

\* Another, unused resource takes over. The incident is never left without one.
Replace(i, r, q) ==
    /\ <<i, r>> \in serving
    /\ Unused(q)
    /\ serving' = (serving \ {<<i, r>>}) \union {<<i, q>>}

Next ==
    \E i \in Incidents, r \in Resources :
        \/ Assign(i, r)
        \/ Release(i, r)
        \/ \E q \in Resources : Replace(i, r, q)

Spec == Init /\ [][Next]_serving

=============================================================================
