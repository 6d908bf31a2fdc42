-------------------------- MODULE AllocationEngine --------------------------
(***************************************************************************)
(* recommendResource, the greedy choice of a resource for an incident, and *)
(* the re-optimization engine that judges the resource an incident has and *)
(* looks for another one.  Pure; the incident and the resources come from  *)
(* rows that the services read.                                            *)
(*                                                                         *)
(* A resource is known by the position of its id in the order of ids.  How *)
(* far it is from the incident is a given number, in hundredths of a       *)
(* kilometre, as the haversine function returns it; times are in           *)
(* hundredths of a minute.                                                 *)
(***************************************************************************)
EXTENDS Integers, Sequences

CONSTANT Nobody    \* no resource

ResourceTypes == {"AMBULANCE", "RESCUE_TEAM", "HELICOPTER", "OTHER"}
ResourceStatuses == {"AVAILABLE", "BUSY", "UNAVAILABLE", "MAINTENANCE", "FAILED"}

\* A candidate, as the services make it of a row.
Resource == [id : Nat, status : ResourceStatuses, type : ResourceTypes, capacity : Nat, distance : Nat]

ASSUME NobodyAssumption == Nobody \notin Resource

AccessConditions == {"NORMAL", "DIFFICULT", "BLOCKED"}
Triggers ==
    {"RESOURCE_FAILURE", "RESOURCE_UNAVAILABLE", "RESOURCE_MAINTENANCE",
     "ACCESS_CONDITION_CHANGE", "HIGHER_PRIORITY_INCIDENT", "CAPACITY_CHANGE"}

\* isTypeMatch: an incident without requirements takes any type.
TypeMatches(type, requirements) == requirements = {} \/ type \in requirements

\* Mutant: a resource one place short will do.
NearlyFeasible(c, incident) ==
    /\ c.status = "AVAILABLE"
    /\ TypeMatches(c.type, incident.requirements)
    /\ c.capacity + 1 >= incident.people

\* evaluateCandidate, the three rules.
Feasible(c, incident) ==
    /\ c.status = "AVAILABLE"
    /\ TypeMatches(c.type, incident.requirements)
    /\ c.capacity >= incident.people

\* The access condition divides the speed: ACCESS_CONDITION_ETA_MULTIPLIER is
\* 1, 1.5 or infinity; here in halves.
EtaHalves(access) == IF access = "DIFFICULT" THEN 3 ELSE 2

\* estimateEtaMinutes, for a positive speed: halves go up.
Eta(distance, speed, access) ==
    LET n == 60 * distance * EtaHalves(access)
    IN  (n + speed) \div (2 * speed)

\* Mutant: the fit before the time.
CompareFitFirst(a, b, speed, access) ==
    LET eta == Eta(a.distance, speed, access) - Eta(b.distance, speed, access)
        fit == a.capacity - b.capacity
    IN  IF speed <= 0 THEN 0
        ELSE IF fit # 0 THEN fit
        ELSE IF eta # 0 THEN eta
        ELSE a.id - b.id

\* The comparator of rankCandidates: less than zero when a goes before b.  A
\* speed of zero makes every ETA infinite and their difference NaN, which
\* sort takes for zero: then nothing goes before anything.
Compare(a, b, speed, access) ==
    LET eta == Eta(a.distance, speed, access) - Eta(b.distance, speed, access)
        fit == a.capacity - b.capacity
    IN  IF speed <= 0 THEN 0
        ELSE IF eta # 0 THEN eta
        ELSE IF fit # 0 THEN fit
        ELSE a.id - b.id

\* The resource at one of the positions that sort puts first: of those the
\* comparator does not tell apart, the first that the query listed.
FirstRanked(list, positions, speed, access) ==
    LET compare(k, j) == Compare(list[k], list[j], speed, access)
    IN  IF positions = {} THEN Nobody
        ELSE list[CHOOSE k \in positions : \A j \in positions :
                      compare(k, j) < 0 \/ (compare(k, j) = 0 /\ k <= j)]

\* recommendResource: the first of the feasible candidates.
Recommended(list, incident, speed, access) ==
    FirstRanked(list, {k \in DOMAIN list : Feasible(list[k], incident)}, speed, access)

\* What createAssignment asks of the resource it is given, in its own words;
\* the transaction of a re-optimization asks the same of the replacement.
Assignable(c, incident) ==
    /\ c.status = "AVAILABLE"
    /\ incident.requirements # {} => c.type \in incident.requirements
    /\ ~(c.capacity < incident.people)

\* Mutant: the last place of the resource is not counted.
FitsLoosely(c, incident) ==
    /\ c.status \notin {"FAILED", "MAINTENANCE", "UNAVAILABLE"}
    /\ c.capacity > incident.people
    /\ TypeMatches(c.type, incident.requirements)

\* assessCurrentAssignment.  The service passes isAssignedToThisIncident for
\* every BUSY resource, so that BUSY alone never makes one infeasible.
StillFits(c, incident) ==
    /\ c.status \notin {"FAILED", "MAINTENANCE", "UNAVAILABLE"}
    /\ c.capacity >= incident.people
    /\ TypeMatches(c.type, incident.requirements)

\* findReplacementResource, among all but the current resource: nobody can
\* come if the access is blocked.
Replacement(list, current, incident, speed, access) ==
    IF access = "BLOCKED" THEN Nobody
    ELSE FirstRanked(list, {k \in DOMAIN list : /\ list[k].id # current.id
                                                /\ Feasible(list[k], incident)}, speed, access)

\* The decision of reoptimizeAssignment: the resource to serve the incident
\* from now on, the current one if nothing is to be replaced.  The access
\* condition counts for its own trigger only, and preemption is never allowed.
Decision(list, current, incident, speed, trigger, access) ==
    LET effective == IF trigger = "ACCESS_CONDITION_CHANGE" THEN access ELSE "NORMAL"
        keeps == \/ trigger = "HIGHER_PRIORITY_INCIDENT"
                 \/ StillFits(current, incident) /\ effective # "BLOCKED"
        other == Replacement(list, current, incident, speed, effective)
    IN  IF keeps \/ other = Nobody THEN current ELSE other

=============================================================================
