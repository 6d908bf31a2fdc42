----------------------------- MODULE MCEngines -----------------------------
(* The engines for TLC: an incident report and a fleet, whose fields staff   *)
(* edit one at a time, and what the engines say of each.                    *)
EXTENDS PriorityEngine, AllocationEngine, SequencesExt

CONSTANTS
    People,          \* numbers of affected people, the ends of every piece of the scale
    FleetSize,       \* number of resources
    Capacities,
    Distances,
    Speeds           \* RESOURCE_AVERAGE_SPEED_KMH

ASSUME EnginesAssumption ==
    /\ FleetSize \in Nat
    /\ People \subseteq Nat /\ 0 \in People
    /\ Capacities \subseteq Nat /\ Capacities # {}
    /\ Distances \subseteq Nat
    /\ Speeds \subseteq Nat

\* Resources, by the order of their ids.
Fleet == 1 .. FleetSize

VARIABLES
    part,       \* which of the two engines this behaviour is about
    report,     \* an incident as calculatePriority sees it
    incident,   \* an incident as recommendResource sees it
    fleet,      \* the resources table
    listed      \* the order in which the query returned the resources

vars == <<part, report, incident, fleet, listed>>

ReportedSigns == {{}, {"LOW"}, {"MEDIUM"}, {"HIGH"}, {"CRITICAL"}, {"LOW", "HIGH"}, {"MEDIUM", "CRITICAL"}}

\* Lists of one to seven requirements, mild and grave.
ReportedRequirements ==
    {<<>>, <<"OTHER">>, <<"AMBULANCE", "FIRE_TRUCK">>, <<"OTHER", "OTHER", "OTHER", "HELICOPTER">>,
     <<"AMBULANCE", "OTHER", "AMBULANCE", "OTHER">>, [k \in 1 .. 7 |-> "HELICOPTER"]}

Report ==
    [severity : Levels, timeSensitivity : Levels, affectedPeople : People,
     signs : ReportedSigns, requirements : ReportedRequirements]

Incident == [people : Capacities, requirements : {{}, {"AMBULANCE"}}]

Candidate ==
    [status : {"AVAILABLE", "BUSY", "FAILED"}, type : {"AMBULANCE", "RESCUE_TEAM"},
     capacity : Capacities, distance : Distances]

Init ==
    /\ part \in {"priority", "allocation"}
    /\ report = [severity |-> "LOW", timeSensitivity |-> "LOW", affectedPeople |-> 0,
                 signs |-> {}, requirements |-> <<>>]
    /\ incident = [people |-> CHOOSE n \in Capacities : \A m \in Capacities : n <= m,
                   requirements |-> {}]
    /\ fleet \in {f \in [Fleet -> Candidate] : \A x \in Fleet :
                      f[x].status = "BUSY" /\ f[x].type = "AMBULANCE"
                        /\ \A n \in Capacities : n <= f[x].capacity
                        /\ \A d \in Distances : f[x].distance <= d}
    /\ listed = "by id"

EditReport ==
    /\ part = "priority"
    /\ \/ \E level \in Levels :
             \/ report' = [report EXCEPT !.severity = level]
             \/ report' = [report EXCEPT !.timeSensitivity = level]
       \/ \E count \in People : report' = [report EXCEPT !.affectedPeople = count]
       \/ \E signs \in ReportedSigns : report' = [report EXCEPT !.signs = signs]
       \/ \E list \in ReportedRequirements : report' = [report EXCEPT !.requirements = list]
    /\ UNCHANGED <<part, incident, fleet, listed>>

EditFleet ==
    /\ part = "allocation"
    /\ \/ \E x \in Fleet, c \in Candidate :
             fleet' = [fleet EXCEPT ![x] = c] /\ UNCHANGED <<incident, listed>>
       \/ \E i \in Incident : incident' = i /\ UNCHANGED <<fleet, listed>>
       \/ listed' = "by id, reversed" /\ UNCHANGED <<fleet, incident>>
    /\ UNCHANGED <<part, report>>

Next == EditReport \/ EditFleet

Spec == Init /\ [][Next]_vars

-----------------------------------------------------------------------------
(* Properties *)

\* No report scores below 18.5 nor above 100: the clamp of calculatePriority
\* never hides a factor that has left its range.
ScoreInRange ==
    LET score == PriorityScore(report)
    IN  /\ score = Weighted(LevelScore[report.severity], LevelScore[report.timeSensitivity],
                            PopulationScore(report.affectedPeople), LevelScore[Risk(report.signs)],
                            RequirementsScore(report.requirements))
        /\ 1850 <= score /\ score <= 10000

Rank(level) == LevelScore[level] \div 25

Worse(new, old) ==
    /\ Rank(new.severity) >= Rank(old.severity)
    /\ Rank(new.timeSensitivity) >= Rank(old.timeSensitivity)
    /\ new.affectedPeople >= old.affectedPeople
    /\ \/ new.signs = old.signs
       \/ old.signs # {} /\ old.signs \subseteq new.signs
    /\ new.requirements = old.requirements

\* News that can only make an incident worse (graver, more urgent, more
\* people, one more danger in the text) never lowers its score, across all
\* the pieces and roundings of the scales.
WorseNeverScoresLess ==
    [][Worse(report', report) => PriorityScore(report)' >= PriorityScore(report)]_report

\* The rows as the query lists them.
Row(x) == [id |-> x, status |-> fleet[x].status, type |-> fleet[x].type,
           capacity |-> fleet[x].capacity, distance |-> fleet[x].distance]
List == LET byId == [x \in Fleet |-> Row(x)]
        IN  IF listed = "by id" THEN byId ELSE Reverse(byId)

\* Whatever the order of the rows, the recommended resource is feasible, and at
\* a positive speed each feasible one is farther, or takes the same rounded time
\* and fits no better; nobody is recommended if and only if nobody is feasible.
\* Of one that is farther but takes the same rounded time nothing is said.
RecommendsTheBest ==
    \A speed \in Speeds, access \in {"NORMAL", "DIFFICULT"} :
        LET best == Recommended(List, incident, speed, access)
            good == {c \in Range(List) : Feasible(c, incident)}
        IN  /\ (best = Nobody) <=> (good = {})
            /\ best # Nobody =>
                  /\ best \in good
                  /\ speed > 0 => \A c \in good :
                        \/ c.distance > best.distance
                        \/ /\ Eta(c.distance, speed, access) = Eta(best.distance, speed, access)
                           /\ \/ c.capacity > best.capacity
                              \/ c.capacity = best.capacity /\ c.id >= best.id

\* The three places that judge a resource agree: what the engine recommends
\* createAssignment accepts, once BUSY with it the re-optimization finds it
\* feasible, and if it recommends nobody there is nobody to assign.
RulesAgree ==
    LET best == Recommended(List, incident, 60, "NORMAL")
    IN  IF best = Nobody
        THEN \A c \in Range(List) : ~Assignable(c, incident)
        ELSE Assignable(best, incident) /\ StillFits([best EXCEPT !.status = "BUSY"], incident)

\* A re-optimization settles: run again for the same reason, with the
\* replacement BUSY, it keeps what it chose; and it never gives up a resource
\* for one that serves the incident no better.
ReplacementSettles ==
    \A x \in Fleet, trigger \in Triggers, access \in AccessConditions :
        LET current == Row(x)
            next == Decision(List, current, incident, 60, trigger, access)
            busy == [next EXCEPT !.status = "BUSY"]
            again == Decision([k \in DOMAIN List |-> IF List[k].id = next.id THEN busy ELSE List[k]],
                              busy, incident, 60, trigger, access)
        IN  next # current => ~StillFits(current, incident) /\ again = busy

=============================================================================
