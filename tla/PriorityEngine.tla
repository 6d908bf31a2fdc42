--------------------------- MODULE PriorityEngine ---------------------------
(***************************************************************************)
(* calculatePriority: the weighted score of an incident report.  Pure      *)
(* arithmetic, in integers: the weights are hundredths, so a score is in   *)
(* hundredths of a point.                                                  *)
(*                                                                         *)
(* The environmental condition is free text, of which only one thing       *)
(* counts: the risk levels whose keywords occur in it.                     *)
(***************************************************************************)
EXTENDS Integers, Sequences, FiniteSets

Levels == {"LOW", "MEDIUM", "HIGH", "CRITICAL"}

\* SEVERITY_SCORES, TIME_SENSITIVITY_SCORES and RISK_SCORES are one table.
LevelScore == [LOW |-> 25, MEDIUM |-> 50, HIGH |-> 75, CRITICAL |-> 100]

\* Math.round of n / d: halves go up.
RoundedQuotient(n, d) == (2 * n + d) \div (2 * d)

AtMost(bound, n) == IF n > bound THEN bound ELSE n

\* Mutant: the second piece of the scale starts below the end of the first.
PopulationWithStep(count) ==
    IF count <= 0 THEN 0
    ELSE IF count <= 10 THEN 5 + 2 * count
    ELSE IF count <= 50 THEN 20 + RoundedQuotient(7 * (count - 10), 8)
    ELSE IF count <= 100 THEN 60 + RoundedQuotient(count - 50, 2)
    ELSE IF count <= 200 THEN 85 + RoundedQuotient(3 * (count - 100), 20)
    ELSE 100

\* normalizePopulation, rounded: linear in pieces, 100 from 200 people on.
PopulationScore(count) ==
    IF count <= 0 THEN 0
    ELSE IF count <= 10 THEN 5 + 2 * count
    ELSE IF count <= 50 THEN 25 + RoundedQuotient(7 * (count - 10), 8)
    ELSE IF count <= 100 THEN 60 + RoundedQuotient(count - 50, 2)
    ELSE IF count <= 200 THEN 85 + RoundedQuotient(3 * (count - 100), 20)
    ELSE 100

\* classifyEnvironmentalRisk: the gravest level of which a keyword occurs; a
\* text without any, or no text, is MEDIUM.
Risk(signs) ==
    IF "CRITICAL" \in signs THEN "CRITICAL"
    ELSE IF "HIGH" \in signs THEN "HIGH"
    ELSE IF "MEDIUM" \in signs THEN "MEDIUM"
    ELSE IF "LOW" \in signs THEN "LOW"
    ELSE "MEDIUM"

\* RESOURCE_URGENCY; what is not in the table counts as OTHER.
ResourceUrgency(type) ==
    CASE type \in {"HELICOPTER", "HAZMAT_UNIT"} -> 100
      [] type = "RESCUE_TEAM"     -> 85
      [] type = "FIRE_TRUCK"      -> 80
      [] type = "MEDICAL_SUPPORT" -> 70
      [] type = "AMBULANCE"       -> 60
      [] OTHER                    -> 40

\* countMultiplier, in hundredths: the cap is reached with six requirements.
CountMultiplier(n) == AtMost(125, 100 + 5 * (n - 1))

\* The requirements of one urgency.
Urgent(requirements, u) == {k \in DOMAIN requirements : ResourceUrgency(requirements[k]) = u}

\* The sum of the urgencies of the requirements, value by value.
TotalUrgency(requirements) ==
    LET times(u) == Cardinality(Urgent(requirements, u))
    IN  100 * times(100) + 85 * times(85) + 80 * times(80)
          + 70 * times(70) + 60 * times(60) + 40 * times(40)

\* Mutant: the boosted average is not cut at 100.
RequirementsUncapped(requirements) ==
    LET n == Len(requirements)
        total == TotalUrgency(requirements)
    IN  IF n = 0 THEN 10 ELSE RoundedQuotient(total * CountMultiplier(n), 100 * n)

\* scoreResourceRequirements: the average urgency, boosted by the number of
\* requirements.  One tie is lost to binary fractions: 50 * 1.15 is just below
\* 57.5 and goes down.
RequirementsScore(requirements) ==
    LET n == Len(requirements)
        total == TotalUrgency(requirements)
    IN  IF n = 0 THEN 10
        ELSE IF n = 4 /\ total = 200 THEN 57
        ELSE AtMost(100, RoundedQuotient(total * CountMultiplier(n), 100 * n))

\* The weighted sum of the five normalized scores.
Weighted(severity, time, population, risk, requirements) ==
    30 * severity + 25 * time + 20 * population + 15 * risk + 10 * requirements

\* calculatePriority
PriorityScore(report) ==
    LET score == Weighted(LevelScore[report.severity], LevelScore[report.timeSensitivity],
                          PopulationScore(report.affectedPeople), LevelScore[Risk(report.signs)],
                          RequirementsScore(report.requirements))
    IN  AtMost(10000, IF score < 0 THEN 0 ELSE score)

=============================================================================
