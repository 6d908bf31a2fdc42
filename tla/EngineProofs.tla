---------------------------- MODULE EngineProofs ----------------------------
(***************************************************************************)
(* Proofs about the engines: what MCEngines checks of one small fleet and  *)
(* of some reports holds for every fleet, number of people, capacity,      *)
(* distance and speed.  The behaviours are single edits, so the invariant  *)
(* is only that the rows have their types (Sane); all the rest is about    *)
(* the operators: the pieces of the population scale meet, the urgencies   *)
(* add up to 40 at least for each requirement, quotients that round grow,  *)
(* and the comparator of the ranking, a lexicographic order of time, fit   *)
(* and id, has a first position in every list.                             *)
(***************************************************************************)
EXTENDS MCEngines, FiniteSetTheorems, NaturalsInduction, WellFoundedInduction,
        SequenceTheorems, TLAPS

\* What a quotient of natural numbers is.
LEMMA Quotient ==
  ASSUME NEW a \in Nat, NEW b \in Nat \ {0}
  PROVE  /\ a \div b \in Nat
         /\ b * (a \div b) <= a
         /\ a < b * (a \div b) + b
  OBVIOUS

\* A product grows with its factors.
LEMMA Times ==
  ASSUME NEW a \in Nat, NEW b \in Nat, NEW c \in Nat, a <= b
  PROVE  c * a <= c * b /\ c * a \in Nat /\ c * b \in Nat
  OBVIOUS

\* A larger number has no smaller quotient.
LEMMA QuotientGrows ==
  ASSUME NEW a \in Nat, NEW c \in Nat, NEW b \in Nat \ {0}, a <= c
  PROVE  a \div b <= c \div b
<1>1. PICK p \in Nat, q \in Nat : p = a \div b /\ q = c \div b
  BY Quotient
<1>2. b * p <= a /\ c < b * q + b
  BY <1>1, Quotient
<1>3. b * p < b * (q + 1)
  BY <1>2
<1>4. ~(q + 1 <= p)
  BY <1>3, Times
<1> QED  BY <1>1, <1>4

\* A set of natural numbers that is not empty has a least one.
LEMMA LeastNatural ==
  ASSUME NEW S \in SUBSET Nat, S # {}
  PROVE  \E n \in S : \A m \in S : n <= m
<1>1. PICK n \in S : \A m \in S : ~(<<m, n>> \in OpToRel(<, Nat))
  BY NatLessThanWellFounded, WFMin
<1>2. ASSUME NEW m \in S  PROVE n <= m
  <2>1. ~(m < n)
    BY <1>1 DEF OpToRel
  <2> QED  BY <2>1
<1> QED  BY <1>2

-----------------------------------------------------------------------------
(* The priority score *)

\* The population score is between 0 and 100, and does not fall with more
\* people, from one piece of the scale to the next.
LEMMA PopulationGrows ==
  ASSUME NEW m \in Int, NEW n \in Int, m <= n
  PROVE  /\ PopulationScore(m) \in 0 .. 100
         /\ PopulationScore(m) <= PopulationScore(n)
<1> DEFINE second(k) == (2 * (7 * (k - 10)) + 8) \div (2 * 8)
           third(k) == (2 * (k - 50) + 2) \div (2 * 2)
           fourth(k) == (2 * (3 * (k - 100)) + 20) \div (2 * 20)
\* The value on each piece.
<1>1. \A k \in Int :
         /\ k <= 0 => PopulationScore(k) = 0
         /\ 0 < k /\ k <= 10 => PopulationScore(k) = 5 + 2 * k
         /\ 10 < k /\ k <= 50 => PopulationScore(k) = 25 + second(k)
         /\ 50 < k /\ k <= 100 => PopulationScore(k) = 60 + third(k)
         /\ 100 < k /\ k <= 200 => PopulationScore(k) = 85 + fourth(k)
         /\ 200 < k => PopulationScore(k) = 100
  BY DEF PopulationScore, RoundedQuotient
\* Where each piece begins and ends.
<1>2. \A k \in Int :
         /\ 10 < k /\ k <= 50 => second(k) \in 1 .. 35
         /\ 50 < k /\ k <= 100 => third(k) \in 1 .. 25
         /\ 100 < k /\ k <= 200 => fourth(k) \in 0 .. 15
  OBVIOUS
\* No piece falls.
<1>3. \A j, k \in Int : j <= k =>
         /\ second(j) <= second(k)
         /\ third(j) <= third(k)
         /\ fourth(j) <= fourth(k)
  OBVIOUS
<1> HIDE DEF second, third, fourth
<1>4. \A k \in Int :
         \/ k <= 0
         \/ 0 < k /\ k <= 10 /\ PopulationScore(k) \in 7 .. 25
         \/ 10 < k /\ k <= 50 /\ PopulationScore(k) \in 26 .. 60
         \/ 50 < k /\ k <= 100 /\ PopulationScore(k) \in 61 .. 85
         \/ 100 < k /\ k <= 200 /\ PopulationScore(k) \in 85 .. 100
         \/ 200 < k
  BY <1>1, <1>2
<1>5. \A k \in Int : PopulationScore(k) \in 0 .. 100
  BY <1>1, <1>4
<1>6. PopulationScore(m) <= PopulationScore(n)
  <2>1. PopulationScore(m) \in 0 .. 100 /\ PopulationScore(n) \in 0 .. 100
    BY <1>5
  <2>2. CASE m <= 0 \/ 200 < n
    BY <1>1, <2>1, <2>2
  <2>3. CASE 0 < m /\ m <= 10 /\ n <= 200
    BY <1>1, <1>4, <2>1, <2>3
  <2>4. CASE 10 < m /\ m <= 50 /\ n <= 200
    <3>1. second(m) \in Int /\ second(n) \in Int /\ second(m) <= second(n)
      BY <1>3 DEF second
    <3> QED  BY <1>1, <1>4, <2>1, <2>4, <3>1
  <2>5. CASE 50 < m /\ m <= 100 /\ n <= 200
    <3>1. third(m) \in Int /\ third(n) \in Int /\ third(m) <= third(n)
      BY <1>3 DEF third
    <3> QED  BY <1>1, <1>4, <2>1, <2>5, <3>1
  <2>6. CASE 100 < m /\ n <= 200
    <3>1. fourth(m) \in Int /\ fourth(n) \in Int /\ fourth(m) <= fourth(n)
      BY <1>3 DEF fourth
    <3> QED  BY <1>1, <1>4, <2>1, <2>6, <3>1
  <2> QED  BY <2>2, <2>3, <2>4, <2>5, <2>6
<1> QED  BY <1>5, <1>6

\* More danger in the text, where there was some, is no smaller risk.
LEMMA RiskGrows ==
  ASSUME NEW old \in SUBSET Levels, NEW new \in SUBSET Levels,
         new = old \/ (old # {} /\ old \subseteq new)
  PROVE  /\ LevelScore[Risk(old)] \in 25 .. 100
         /\ LevelScore[Risk(old)] <= LevelScore[Risk(new)]
<1> DEFINE value(signs) == IF "CRITICAL" \in signs THEN 100
                           ELSE IF "HIGH" \in signs THEN 75
                           ELSE IF "MEDIUM" \in signs THEN 50
                           ELSE IF "LOW" \in signs THEN 25 ELSE 50
<1>1. /\ LevelScore["LOW"] = 25 /\ LevelScore["MEDIUM"] = 50
      /\ LevelScore["HIGH"] = 75 /\ LevelScore["CRITICAL"] = 100
  BY DEF LevelScore
<1>2. \A signs : LevelScore[Risk(signs)] = value(signs)
  BY <1>1 DEF Risk
<1>3. value(old) \in 25 .. 100
  OBVIOUS
<1>4. value(old) <= value(new)
  <2>1. CASE new = old
    BY <1>3, <2>1
  <2>2. CASE old # {} /\ old \subseteq new
    <3>1. \/ "LOW" \in old \/ "MEDIUM" \in old \/ "HIGH" \in old \/ "CRITICAL" \in old
      BY <2>2 DEF Levels
    <3> QED  BY <2>2, <3>1
  <2> QED  BY <2>1, <2>2
<1> QED  BY <1>2, <1>3, <1>4

\* The urgencies add up to 40 at least for each requirement, and to 100 at most.
LEMMA UrgencyPerRequirement ==
  ASSUME NEW Text, NEW requirements \in Seq(Text)
  PROVE  /\ Len(requirements) \in Nat
         /\ TotalUrgency(requirements) \in Nat
         /\ 40 * Len(requirements) <= TotalUrgency(requirements)
<1> DEFINE all == DOMAIN requirements
           upTo40 == Urgent(requirements, 40)
           upTo60 == upTo40 \cup Urgent(requirements, 60)
           upTo70 == upTo60 \cup Urgent(requirements, 70)
           upTo80 == upTo70 \cup Urgent(requirements, 80)
           upTo85 == upTo80 \cup Urgent(requirements, 85)
<1>1. Len(requirements) \in Nat /\ all = 1 .. Len(requirements)
  OBVIOUS
<1>2. IsFiniteSet(all) /\ Cardinality(all) = Len(requirements)
  BY <1>1, FS_Interval
<1>3. \A u : IsFiniteSet(Urgent(requirements, u)) /\ Cardinality(Urgent(requirements, u)) \in Nat
  <2> SUFFICES ASSUME NEW u
               PROVE  IsFiniteSet(Urgent(requirements, u)) /\ Cardinality(Urgent(requirements, u)) \in Nat
    OBVIOUS
  <2>1. Urgent(requirements, u) \subseteq all
    BY DEF Urgent
  <2> QED  BY <1>2, <2>1, FS_Subset, FS_CardinalityType
<1>4. ASSUME NEW S, NEW u, IsFiniteSet(S), S \cap Urgent(requirements, u) = {}
      PROVE  /\ IsFiniteSet(S \cup Urgent(requirements, u))
             /\ Cardinality(S \cup Urgent(requirements, u))
                  = Cardinality(S) + Cardinality(Urgent(requirements, u))
  <2>1. Cardinality({}) = 0 /\ Cardinality(S) \in Nat /\ Cardinality(Urgent(requirements, u)) \in Nat
    BY <1>3, <1>4, FS_EmptySet, FS_CardinalityType
  <2>2. PICK T : T = Urgent(requirements, u)
    OBVIOUS
  <2>3. IsFiniteSet(S \cup T) /\ Cardinality(S \cup T) = Cardinality(S) + Cardinality(T) - Cardinality(S \cap T)
    BY <1>3, <1>4, <2>2, FS_Union
  <2>4. Cardinality(S \cap T) = 0
    BY <1>4, <2>1, <2>2
  <2> QED  BY <2>1, <2>2, <2>3, <2>4
<1>5. \A u, v : u # v => Urgent(requirements, u) \cap Urgent(requirements, v) = {}
  BY DEF Urgent
<1>6. all = upTo85 \cup Urgent(requirements, 100)
  <2>1. \A type : ResourceUrgency(type) \in {40, 60, 70, 80, 85, 100}
    BY DEF ResourceUrgency
  <2>2. ASSUME NEW k \in all  PROVE k \in upTo85 \cup Urgent(requirements, 100)
    <3>1. ResourceUrgency(requirements[k]) \in {40, 60, 70, 80, 85, 100}
      BY <2>1
    <3> QED  BY <3>1 DEF Urgent
  <2>3. upTo85 \cup Urgent(requirements, 100) \subseteq all
    BY DEF Urgent
  <2> QED  BY <2>2, <2>3
<1>7. Len(requirements)
        = Cardinality(Urgent(requirements, 40)) + Cardinality(Urgent(requirements, 60))
          + Cardinality(Urgent(requirements, 70)) + Cardinality(Urgent(requirements, 80))
          + Cardinality(Urgent(requirements, 85)) + Cardinality(Urgent(requirements, 100))
  <2>1. IsFiniteSet(upTo60) /\ Cardinality(upTo60) = Cardinality(upTo40) + Cardinality(Urgent(requirements, 60))
    <3>1. upTo40 \cap Urgent(requirements, 60) = {}
      BY <1>5
    <3> QED  BY <1>3, <1>4, <3>1
  <2>2. IsFiniteSet(upTo70) /\ Cardinality(upTo70) = Cardinality(upTo60) + Cardinality(Urgent(requirements, 70))
    <3>1. upTo60 \cap Urgent(requirements, 70) = {}
      BY <1>5
    <3> QED  BY <1>4, <2>1, <3>1
  <2>3. IsFiniteSet(upTo80) /\ Cardinality(upTo80) = Cardinality(upTo70) + Cardinality(Urgent(requirements, 80))
    <3>1. upTo70 \cap Urgent(requirements, 80) = {}
      BY <1>5
    <3> QED  BY <1>4, <2>2, <3>1
  <2>4. IsFiniteSet(upTo85) /\ Cardinality(upTo85) = Cardinality(upTo80) + Cardinality(Urgent(requirements, 85))
    <3>1. upTo80 \cap Urgent(requirements, 85) = {}
      BY <1>5
    <3> HIDE DEF upTo80
    <3> QED  BY <1>4, <2>3, <3>1
  <2>5. Cardinality(all) = Cardinality(upTo85) + Cardinality(Urgent(requirements, 100))
    <3>1. upTo85 \cap Urgent(requirements, 100) = {}
      BY <1>5
    <3> HIDE DEF all, upTo85
    <3> QED  BY <1>4, <1>6, <2>4, <3>1
  <2> HIDE DEF all, upTo40, upTo60, upTo70, upTo80, upTo85
  <2>6. upTo40 = Urgent(requirements, 40)
    BY DEF upTo40
  <2> QED  BY <1>2, <1>3, <2>1, <2>2, <2>3, <2>4, <2>5, <2>6
<1>8. TotalUrgency(requirements)
        = 100 * Cardinality(Urgent(requirements, 100)) + 85 * Cardinality(Urgent(requirements, 85))
          + 80 * Cardinality(Urgent(requirements, 80)) + 70 * Cardinality(Urgent(requirements, 70))
          + 60 * Cardinality(Urgent(requirements, 60)) + 40 * Cardinality(Urgent(requirements, 40))
  BY Zenon DEF TotalUrgency
<1>9. PICK a, b, c, d, e, f \in Nat :
         /\ a = Cardinality(Urgent(requirements, 40)) /\ b = Cardinality(Urgent(requirements, 60))
         /\ c = Cardinality(Urgent(requirements, 70)) /\ d = Cardinality(Urgent(requirements, 80))
         /\ e = Cardinality(Urgent(requirements, 85)) /\ f = Cardinality(Urgent(requirements, 100))
  BY <1>3
<1>10. /\ Len(requirements) = a + b + c + d + e + f
       /\ TotalUrgency(requirements) = 100 * f + 85 * e + 80 * d + 70 * c + 60 * b + 40 * a
  BY <1>7, <1>8, <1>9
<1> QED  BY <1>10

\* The requirements score is between 10 and 100, however many there are.
LEMMA RequirementsRange ==
  ASSUME NEW Text, NEW requirements \in Seq(Text)
  PROVE  RequirementsScore(requirements) \in 10 .. 100
<1>1. PICK n \in Nat, total \in Nat :
         n = Len(requirements) /\ total = TotalUrgency(requirements) /\ 40 * n <= total
  BY UrgencyPerRequirement
<1>2. ASSUME n # 0
      PROVE  /\ RoundedQuotient(total * CountMultiplier(n), 100 * n) \in Nat
             /\ RoundedQuotient(total * CountMultiplier(n), 100 * n) >= 40
  <2>1. PICK m \in 100 .. 125 : m = CountMultiplier(n)
    BY <1>2 DEF CountMultiplier, AtMost
  <2>2. PICK boosted \in Nat : boosted = total * m /\ boosted >= 4000 * n
    <3>1. m * (40 * n) <= m * total /\ m * total \in Nat
      BY <1>1
    <3>2. 100 * (40 * n) <= m * (40 * n)
      BY <1>2
    <3> QED  BY <3>1, <3>2
  <2>3. PICK quotient \in Nat : quotient = RoundedQuotient(boosted, 100 * n)
                                  /\ 2 * boosted + 100 * n < (200 * n) * quotient + 200 * n
    <3>1. /\ 2 * boosted + 100 * n \in Nat /\ 200 * n \in Nat \ {0}
          /\ 2 * (100 * n) = 200 * n
      BY <1>2
    <3>2. PICK a \in Nat, b \in Nat \ {0} : a = 2 * boosted + 100 * n /\ b = 200 * n
      BY <3>1
    <3>3. RoundedQuotient(boosted, 100 * n) = a \div b
      BY <3>1, <3>2 DEF RoundedQuotient
    <3>4. a \div b \in Nat /\ a < b * (a \div b) + b
      BY Quotient
    <3> QED  BY <3>2, <3>3, <3>4
  <2>4. ~(quotient <= 39)
    <3> SUFFICES ASSUME quotient <= 39  PROVE FALSE
      OBVIOUS
    <3>1. (200 * n) * quotient <= (200 * n) * 39
      BY Times
    <3> QED  BY <1>2, <2>2, <2>3, <3>1
  <2> QED  BY <2>1, <2>2, <2>3, <2>4
<1>3. CASE n = 0
  BY <1>1, <1>3 DEF RequirementsScore
<1>4. CASE n # 0
  <2>1. PICK q \in Nat : q = RoundedQuotient(total * CountMultiplier(n), 100 * n) /\ q >= 40
    BY <1>2, <1>4
  <2>2. RequirementsScore(requirements) = IF n = 4 /\ total = 200 THEN 57 ELSE AtMost(100, q)
    BY <1>1, <1>4, <2>1 DEF RequirementsScore
  <2>3. AtMost(100, q) \in 10 .. 100
    <3>1. q >= 40
      BY <2>1
    <3> QED  BY <3>1 DEF AtMost
  <2> QED  BY <2>2, <2>3
<1> QED  BY <1>3, <1>4

\* What calculatePriority is given: a report as the driver's, with any number
\* of people and any list of requirements, which are free text.
Reports(Text) ==
    [severity : Levels, timeSensitivity : Levels, affectedPeople : Int,
     signs : SUBSET Levels, requirements : Seq(Text)]

\* What the factors of a report are.
LEMMA Factors ==
  ASSUME NEW Text, NEW r \in Reports(Text)
  PROVE  /\ LevelScore[r.severity] \in 25 .. 100
         /\ LevelScore[r.timeSensitivity] \in 25 .. 100
         /\ PopulationScore(r.affectedPeople) \in 0 .. 100
         /\ LevelScore[Risk(r.signs)] \in 25 .. 100
         /\ RequirementsScore(r.requirements) \in 10 .. 100
<1>1. \A level \in Levels : LevelScore[level] \in 25 .. 100
  BY DEF Levels, LevelScore
<1>2. /\ r.severity \in Levels /\ r.timeSensitivity \in Levels
      /\ r.affectedPeople \in Int /\ r.signs \in SUBSET Levels /\ r.requirements \in Seq(Text)
  BY DEF Reports
<1>3. PopulationScore(r.affectedPeople) \in 0 .. 100
  <2>1. PICK count \in Int : count = r.affectedPeople /\ count <= count
    BY <1>2
  <2> QED  BY <2>1, PopulationGrows
<1>4. LevelScore[Risk(r.signs)] \in 25 .. 100
  BY <1>2, RiskGrows
<1> QED  BY <1>1, <1>2, <1>3, <1>4, RequirementsRange

\* The clamp never cuts: the score is the weighted sum, and in range.
LEMMA ScoreIsWeighted ==
  ASSUME NEW Text, NEW r \in Reports(Text)
  PROVE  /\ PriorityScore(r) = Weighted(LevelScore[r.severity], LevelScore[r.timeSensitivity],
                                        PopulationScore(r.affectedPeople), LevelScore[Risk(r.signs)],
                                        RequirementsScore(r.requirements))
         /\ 1850 <= PriorityScore(r) /\ PriorityScore(r) <= 10000
<1>1. PICK s \in 25 .. 100, t \in 25 .. 100, p \in 0 .. 100, k \in 25 .. 100, q \in 10 .. 100 :
         /\ s = LevelScore[r.severity] /\ t = LevelScore[r.timeSensitivity]
         /\ p = PopulationScore(r.affectedPeople) /\ k = LevelScore[Risk(r.signs)]
         /\ q = RequirementsScore(r.requirements)
  BY Factors
<1>2. PICK sum \in Nat : sum = Weighted(s, t, p, k, q) /\ 1850 <= sum /\ sum <= 10000
  BY DEF Weighted
<1>3. PriorityScore(r) = AtMost(10000, IF sum < 0 THEN 0 ELSE sum)
  BY <1>1, <1>2 DEF PriorityScore
<1>4. AtMost(10000, IF sum < 0 THEN 0 ELSE sum) = sum
  BY <1>2 DEF AtMost
<1> QED  BY <1>1, <1>2, <1>3, <1>4

\* A report that is worse scores no less.
LEMMA WorseScoresNoLess ==
  ASSUME NEW Text, NEW old \in Reports(Text), NEW new \in Reports(Text), Worse(new, old)
  PROVE  PriorityScore(new) >= PriorityScore(old)
<1>1. \A a, b \in Levels : Rank(a) >= Rank(b) => LevelScore[a] >= LevelScore[b]
  BY DEF Levels, Rank, LevelScore
<1>2. /\ LevelScore[new.severity] >= LevelScore[old.severity]
      /\ LevelScore[new.timeSensitivity] >= LevelScore[old.timeSensitivity]
  BY <1>1 DEF Worse, Reports
<1>3. PopulationScore(new.affectedPeople) >= PopulationScore(old.affectedPeople)
  <2>1. new.affectedPeople \in Int /\ old.affectedPeople \in Int
        /\ old.affectedPeople <= new.affectedPeople
    BY DEF Worse, Reports
  <2>2. /\ PopulationScore(old.affectedPeople) <= PopulationScore(new.affectedPeople)
        /\ PopulationScore(old.affectedPeople) \in 0 .. 100
        /\ PopulationScore(new.affectedPeople) \in 0 .. 100
    BY <2>1, PopulationGrows
  <2> QED  BY <2>2
<1>4. LevelScore[Risk(new.signs)] >= LevelScore[Risk(old.signs)]
  <2>1. old.signs \in SUBSET Levels /\ new.signs \in SUBSET Levels
        /\ (new.signs = old.signs \/ (old.signs # {} /\ old.signs \subseteq new.signs))
    BY DEF Worse, Reports
  <2>2. /\ LevelScore[Risk(old.signs)] <= LevelScore[Risk(new.signs)]
        /\ LevelScore[Risk(old.signs)] \in 25 .. 100
        /\ LevelScore[Risk(new.signs)] \in 25 .. 100
    BY <2>1, RiskGrows
  <2> QED  BY <2>2
<1>5. RequirementsScore(new.requirements) = RequirementsScore(old.requirements)
  BY DEF Worse
<1>6. PICK s \in 25 .. 100, t \in 25 .. 100, p \in 0 .. 100, k \in 25 .. 100, q \in 10 .. 100 :
         /\ s = LevelScore[old.severity] /\ t = LevelScore[old.timeSensitivity]
         /\ p = PopulationScore(old.affectedPeople) /\ k = LevelScore[Risk(old.signs)]
         /\ q = RequirementsScore(old.requirements)
  BY Factors
<1>7. PICK s2 \in 25 .. 100, t2 \in 25 .. 100, p2 \in 0 .. 100, k2 \in 25 .. 100 :
         /\ s2 = LevelScore[new.severity] /\ t2 = LevelScore[new.timeSensitivity]
         /\ p2 = PopulationScore(new.affectedPeople) /\ k2 = LevelScore[Risk(new.signs)]
  BY Factors
<1>8. s2 >= s /\ t2 >= t /\ p2 >= p /\ k2 >= k
  BY <1>2, <1>3, <1>4, <1>6, <1>7
<1>9. Weighted(s2, t2, p2, k2, q) >= Weighted(s, t, p, k, q)
  BY <1>8 DEF Weighted
<1>10. /\ PriorityScore(old) = Weighted(s, t, p, k, q)
       /\ PriorityScore(new) = Weighted(s2, t2, p2, k2, q)
  BY <1>5, <1>6, <1>7, ScoreIsWeighted
<1> QED  BY <1>9, <1>10

-----------------------------------------------------------------------------
(* The ranking *)

\* Of two resources the farther does not arrive sooner, by the rounded time.
LEMMA EtaGrows ==
  ASSUME NEW d \in Nat, NEW e \in Nat, d <= e, NEW speed \in Nat \ {0}, NEW access
  PROVE  /\ Eta(d, speed, access) \in Nat
         /\ Eta(d, speed, access) <= Eta(e, speed, access)
<1>1. PICK h \in {2, 3} : h = EtaHalves(access)
  BY DEF EtaHalves
<1>2. /\ 60 * d * h + speed \in Nat /\ 60 * e * h + speed \in Nat
      /\ 60 * d * h + speed <= 60 * e * h + speed
      /\ 2 * speed \in Nat \ {0}
  OBVIOUS
<1>3. PICK m \in Nat, n \in Nat, b \in Nat \ {0} :
         m = 60 * d * h + speed /\ n = 60 * e * h + speed /\ b = 2 * speed /\ m <= n
  BY <1>2
<1>4. m \div b \in Nat /\ m \div b <= n \div b
  BY <1>3, Quotient, QuotientGrows
<1>5. Eta(d, speed, access) = m \div b /\ Eta(e, speed, access) = n \div b
  BY <1>1, <1>3 DEF Eta
<1> QED  BY <1>4, <1>5

\* Resource a is as good as b: it arrives sooner; or as soon and fits better;
\* or both arrive and fit alike and the order of the ids decides.
AsGood(a, b, speed, access) ==
    \/ Eta(a.distance, speed, access) < Eta(b.distance, speed, access)
    \/ /\ Eta(a.distance, speed, access) = Eta(b.distance, speed, access)
       /\ \/ a.capacity < b.capacity
          \/ a.capacity = b.capacity /\ a.id <= b.id

\* The comparator is the order it is meant to be, if the speed is positive,
\* and no order otherwise.
LEMMA Compares ==
  ASSUME NEW a \in Resource, NEW b \in Resource, NEW speed \in Nat, NEW access
  PROVE  /\ Compare(a, b, speed, access) \in Int
         /\ speed = 0 => Compare(a, b, speed, access) = 0
         /\ speed > 0 => (Compare(a, b, speed, access) <= 0 <=> AsGood(a, b, speed, access))
         /\ speed > 0 /\ Compare(a, b, speed, access) = 0 => AsGood(b, a, speed, access)
<1>1. /\ a.distance \in Nat /\ b.distance \in Nat /\ a.capacity \in Nat /\ b.capacity \in Nat
      /\ a.id \in Nat /\ b.id \in Nat
  BY DEF Resource
<1>2. CASE speed = 0
  BY <1>2 DEF Compare
<1>3. CASE speed > 0
  <2>1. PICK p \in Nat, q \in Nat :
           p = Eta(a.distance, speed, access) /\ q = Eta(b.distance, speed, access)
    BY <1>1, <1>3, EtaGrows
  <2>2. Compare(a, b, speed, access) =
           IF p - q # 0 THEN p - q
           ELSE IF a.capacity - b.capacity # 0 THEN a.capacity - b.capacity
           ELSE a.id - b.id
    BY <1>3, <2>1 DEF Compare
  <2>3. AsGood(a, b, speed, access) <=>
           p < q \/ (p = q /\ (a.capacity < b.capacity \/ (a.capacity = b.capacity /\ a.id <= b.id)))
    BY <2>1 DEF AsGood
  <2>4. AsGood(b, a, speed, access) <=>
           q < p \/ (q = p /\ (b.capacity < a.capacity \/ (b.capacity = a.capacity /\ b.id <= a.id)))
    BY <2>1 DEF AsGood
  <2> QED  BY <1>1, <1>3, <2>2, <2>3, <2>4
<1> QED  BY <1>2, <1>3

\* Of finitely or infinitely many values that are natural numbers, one is least.
LEMMA LeastOf ==
  ASSUME NEW S, S # {}, NEW f, \A k \in S : f[k] \in Nat
  PROVE  \E k \in S : \A j \in S : f[k] <= f[j]
<1> DEFINE values == {f[k] : k \in S}
<1>1. values \in SUBSET Nat /\ values # {}
  OBVIOUS
<1>2. PICK n \in values : \A m \in values : n <= m
  BY <1>1, LeastNatural
<1> QED  BY <1>2

\* The order has a first position among any.
LEMMA FirstExists ==
  ASSUME NEW list \in Seq(Resource), NEW positions \in SUBSET DOMAIN list, positions # {},
         NEW speed \in Nat, NEW access
  PROVE  \E k \in positions : \A j \in positions :
            \/ Compare(list[k], list[j], speed, access) < 0
            \/ Compare(list[k], list[j], speed, access) = 0 /\ k <= j
<1>0. /\ \A k \in positions : list[k] \in Resource
      /\ positions \subseteq Nat
  OBVIOUS
<1>a. \A k \in positions : list[k].distance \in Nat /\ list[k].capacity \in Nat /\ list[k].id \in Nat
  BY <1>0 DEF Resource
<1>1. CASE speed = 0
  <2>1. PICK k \in positions : \A j \in positions : k <= j
    BY <1>0, LeastNatural
  <2>2. \A j \in positions : Compare(list[k], list[j], speed, access) = 0
    BY <1>0, <1>1, Compares
  <2> QED  BY <2>1, <2>2
<1>2. CASE speed > 0
  <2> DEFINE eta == [k \in positions |-> Eta(list[k].distance, speed, access)]
             capacity == [k \in positions |-> list[k].capacity]
             id == [k \in positions |-> list[k].id]
  <2>1. \A k \in positions : eta[k] \in Nat
    BY <1>a, <1>2, EtaGrows
  <2>2. PICK soon \in positions : \A j \in positions : eta[soon] <= eta[j]
    <3> HIDE DEF eta
    <3> QED  BY <2>1, LeastOf
  <2> DEFINE soonest == {k \in positions : eta[k] = eta[soon]}
  <2>3. PICK fit \in soonest : \A j \in soonest : capacity[fit] <= capacity[j]
    <3>1. \A k \in soonest : capacity[k] \in Nat
      BY <1>a
    <3>2. soonest # {}
      OBVIOUS
    <3> HIDE DEF capacity, soonest
    <3> QED  BY <3>1, <3>2, LeastOf
  <2> DEFINE fittest == {k \in soonest : capacity[k] = capacity[fit]}
  <2>4. PICK known \in fittest : \A j \in fittest : id[known] <= id[j]
    <3>1. \A k \in fittest : id[k] \in Nat
      BY <1>a
    <3>2. fittest # {}
      OBVIOUS
    <3> HIDE DEF id, fittest
    <3> QED  BY <3>1, <3>2, LeastOf
  <2> DEFINE alike == {k \in fittest : id[k] = id[known]}
  <2>5. PICK first \in alike : \A j \in alike : first <= j
    <3>1. alike \in SUBSET Nat /\ alike # {}
      BY <1>0
    <3> HIDE DEF alike
    <3> QED  BY <3>1, LeastNatural
  <2>6. first \in positions
    OBVIOUS
  <2>7. ASSUME NEW j \in positions
        PROVE  /\ AsGood(list[first], list[j], speed, access)
               /\ (AsGood(list[j], list[first], speed, access) => first <= j)
    <3>1. PICK p \in Nat, q \in Nat : p = eta[first] /\ q = eta[j] /\ p <= q
      BY <2>1, <2>2
    <3>2. PICK c \in Nat, d \in Nat : c = capacity[first] /\ d = capacity[j] /\ (p = q => c <= d)
      <4>1. capacity[first] \in Nat /\ capacity[j] \in Nat
        BY <1>a
      <4>2. p = q => j \in soonest
        BY <3>1
      <4>3. j \in soonest => capacity[fit] <= capacity[j]
        BY <2>3
      <4>4. capacity[first] = capacity[fit]
        BY <2>5
      <4> QED  BY <4>1, <4>2, <4>3, <4>4
    <3>3. PICK m \in Nat, n \in Nat : m = id[first] /\ n = id[j] /\ (p = q /\ c = d => m <= n)
      <4>1. id[first] \in Nat /\ id[j] \in Nat
        BY <1>a
      <4>2. p = q /\ c = d => j \in fittest
        BY <3>1, <3>2
      <4>3. j \in fittest => id[known] <= id[j]
        BY <2>4
      <4>4. id[first] = id[known]
        BY <2>5
      <4> QED  BY <4>1, <4>2, <4>3, <4>4
    <3>4. p = q /\ c = d /\ m = n => first <= j
      <4>1. p = q /\ c = d /\ m = n => j \in alike
        BY <3>1, <3>2, <3>3
      <4> QED  BY <2>5, <4>1
    <3>5. /\ AsGood(list[first], list[j], speed, access) <=>
                p < q \/ (p = q /\ (c < d \/ (c = d /\ m <= n)))
          /\ AsGood(list[j], list[first], speed, access) <=>
                q < p \/ (q = p /\ (d < c \/ (d = c /\ n <= m)))
      BY <3>1, <3>2, <3>3 DEF AsGood
    <3> HIDE DEF eta, capacity, id, soonest, fittest, alike
    <3>6. p < q \/ (p = q /\ (c < d \/ (c = d /\ m <= n)))
      BY <3>1, <3>2, <3>3
    <3>7. (q < p \/ (q = p /\ (d < c \/ (d = c /\ n <= m)))) => p = q /\ c = d /\ m = n
      BY <3>1, <3>2, <3>3
    <3> QED  BY <3>4, <3>5, <3>6, <3>7
  <2> HIDE DEF eta, capacity, id, soonest, fittest, alike
  <2>8. ASSUME NEW j \in positions
        PROVE  \/ Compare(list[first], list[j], speed, access) < 0
               \/ Compare(list[first], list[j], speed, access) = 0 /\ first <= j
    <3>1. PICK x \in Int : x = Compare(list[first], list[j], speed, access)
      BY <1>0, <2>6, Compares
    <3>2. x <= 0
      BY <1>0, <1>2, <2>6, <2>7, <3>1, Compares
    <3>3. x = 0 => AsGood(list[j], list[first], speed, access)
      BY <1>0, <1>2, <2>6, <3>1, Compares
    <3> QED  BY <2>7, <3>1, <3>2, <3>3
  <2> QED  BY <2>6, <2>8
<1> QED  BY <1>1, <1>2

\* What FirstRanked returns: a resource at one of the positions, and with a
\* positive speed one that is as good as any of them.
LEMMA FirstIsBest ==
  ASSUME NEW list \in Seq(Resource), NEW positions \in SUBSET DOMAIN list,
         NEW speed \in Nat, NEW access
  PROVE  /\ FirstRanked(list, positions, speed, access) = Nobody <=> positions = {}
         /\ positions # {} =>
               \E k \in positions :
                  /\ FirstRanked(list, positions, speed, access) = list[k]
                  /\ speed > 0 => \A j \in positions : AsGood(list[k], list[j], speed, access)
<1>1. CASE positions = {}
  BY <1>1 DEF FirstRanked
<1>2. CASE positions # {}
  <2> DEFINE IsFirst(k) == \A j \in positions :
                              \/ Compare(list[k], list[j], speed, access) < 0
                              \/ Compare(list[k], list[j], speed, access) = 0 /\ k <= j
             k == CHOOSE p \in positions : IsFirst(p)
  <2>1. \E p \in positions : IsFirst(p)
    BY <1>2, FirstExists
  <2>2. k \in positions /\ IsFirst(k)
    <3> HIDE DEF IsFirst
    <3> QED  BY <2>1
  <2>3. FirstRanked(list, positions, speed, access) = list[k]
    BY <1>2 DEF FirstRanked
  <2> HIDE DEF k
  <2>4. \A p \in positions : list[p] \in Resource
    OBVIOUS
  <2>5. list[k] # Nobody
    BY <2>2, <2>4, NobodyAssumption
  <2>6. ASSUME speed > 0, NEW j \in positions
        PROVE  AsGood(list[k], list[j], speed, access)
    <3>1. PICK x \in Int : x = Compare(list[k], list[j], speed, access)
      BY <2>2, <2>4, Compares
    <3>2. x <= 0
      BY <2>2, <3>1
    <3> QED  BY <2>2, <2>4, <2>6, <3>1, <3>2, Compares
  <2> QED  BY <1>2, <2>2, <2>3, <2>5, <2>6
<1> QED  BY <1>1, <1>2

\* The recommendation: the best of the feasible resources, if there are any.
LEMMA RecommendsOneOf ==
  ASSUME NEW list \in Seq(Resource), NEW i, NEW speed \in Nat, NEW access
  PROVE  LET best == Recommended(list, i, speed, access)
         IN  /\ best = Nobody => \A j \in DOMAIN list : ~Feasible(list[j], i)
             /\ best # Nobody =>
                   /\ \E k \in DOMAIN list : best = list[k] /\ Feasible(list[k], i)
                   /\ speed > 0 => \A j \in DOMAIN list :
                                     Feasible(list[j], i) => AsGood(best, list[j], speed, access)
<1> DEFINE good == {k \in DOMAIN list : Feasible(list[k], i)}
<1>1. PICK best : best = FirstRanked(list, good, speed, access)
  OBVIOUS
<1>2. Recommended(list, i, speed, access) = best
  BY <1>1 DEF Recommended
<1> HIDE DEF good
<1>3. good \in SUBSET DOMAIN list
  BY DEF good
<1>4. /\ best = Nobody <=> good = {}
      /\ good # {} => \E k \in good :
                         /\ best = list[k]
                         /\ speed > 0 => \A j \in good : AsGood(list[k], list[j], speed, access)
  BY <1>1, <1>3, FirstIsBest
<1>5. \A k \in DOMAIN list : k \in good <=> Feasible(list[k], i)
  BY DEF good
<1>6. \A k \in good : k \in DOMAIN list
  BY <1>3
<1>7. /\ best = Nobody => \A j \in DOMAIN list : ~Feasible(list[j], i)
      /\ best # Nobody => \E k \in DOMAIN list : best = list[k] /\ Feasible(list[k], i)
  BY <1>4, <1>5, <1>6
<1>8. ASSUME best # Nobody, speed > 0, NEW j \in DOMAIN list, Feasible(list[j], i)
      PROVE  AsGood(best, list[j], speed, access)
  BY <1>4, <1>5, <1>8
<1> QED  BY <1>2, <1>7, <1>8

\* The replacement: a feasible resource, other than the current one, if the
\* access is not blocked.
LEMMA ReplacesWithOneOf ==
  ASSUME NEW list \in Seq(Resource), NEW current, NEW i, NEW speed \in Nat, NEW access,
         Replacement(list, current, i, speed, access) # Nobody
  PROVE  /\ access # "BLOCKED"
         /\ \E k \in DOMAIN list : /\ Replacement(list, current, i, speed, access) = list[k]
                                   /\ list[k].id # current.id
                                   /\ Feasible(list[k], i)
<1> DEFINE good == {k \in DOMAIN list : list[k].id # current.id /\ Feasible(list[k], i)}
<1>1. access # "BLOCKED" /\ Replacement(list, current, i, speed, access) = FirstRanked(list, good, speed, access)
  BY DEF Replacement
<1>2. good \in SUBSET DOMAIN list
  OBVIOUS
<1> HIDE DEF good
<1>3. \E k \in good : FirstRanked(list, good, speed, access) = list[k]
  BY <1>1, <1>2, FirstIsBest
<1> QED  BY <1>1, <1>3 DEF good

-----------------------------------------------------------------------------
(* The fleet and the reports *)

\* What the driver keeps: a report, an incident and a fleet of their types.
Sane ==
    /\ report \in Report
    /\ incident \in Incident
    /\ fleet \in [Fleet -> Candidate]

\* A list of requirements the driver gives is a sequence of types.
LEMMA ReportsTyped == Report \subseteq Reports({"OTHER", "AMBULANCE", "FIRE_TRUCK", "HELICOPTER"})
<1> DEFINE Text == {"OTHER", "AMBULANCE", "FIRE_TRUCK", "HELICOPTER"}
<1>1. ReportedRequirements \subseteq Seq(Text)
  <2>1. PICK o, a, f, h \in Text :
           o = "OTHER" /\ a = "AMBULANCE" /\ f = "FIRE_TRUCK" /\ h = "HELICOPTER"
    OBVIOUS
  <2> HIDE DEF Text
  <2>2. <<>> \in Seq(Text) /\ <<o>> \in Seq(Text) /\ <<a, f>> \in Seq(Text)
    OBVIOUS
  <2>3. <<o, o, o, h>> \in Seq(Text) /\ <<a, o, a, o>> \in Seq(Text)
    OBVIOUS
  <2>4. [k \in 1 .. 7 |-> h] \in Seq(Text)
    <3>1. [k \in 1 .. 7 |-> h] \in [1 .. 7 -> Text]
      OBVIOUS
    <3> QED  BY <3>1, SeqDef
  <2> QED  BY <2>1, <2>2, <2>3, <2>4 DEF ReportedRequirements
<1>2. ReportedSigns \subseteq SUBSET Levels
  BY DEF ReportedSigns, Levels
<1>3. People \subseteq Int
  BY EnginesAssumption
<1> QED  BY <1>1, <1>2, <1>3 DEF Report, Reports

\* The fields stay of their types.
LEMMA Sanity == Spec => []Sane
<1>1. Init => Sane
  <2> SUFFICES ASSUME Init  PROVE Sane
    OBVIOUS
  <2>1. report \in Report
    <3>1. "LOW" \in Levels /\ {} \in ReportedSigns /\ <<>> \in ReportedRequirements
      BY Zenon DEF Levels, ReportedSigns, ReportedRequirements
    <3>2. 0 \in People
      BY EnginesAssumption
    <3> QED  BY <3>1, <3>2 DEF Init, Report
  <2>2. incident \in Incident
    <3>1. \E n \in Capacities : \A m \in Capacities : n <= m
      BY EnginesAssumption, LeastNatural
    <3>2. incident.people \in Capacities
      BY <3>1 DEF Init
    <3> QED  BY <3>2 DEF Init, Incident
  <2>3. fleet \in [Fleet -> Candidate]
    BY DEF Init
  <2> QED  BY <2>1, <2>2, <2>3 DEF Sane
<1>2. Sane /\ [Next]_vars => Sane'
  <2> SUFFICES ASSUME Sane, [Next]_vars  PROVE Sane'
    OBVIOUS
  <2>1. CASE EditReport
    BY <2>1 DEF EditReport, Sane, Report
  <2>2. CASE EditFleet
    BY <2>2 DEF EditFleet, Sane
  <2>3. CASE UNCHANGED vars
    BY <2>3 DEF vars, Sane
  <2> QED  BY <2>1, <2>2, <2>3 DEF Next
<1> QED  BY <1>1, <1>2, PTL DEF Spec

\* The query lists the rows of the fleet, whatever the order.
LEMMA Listing ==
  ASSUME Sane
  PROVE  /\ List \in Seq(Resource)
         /\ \A x \in Fleet : Row(x) \in Resource
         /\ \A k \in DOMAIN List : \E x \in Fleet : List[k] = Row(x)
<1>1. FleetSize \in Nat /\ Fleet = 1 .. FleetSize
  BY EnginesAssumption DEF Fleet
<1>2. ASSUME NEW x \in Fleet  PROVE Row(x) \in Resource
  <2>1. fleet[x] \in Candidate /\ x \in Nat
    BY <1>1 DEF Sane
  <2>2. PICK c \in Candidate : c = fleet[x]
    BY <2>1
  <2>3. c.status \in {"AVAILABLE", "BUSY", "FAILED"} /\ c.type \in {"AMBULANCE", "RESCUE_TEAM"}
    BY DEF Candidate
  <2>4. c.status \in ResourceStatuses /\ c.type \in ResourceTypes
    BY <2>3 DEF ResourceStatuses, ResourceTypes
  <2>5. c.capacity \in Capacities /\ c.distance \in Distances
    BY DEF Candidate
  <2>6. c.capacity \in Nat /\ c.distance \in Nat
    BY <2>5, EnginesAssumption
  <2> QED  BY <2>1, <2>2, <2>4, <2>6 DEF Row, Resource
<1> DEFINE byId == [x \in Fleet |-> Row(x)]
<1>3. byId \in Seq(Resource) /\ Len(byId) = FleetSize /\ \A k \in Fleet : byId[k] = Row(k)
  BY <1>1, <1>2
<1>4. List = byId \/ List = Reverse(byId)
  BY DEF List
<1> HIDE DEF byId
<1>5. CASE List = byId
  BY <1>1, <1>2, <1>3, <1>5
<1>6. CASE List = Reverse(byId)
  <2>1. List = [k \in Fleet |-> byId[(FleetSize - k) + 1]]
    BY <1>1, <1>3, <1>6 DEF Reverse
  <2>2. \A k \in Fleet : (FleetSize - k) + 1 \in Fleet
    BY <1>1
  <2>3. \A k \in Fleet : List[k] = Row((FleetSize - k) + 1) /\ List[k] \in Resource
    BY <1>2, <1>3, <2>1, <2>2
  <2>4. List \in Seq(Resource) /\ DOMAIN List = Fleet
    BY <1>1, <2>1, <2>3
  <2> QED  BY <1>2, <2>2, <2>3, <2>4
<1> QED  BY <1>4, <1>5, <1>6

-----------------------------------------------------------------------------
(* Theorems *)

\* Whatever the report, its score is the weighted sum of the five factors and
\* between 18.5 and 100: the clamp of calculatePriority hides nothing.
THEOREM ScoresInRange == Spec => []ScoreInRange
<1>1. Sane => ScoreInRange
  <2> SUFFICES ASSUME Sane  PROVE ScoreInRange
    OBVIOUS
  <2>1. PICK Text : report \in Reports(Text)
    BY ReportsTyped DEF Sane
  <2> QED  BY <2>1, ScoreIsWeighted DEF ScoreInRange
<1> QED  BY <1>1, Sanity, PTL

\* No edit of a report that can only make the incident worse lowers its score.
THEOREM WorseScores == Spec => WorseNeverScoresLess
<1>1. Sane /\ Sane' => [Worse(report', report) => PriorityScore(report)' >= PriorityScore(report)]_report
  <2> SUFFICES ASSUME Sane, Sane', Worse(report', report)
               PROVE  PriorityScore(report)' >= PriorityScore(report)
    OBVIOUS
  <2>1. PICK Text : report \in Reports(Text) /\ report' \in Reports(Text)
    <3>1. report \in Report /\ report' \in Report
      BY DEF Sane, Report
    <3> QED  BY <3>1, ReportsTyped
  <2>2. PriorityScore(report') >= PriorityScore(report)
    BY <2>1, WorseScoresNoLess
  <2>3. PriorityScore(report)' = PriorityScore(report')
    BY DEF PriorityScore
  <2> QED  BY <2>2, <2>3
<1> QED  BY <1>1, Sanity, PTL DEF WorseNeverScoresLess

\* The members of the list are its rows.
LEMMA Members ==
  ASSUME Sane
  PROVE  /\ Range(List) = {List[k] : k \in DOMAIN List}
         /\ \A k \in DOMAIN List : List[k] \in Resource
  BY Listing DEF Range

\* The recommended resource is the best feasible one of the fleet, for any
\* fleet, in any order of the rows, and any speed.
THEOREM BestRecommended == Spec => []RecommendsTheBest
<1>1. Sane => RecommendsTheBest
  <2> SUFFICES ASSUME Sane, NEW speed \in Speeds, NEW access \in {"NORMAL", "DIFFICULT"}
               PROVE  LET best == Recommended(List, incident, speed, access)
                          good == {c \in Range(List) : Feasible(c, incident)}
                      IN  /\ (best = Nobody) <=> (good = {})
                          /\ best # Nobody =>
                                /\ best \in good
                                /\ speed > 0 => \A c \in good :
                                      \/ c.distance > best.distance
                                      \/ /\ Eta(c.distance, speed, access) = Eta(best.distance, speed, access)
                                         /\ \/ c.capacity > best.capacity
                                            \/ c.capacity = best.capacity /\ c.id >= best.id
    BY DEF RecommendsTheBest
  <2> DEFINE good == {c \in Range(List) : Feasible(c, incident)}
  <2>1. speed \in Nat /\ List \in Seq(Resource)
    BY EnginesAssumption, Listing
  <2>2. PICK best : best = Recommended(List, incident, speed, access)
    OBVIOUS
  <2>3. /\ best = Nobody => \A j \in DOMAIN List : ~Feasible(List[j], incident)
        /\ best # Nobody =>
              /\ \E k \in DOMAIN List : best = List[k] /\ Feasible(List[k], incident)
              /\ speed > 0 => \A j \in DOMAIN List :
                                Feasible(List[j], incident) => AsGood(best, List[j], speed, access)
    BY <2>1, <2>2, RecommendsOneOf
  <2>4. /\ \A k \in DOMAIN List : Feasible(List[k], incident) => List[k] \in good
        /\ \A c \in good : \E k \in DOMAIN List : c = List[k] /\ Feasible(c, incident)
    BY Members
  <2>5. good \subseteq Resource
    BY Members
  <2> HIDE DEF good
  <2>6. (best = Nobody) <=> (good = {})
    BY <2>3, <2>4
  <2>7. ASSUME best # Nobody
        PROVE  /\ best \in good
               /\ speed > 0 => \A c \in good : AsGood(best, c, speed, access)
    BY <2>3, <2>4, <2>7
  <2>8. ASSUME NEW c \in good, best \in good, speed > 0, AsGood(best, c, speed, access)
        PROVE  \/ c.distance > best.distance
               \/ /\ Eta(c.distance, speed, access) = Eta(best.distance, speed, access)
                  /\ \/ c.capacity > best.capacity
                     \/ c.capacity = best.capacity /\ c.id >= best.id
    <3>1. PICK d \in Nat, e \in Nat, m \in Nat, n \in Nat, a \in Nat, b \in Nat :
             /\ d = c.distance /\ e = best.distance /\ m = c.capacity /\ n = best.capacity
             /\ a = c.id /\ b = best.id
      BY <2>5, <2>8 DEF Resource
    <3>2. PICK p \in Nat, q \in Nat :
             p = Eta(c.distance, speed, access) /\ q = Eta(best.distance, speed, access)
      <4>1. speed \in Nat \ {0} /\ c.distance \in Nat /\ best.distance \in Nat
        BY <2>1, <2>8, <3>1
      <4>2. c.distance <= c.distance /\ best.distance <= best.distance
        BY <4>1
      <4>3. Eta(c.distance, speed, access) \in Nat
        BY <4>1, <4>2, EtaGrows
      <4>4. Eta(best.distance, speed, access) \in Nat
        BY <4>1, <4>2, EtaGrows
      <4> QED  BY <4>3, <4>4
    <3>3. d <= e => p <= q
      BY <2>1, <2>8, <3>1, <3>2, EtaGrows
    <3>4. q < p \/ (q = p /\ (n < m \/ (n = m /\ b <= a)))
      BY <2>8, <3>1, <3>2 DEF AsGood
    <3>5. d > e \/ (p = q /\ (m > n \/ (m = n /\ a >= b)))
      BY <3>3, <3>4
    <3> QED  BY <3>1, <3>2, <3>5
  <2> QED  BY <2>2, <2>6, <2>7, <2>8 DEF good
<1> QED  BY <1>1, Sanity, PTL

\* "Never random", says resource-allocation.engine.ts:162 of the ranking, and
\* with a positive speed it is so: the recommendation depends on the resources
\* alone, not on the order in which the query happens to return them, be there
\* any number of them, as long as no two share an id.
THEOREM OrderOfRowsIsIrrelevant ==
  ASSUME NEW one \in Seq(Resource), NEW two \in Seq(Resource), Range(one) = Range(two),
         \A c, d \in Range(one) : c.id = d.id => c = d,
         NEW i, NEW speed \in Nat \ {0}, NEW access
  PROVE  Recommended(one, i, speed, access) = Recommended(two, i, speed, access)
<1>1. PICK a, b : a = Recommended(one, i, speed, access) /\ b = Recommended(two, i, speed, access)
  OBVIOUS
<1>2. speed \in Nat /\ speed > 0
  OBVIOUS
\* Each of the lists holds what the other holds.
<1>3. /\ \A k \in DOMAIN one : one[k] \in Resource /\ \E j \in DOMAIN two : two[j] = one[k]
      /\ \A j \in DOMAIN two : two[j] \in Resource /\ \E k \in DOMAIN one : one[k] = two[j]
  <2>1. /\ Range(one) = {one[k] : k \in DOMAIN one}
        /\ Range(two) = {two[j] : j \in DOMAIN two}
    BY DEF Range
  <2>2. /\ \A k \in DOMAIN one : one[k] \in Range(two)
        /\ \A j \in DOMAIN two : two[j] \in Range(one)
    BY <2>1
  <2>3. /\ \A c \in Range(one) : \E k \in DOMAIN one : one[k] = c
        /\ \A c \in Range(two) : \E j \in DOMAIN two : two[j] = c
    BY DEF Range
  <2>4. \A k \in DOMAIN one : \E j \in DOMAIN two : two[j] = one[k]
    BY <2>2, <2>3
  <2>5. \A j \in DOMAIN two : \E k \in DOMAIN one : one[k] = two[j]
    BY <2>2, <2>3
  <2> QED  BY <2>4, <2>5
<1>4. /\ a = Nobody => \A j \in DOMAIN one : ~Feasible(one[j], i)
      /\ a # Nobody =>
            /\ \E k \in DOMAIN one : a = one[k] /\ Feasible(one[k], i)
            /\ speed > 0 => \A j \in DOMAIN one : Feasible(one[j], i) => AsGood(a, one[j], speed, access)
  BY <1>1, <1>2, RecommendsOneOf
<1>5. /\ b = Nobody => \A j \in DOMAIN two : ~Feasible(two[j], i)
      /\ b # Nobody =>
            /\ \E k \in DOMAIN two : b = two[k] /\ Feasible(two[k], i)
            /\ speed > 0 => \A j \in DOMAIN two : Feasible(two[j], i) => AsGood(b, two[j], speed, access)
  BY <1>1, <1>2, RecommendsOneOf
<1>6. a = Nobody <=> b = Nobody
  BY <1>3, <1>4, <1>5
<1>7. CASE a = Nobody
  BY <1>1, <1>6, <1>7
<1>8. CASE a # Nobody
  <2>1. PICK k \in DOMAIN one, j \in DOMAIN two :
           a = one[k] /\ b = two[j] /\ Feasible(a, i) /\ Feasible(b, i)
    BY <1>4, <1>5, <1>6, <1>8
  <2>2. AsGood(a, b, speed, access)
    <3>1. PICK m \in DOMAIN one : one[m] = b
      BY <1>3, <2>1
    <3> QED  BY <1>2, <1>4, <1>8, <2>1, <3>1
  <2>3. AsGood(b, a, speed, access)
    <3>1. PICK n \in DOMAIN two : two[n] = a
      BY <1>3, <2>1
    <3> QED  BY <1>2, <1>5, <1>6, <1>8, <2>1, <3>1
  <2>4. a \in Resource /\ b \in Resource
    BY <1>3, <2>1
  <2>5. PICK p \in Nat, q \in Nat :
           p = Eta(a.distance, speed, access) /\ q = Eta(b.distance, speed, access)
    <3>1. a.distance \in Nat /\ b.distance \in Nat
      BY <2>4 DEF Resource
    <3>2. a.distance <= a.distance /\ b.distance <= b.distance
      BY <3>1
    <3>3. Eta(a.distance, speed, access) \in Nat
      BY <3>1, <3>2, EtaGrows
    <3>4. Eta(b.distance, speed, access) \in Nat
      BY <3>1, <3>2, EtaGrows
    <3> QED  BY <3>3, <3>4
  <2>6. PICK c \in Nat, d \in Nat, m \in Nat, n \in Nat :
           c = a.capacity /\ d = b.capacity /\ m = a.id /\ n = b.id
    BY <2>4 DEF Resource
  <2>7. /\ p < q \/ (p = q /\ (c < d \/ (c = d /\ m <= n)))
        /\ q < p \/ (q = p /\ (d < c \/ (d = c /\ n <= m)))
    BY <2>2, <2>3, <2>5, <2>6 DEF AsGood
  <2>8. a.id = b.id
    BY <2>6, <2>7
  <2>9. a \in Range(one) /\ b \in Range(one)
    <3>1. \A x \in DOMAIN one : one[x] \in Range(one)
      BY DEF Range
    <3>2. \A y \in DOMAIN two : two[y] \in Range(two)
      BY DEF Range
    <3> QED  BY <2>1, <3>1, <3>2
  <2> QED  BY <1>1, <2>8, <2>9
<1> QED  BY <1>7, <1>8

\* A resource made BUSY fits as it did when it was feasible.
LEMMA BusyFits ==
  ASSUME NEW c \in Resource, NEW i, i.people \in Nat, Feasible(c, i)
  PROVE  Assignable(c, i) /\ StillFits([c EXCEPT !.status = "BUSY"], i)
<1>1. PICK busy : busy = [c EXCEPT !.status = "BUSY"]
  OBVIOUS
<1>2. busy.status = "BUSY" /\ busy.type = c.type /\ busy.capacity = c.capacity
  BY <1>1 DEF Resource
<1>3. busy.status \notin {"FAILED", "MAINTENANCE", "UNAVAILABLE"}
  BY <1>2
<1>4. c.capacity \in Nat
  BY DEF Resource
<1>5. StillFits(busy, i)
  BY <1>2, <1>3 DEF Feasible, StillFits
<1>6. Assignable(c, i)
  BY <1>4 DEF Feasible, Assignable, TypeMatches
<1> QED  BY <1>1, <1>5, <1>6

\* The three places that judge a resource agree, for any fleet.
THEOREM RulesAlwaysAgree == Spec => []RulesAgree
<1>1. Sane => RulesAgree
  <2> SUFFICES ASSUME Sane  PROVE RulesAgree
    OBVIOUS
  <2>1. PICK best : best = Recommended(List, incident, 60, "NORMAL")
    OBVIOUS
  <2>2. /\ best = Nobody => \A j \in DOMAIN List : ~Feasible(List[j], incident)
        /\ best # Nobody => \E k \in DOMAIN List : best = List[k] /\ Feasible(List[k], incident)
    <3>1. List \in Seq(Resource) /\ 60 \in Nat
      BY Listing
    <3> QED  BY <2>1, <3>1, RecommendsOneOf
  <2>3. CASE best = Nobody
    <3>1. \A c \in Range(List) : ~Feasible(c, incident)
      BY <2>2, <2>3, Members
    <3>2. ASSUME NEW c \in Range(List), Assignable(c, incident)  PROVE FALSE
      <4>1. c \in Resource
        BY Members
      <4>2. c.capacity \in Nat /\ incident.people \in Nat
        BY <4>1, EnginesAssumption DEF Resource, Sane, Incident
      <4>3. Feasible(c, incident)
        BY <3>2, <4>2 DEF Assignable, Feasible, TypeMatches
      <4> QED  BY <3>1, <4>3
    <3> QED  BY <2>1, <2>3, <3>2 DEF RulesAgree
  <2>4. CASE best # Nobody
    <3>1. best \in Resource /\ Feasible(best, incident)
      BY <2>2, <2>4, Members
    <3>2. incident.people \in Nat
      BY EnginesAssumption DEF Sane, Incident
    <3>3. Assignable(best, incident) /\ StillFits([best EXCEPT !.status = "BUSY"], incident)
      BY <3>1, <3>2, BusyFits
    <3> QED  BY <2>1, <2>4, <3>3 DEF RulesAgree
  <2> QED  BY <2>3, <2>4
<1> QED  BY <1>1, Sanity, PTL

\* What reoptimizeAssignment decides: if it gives up the resource, then for
\* one that fits, while the old one no longer does; and once that is BUSY it
\* would be kept, from whatever list.
LEMMA GivesUpOnce ==
  ASSUME NEW list \in Seq(Resource), NEW current, NEW i, i.people \in Nat, NEW trigger, NEW access,
         Decision(list, current, i, 60, trigger, access) # current
  PROVE  /\ ~StillFits(current, i)
         /\ \E next \in Resource :
               /\ next = Decision(list, current, i, 60, trigger, access)
               /\ \A others : LET busy == [next EXCEPT !.status = "BUSY"]
                               IN  Decision(others, busy, i, 60, trigger, access) = busy
<1> DEFINE effective == IF trigger = "ACCESS_CONDITION_CHANGE" THEN access ELSE "NORMAL"
           other == Replacement(list, current, i, 60, effective)
<1>1. /\ other # Nobody
      /\ trigger # "HIGHER_PRIORITY_INCIDENT"
      /\ ~(StillFits(current, i) /\ effective # "BLOCKED")
      /\ Decision(list, current, i, 60, trigger, access) = other
  BY DEF Decision
<1> HIDE DEF effective
<1>2. effective # "BLOCKED" /\ \E k \in DOMAIN list : other = list[k] /\ Feasible(list[k], i)
  BY <1>1, ReplacesWithOneOf
<1>3. PICK next \in Resource : next = other /\ Feasible(next, i)
  BY <1>2
<1>4. PICK busy : busy = [next EXCEPT !.status = "BUSY"]
  OBVIOUS
<1>5. StillFits(busy, i)
  BY <1>3, <1>4, BusyFits
<1> HIDE DEF other
<1>6. \A others : Decision(others, busy, i, 60, trigger, access) = busy
  BY <1>2, <1>5 DEF Decision, effective
<1> QED  BY <1>1, <1>2, <1>3, <1>4, <1>6

\* A re-optimization settles, whatever the trigger, the access and the fleet.
THEOREM ReplacementsSettle == Spec => []ReplacementSettles
<1>1. Sane => ReplacementSettles
  <2> SUFFICES ASSUME Sane, NEW x \in Fleet, NEW trigger \in Triggers, NEW access \in AccessConditions
               PROVE  LET current == Row(x)
                          next == Decision(List, current, incident, 60, trigger, access)
                          busy == [next EXCEPT !.status = "BUSY"]
                          again == Decision([k \in DOMAIN List |-> IF List[k].id = next.id THEN busy ELSE List[k]],
                                            busy, incident, 60, trigger, access)
                      IN  next # current => ~StillFits(current, incident) /\ again = busy
    BY DEF ReplacementSettles
  <2>1. PICK current, next :
           current = Row(x) /\ next = Decision(List, current, incident, 60, trigger, access)
    OBVIOUS
  <2>2. List \in Seq(Resource)
    BY Listing
  <2>3. ASSUME next # current
        PROVE  /\ ~StillFits(current, incident)
               /\ \A others : Decision(others, [next EXCEPT !.status = "BUSY"], incident, 60, trigger, access)
                                 = [next EXCEPT !.status = "BUSY"]
    <3>1. incident.people \in Nat
      BY EnginesAssumption DEF Sane, Incident
    <3>2. Decision(List, current, incident, 60, trigger, access) # current
      BY <2>1, <2>3
    <3>3. /\ ~StillFits(current, incident)
          /\ \E n \in Resource :
                /\ n = Decision(List, current, incident, 60, trigger, access)
                /\ \A others : LET busy == [n EXCEPT !.status = "BUSY"]
                                IN  Decision(others, busy, incident, 60, trigger, access) = busy
      BY <2>2, <3>1, <3>2, GivesUpOnce
    <3> QED  BY <2>1, <3>3
  <2> QED  BY <2>1, <2>3
<1> QED  BY <1>1, Sanity, PTL

=============================================================================
