CONSTANTS
    Nobody = Nobody
    FleetSize = 2
    Capacities = {4, 5}
    Distances = {1000, 1001, 2000}
    Speeds = {0, 60, 7200}
    People = {0, 1, 10, 11, 14, 50, 51, 100, 101, 110, 200, 201}

SPECIFICATION Spec

INVARIANTS
    ScoreInRange
    RecommendsTheBest
    RulesAgree
    ReplacementSettles

PROPERTIES
    WorseNeverScoresLess
