CONSTANT MaxTime = 6
SPECIFICATION DaySpec
INVARIANTS DayTypeOK DayNonOverlapping
PROPERTIES ExactEffect NoNewCuts
