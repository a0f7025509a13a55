SPECIFICATION Spec
CONSTANTS
  Kind <- Both
  MaxId = 2
  MaxLeaks = 1
INVARIANTS ListIsCurrent ResultsAreFreed StrayRowsAreOwed
