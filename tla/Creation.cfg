CONSTANTS
  p1 = p1
  p2 = p2
  l1 = l1
  w1 = w1
  r1 = r1
  r2 = r2
  d1 = d1
  Session = {p1, p2}
  Line = {l1}
  Worker = {w1}
  Role = {r1, r2}
  Date = {d1}
  NULL = NULL
  DayNumber = {0, 6, 7}
  MaxDay = 4
  Calls <- TwoSessions
  LineRole <- NeededRole
SPECIFICATION Spec
INVARIANTS OneDayPerCaller DaysAgree
PROPERTIES NoLostDays
\* Once both connections are lost and everything is deleted, nothing can happen.
CHECK_DEADLOCK FALSE
