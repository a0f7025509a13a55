SPECIFICATION SpecWithFreeing
CONSTANTS
  Line <- TwoLines
  Worker <- Workers
  Role = {operator}
  Date = {today}
  NULL = NULL
  Week = {monday}
  WeekOf <- OneWeek
  WorkerCount <- OneEach
  DefaultDays = 4
  DefaultTime <- AlwaysOn
  LineDefaultDay <- LinesFirst
  WorkerDefaultDay <- WorkersNext
  WorkerRole <- EveryRole
  LineRole <- EveryLineRole
  DayNumber <- EveryDayOne
  Weekday <- SameWeekday
  MaxTime = 2
  MaxDay = 12
  Minutes = 60
INVARIANT NoDoubleBooking
\* Once the MaxDay ids are used up a generation cannot go on.
CHECK_DEADLOCK FALSE
