SPECIFICATION SpecWithChanges
CONSTANTS
  Line <- OneLine
  Worker <- Workers
  Role = {r1, r2}
  Date = {today}
  NULL = NULL
  Week = {monday}
  WeekOf <- OneWeek
  WorkerCount <- OneEach
  DefaultDays = 3
  DefaultTime <- LaterSecond
  LineDefaultDay <- OneLineFirst
  WorkerDefaultDay <- TwoWorkersNext
  WorkerRole <- EveryRole
  LineRole <- EveryLineRole
  DayNumber <- EveryDayOne
  Weekday <- SameWeekday
  MaxTime = 3
  MaxDay = 6
  Minutes = 60
SYMMETRY Symmetric
INVARIANTS TypeOK NonOverlapping WorkersWithinLine WithinCapacity
PROPERTY RemovalReachesEveryone
\* Once the MaxDay ids are used up a generation cannot go on.
CHECK_DEADLOCK FALSE
