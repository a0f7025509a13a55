SPECIFICATION GenerationSpec
CONSTANTS
  Line <- OneLine
  Worker <- ThreeWorkers
  Role <- TwoRoles
  Date = {today}
  NULL = NULL
  Week = {monday}
  WeekOf <- OneWeek
  WorkerCount <- OneEach
  DefaultDays = 4
  DefaultTime <- AlwaysOn
  LineDefaultDay <- OneLineFirst
  WorkerDefaultDay <- ThreeWorkersNext
  WorkerRole <- MixedRoles
  LineRole <- EveryLineRole
  DayNumber <- EveryDayOne
  Weekday <- SameWeekday
  MaxTime = 2
  MaxDay = 10
  Minutes = 60
PROPERTY EveryRoleStaffed
