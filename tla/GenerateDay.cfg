SPECIFICATION GenerationSpec
CONSTANTS
  Line <- TwoLines
  Worker <- ThreeWorkers
  Role <- TwoRoles
  Date <- TwoMondays
  NULL = NULL
  Week <- TwoMondays
  WeekOf <- ItsOwnWeek
  WorkerCount <- OneAndTwo
  DefaultDays = 5
  DefaultTime <- SomeTimes
  LineDefaultDay <- LinesFirst
  WorkerDefaultDay <- AllWorkersNext
  WorkerRole <- MixedRoles
  LineRole <- MixedLineRoles
  DayNumber <- EveryDayOne
  Weekday <- SameWeekday
  MaxTime = 3
  MaxDay = 25
  Minutes = 60
INVARIANTS
  NoDoubleBooking
  WithinDefaultTime
PROPERTIES
  BothPlanned
  OneRoleStaffed
  EveryCallEnds
