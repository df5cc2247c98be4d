SPECIFICATION ScheduleSpec
CONSTANTS
  Schedules <- EdgeSchedules
  Offsets <- EdgesOfTheDay
  Hours = {9, 13}
  FirstYear = 2027
  LastYear = 2028
  MaxBehind = 8
  NoDate = NoDate
  Last = Last
INVARIANT DueDaySeen
PROPERTY NoPeriodMissed
