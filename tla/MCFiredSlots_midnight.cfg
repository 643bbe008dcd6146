SPECIFICATION Spec
CONSTANTS
  DayLength = 6
  WeekLength = 2
  Zones <- MidnightZones
  Births <- FirstDay
  Horizon = 22
CHECK_DEADLOCK FALSE
INVARIANT FiresOncePerOccurrence
