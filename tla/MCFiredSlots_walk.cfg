SPECIFICATION Spec
CONSTANTS
  DayLength = 6
  WeekLength = 2
  Zones <- AllZones
  Births <- FirstDay
  Horizon = 22
CHECK_DEADLOCK FALSE
INVARIANT TypeOK
INVARIANT CountsEachOccurrence
PROPERTY WalkAdvances
PROPERTY WalkEnds
