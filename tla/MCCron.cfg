\* the four hundred years after which the calendar repeats
SPECIFICATION Spec
CONSTANTS
  Expressions <- Corners
  Starts <- Evenings
  MonthOf <- GregorianMonth
  DayOf <- GregorianDay
  WeekdayOf <- GregorianWeekday
  LastDay = 146096
  Gaps <- YearsOfOneWeekday
  MaxAsks = 4
INVARIANTS FirstMatch Reached RefusedIsImpossible
CHECK_DEADLOCK FALSE
