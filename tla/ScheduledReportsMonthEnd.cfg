SPECIFICATION Spec
CONSTANTS
  one = one
  two = two
  Copies = {one, two}
  Reports = {1}
  Schedules <- MonthEnd
  Starts <- SmallMonths
  DaysPerWeek = 3
  HoursPerDay = 3
  MinutesPerHour = 2
  DefaultHour <- Defaults
  None = None
  MaxTime = 29
  MaxChanges = 0
  MaxFaults = 0
CHECK_DEADLOCK FALSE
INVARIANT OncePerSlot
