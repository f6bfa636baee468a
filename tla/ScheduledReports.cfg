SPECIFICATION FairSpec
CONSTANTS
  one = one
  two = two
  Copies = {one, two}
  Reports = {1}
  Schedules <- Kept
  Starts <- SmallMonths
  DaysPerWeek = 3
  HoursPerDay = 3
  MinutesPerHour = 2
  DefaultHour <- Defaults
  None = None
  MaxTime = 20
  MaxChanges = 1
  MaxFaults = 1
CHECK_DEADLOCK FALSE
INVARIANTS OncePerSlot
PROPERTIES NothingLeftOut DueMovesOn
