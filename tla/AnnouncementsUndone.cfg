CONSTANTS
  People = {p1}
  NowRunners = {now}
  Job = job
  Batch = 1
  MaxStops = 0
SPECIFICATION Spec
PROPERTIES NeverUndone
CHECK_DEADLOCK FALSE
