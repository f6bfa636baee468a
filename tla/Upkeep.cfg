SPECIFICATION UpkeepSpec
CONSTANTS
  one = one
  two = two
  anna = anna
  ben = ben
  Copies = {one}
  People = {anna, ben}
  ShareSteps = {1, 2}
  RepeatSteps = {}
  Share <- PlanShare
  Every <- PlanEvery
  OnlyIf <- PlanOnlyIf
  Reassigning = {2}
  None = None
  MaxTime = 2
  MaxReopens = 1
  MaxAssigns = 1
  MaxFaults = 1
CHECK_DEADLOCK FALSE
INVARIANTS Tracked
PROPERTIES DueIsLogged RunInOrder
