SPECIFICATION Spec
CONSTANTS
  one = one
  two = two
  anna = anna
  ben = ben
  Copies = {one}
  People = {anna, ben}
  ShareSteps = {1, 2}
  RepeatSteps = {3}
  Share <- PlanShare
  Every <- PlanEvery
  OnlyIf <- PlanOnlyIf
  Reassigning = {2}
  None = None
  MaxTime = 2
  MaxReopens = 0
  MaxAssigns = 1
  MaxFaults = 0
CHECK_DEADLOCK FALSE
PROPERTIES TakenFromIdle
