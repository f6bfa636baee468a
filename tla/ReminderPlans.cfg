SPECIFICATION TimersSpec
CONSTANTS
  one = one
  two = two
  anna = anna
  ben = ben
  Copies = {one, two}
  People = {anna, ben}
  ShareSteps = {1, 2}
  RepeatSteps = {3}
  Share <- PlanShare
  Every <- PlanEvery
  OnlyIf <- PlanOnlyIf
  Reassigning = {2}
  None = None
  MaxTime = 2
  MaxReopens = 0
  MaxAssigns = 0
  MaxFaults = 1
  Flows = {"bill"}
  Panels = {"ann"}
  Cadences <- Offered
  Settings <- Either
  Lengths <- Months
  DaysPerWeek = 2
  PerDay = 2
  MaxClock = 5
  MaxSaves = 2
  MaxCuts = 1
  Linked = {"bill", "mail", "tidy"}
  Linkers = {"ann", "bo"}
  Starts = {"run"}
  Depths = {1, 2}
  MaxChoices = 2
  MaxEdits = 1
  MaxRuns = 1
CHECK_DEADLOCK FALSE
INVARIANTS
  TypeOK OncePerCycle NotUnderstated EachMomentOnce ChainsEnd
  KeptOrMailed ReachedOnce
PROPERTIES ImplementsClaimOnce InOrder
SYMMETRY Alike
