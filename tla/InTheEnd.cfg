SPECIFICATION AllSpec
CONSTANTS
  Messages = {1, 2}
  first = first
  second = second
  s1 = s1
  s2 = s2
  s3 = s3
  Requests = {first}
  Stamps = {s1, s2}
  None = None
  TakesPhotos = TRUE
  MaxCrashes = 1
  MaxOverstays = 1
  Copies = {"app"}
  Rounds <- Desks
  Cases = {"case1", "case2"}
  OrgOf <- CaseOrgs
  PeopleOf <- CasePeople
  Configs = {"fine", "skipped", "raises"}
  MaxFailures = 2
  MaxFaults = 1
CHECK_DEADLOCK FALSE
INVARIANTS
  OneRunner
  MarkedRight
PROPERTIES
  TurnComesBack
  DueIsMarked
