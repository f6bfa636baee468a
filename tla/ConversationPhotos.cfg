SPECIFICATION Spec
CONSTANTS
  Messages = {1, 2}
  first = first
  second = second
  s1 = s1
  s2 = s2
  s3 = s3
  Requests = {first}
  Stamps = {s1, s2, s3}
  None = None
  TakesPhotos = TRUE
  MaxCrashes = 0
  MaxOverstays = 0
SYMMETRY Alike
CHECK_DEADLOCK FALSE
INVARIANTS
  ClosedStaysClosed
