CONSTANTS
  People = {p1, p2}
  NowRunners = {now}
  Job = job
  Batch = 1
  MaxStops = 1
SPECIFICATION FairSpec
INVARIANTS TypeOK AtMostOnce OneSender CancelledIsNeverSent SentIsSettled ReachedIsTrue
PROPERTIES ImplementsClaimOnce BegunIsFinished
CHECK_DEADLOCK FALSE
