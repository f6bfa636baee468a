SPECIFICATION ChatSpec
CONSTANTS
  Messages = {1, 2, 3}
  first = first
  second = second
  s1 = s1
  s2 = s2
  s3 = s3
  Requests = {first, second}
  Stamps = {s1, s2, s3}
  None = None
  TakesPhotos = FALSE
  MaxCrashes = 1
  MaxOverstays = 0
  Chats = {"tg", "wa"}
  Kind <- KindOf
  Accounts = {"ann", "bo"}
  Addresses = {"home", "work"}
  Mailbox <- Reads
  Starts <- Tables
  Registers = TRUE
  MaxAttempts = 1
  MaxTokens = 2
  MaxFaults = 1
CHECK_DEADLOCK FALSE
INVARIANTS
  TypeOK
  OneTurn
  RunOnce
  ClosedStaysClosed
  KnownByCode
PROPERTIES
  NothingErased
