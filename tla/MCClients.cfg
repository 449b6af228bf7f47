SPECIFICATION FairSpec
CONSTANTS
  r1 = r1
  r2 = r2
  Requests = {r1, r2}
  PartCount <- MCPartCount
  EchoWired = TRUE
  NotifyWired = TRUE
INVARIANTS
  TypeOK
  ChatIsReadable
  WatchErrorIsFinal
PROPERTIES
  RequestsEnd
