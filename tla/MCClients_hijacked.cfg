SPECIFICATION FairSpec
CONSTANTS
  r1 = r1
  r2 = r2
  Requests = {r1}
  PartCount <- MCPartCount
  EchoWired = TRUE
  NotifyWired = TRUE
PROPERTIES
  R1HandlerReturns
