SPECIFICATION Spec
CONSTANTS
  t1 = t1
  t2 = t2
  t3 = t3
  t4 = t4
  serve = serve
  cli = cli
  Turns = {t1, t2, t3, t4}
  Procs = {serve, cli}
  ProcOf <- MCOneCli
  Admitted = {t1, t2, t3}
  Concurrency = 2
  TokenBudget = 3
  Size <- MCSize
  MaxFaults = 1
INVARIANTS
  TypeOK
  SemaphoreExact
  StoredIsConversation
  OnlyAnsweredIsRemembered
  StoredFitsBudget
PROPERTY
  ImplementsLog
