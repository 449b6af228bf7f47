SPECIFICATION FairSpec
CONSTANTS
  t1 = t1
  t2 = t2
  t3 = t3
  t4 = t4
  serve = serve
  cli = cli
  Turns = {t1, t2, t3, t4}
  Procs = {serve}
  ProcOf <- MCAllServe
  Admitted = {t1, t2, t3, t4}
  Concurrency = 1
  TokenBudget = 3
  Size <- MCSize
  MaxFaults = 2
INVARIANT
  Serialized
PROPERTY
  EveryTurnEnds
