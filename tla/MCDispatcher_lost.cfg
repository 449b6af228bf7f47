SPECIFICATION Spec
CONSTANTS
  t1 = t1
  t2 = t2
  t3 = t3
  t4 = t4
  serve = serve
  cli = cli
  Turns = {t1, t2}
  Procs = {serve}
  ProcOf <- MCAllServe
  Admitted = {t1, t2}
  Concurrency = 2
  TokenBudget = 3
  Size <- MCSize
  MaxFaults = 0
INVARIANT
  NoLostTurn
