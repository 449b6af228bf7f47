SPECIFICATION Spec
CONSTANTS
  c1 = c1
  c2 = c2
  Conns = {c1}
  FrameCount = 1
  KindOf <- MCMixed
INVARIANT
  AckBeforeEvent
