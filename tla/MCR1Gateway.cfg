SPECIFICATION FairSpec
CONSTANTS
  c1 = c1
  c2 = c2
  Conns = {c1, c2}
  FrameCount = 4
  KindOf <- MCMixed
INVARIANTS
  TypeOK
  SingleConnection
  AnsweredOnce
  ResponsesInOrder
  NothingForgotten
PROPERTIES
  EveryChatEnds
  GatewayComesBack
