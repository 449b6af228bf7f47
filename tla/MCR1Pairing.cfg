SPECIFICATION FairSpec
CONSTANTS
  r1 = r1
  spare = spare
  Devices = {r1, spare}
  MaxFaults = 3
  CanPair = TRUE
INVARIANTS
  TypeOK
  MemoryIsDisk
  HeldTokensAreGood
  LockoutNeedsFault
PROPERTIES
  PairedForEver
  HandshakeEnds
