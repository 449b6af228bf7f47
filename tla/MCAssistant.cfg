SPECIFICATION Spec
CONSTANTS
  Calls = {1, 2}
  Paths = {"Default", "w"}
  Lower <- MCLower
  Names = {"", "Work"}
  RealAccount = "u1"
  MaxRenames = 1
  Files <- MCFiles
  Channels = {"telegram"}
  Users = {"leo", "eve"}
  Fallbacks = 1
  MaxToolIterations = 2
  MaxUses = 2
INVARIANTS
  TypeOK
  CreatedEventExists
  OnlyEntitledAct
  BookingsAreKnown
PROPERTIES
  NamedCalendarIsUsed
