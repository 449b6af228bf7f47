SPECIFICATION FairSpec
CONSTANTS
  sonnet = sonnet
  opus = opus
  glm = glm
  NoModel = NoModel
  Override = opus
  TierModel <- MCTierModel
  Fallbacks = 1
  MaxToolIterations = 2
  MaxUses = 1
  Deadline = 4
  PostLimit = 3
  ToolLimit = 1
INVARIANT
  FallbackHasRoom
