SPECIFICATION FairSpec
CONSTANTS
  sonnet = sonnet
  opus = opus
  glm = glm
  NoModel = NoModel
  Override = opus
  TierModel <- MCTierModel
  Fallbacks = 2
  MaxToolIterations = 2
  MaxUses = 2
  Deadline = 4
  PostLimit = 3
  ToolLimit = 1
INVARIANTS
  TypeOK
  RequestsWellFormed
  PrimaryKnowsItsEffects
  ToolsRunOnce
  TiersTriedInOrder
PROPERTIES
  OnlyPrimaryActs
  RunReturns
