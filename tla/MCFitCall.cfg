SPECIFICATION CallSpec
CONSTANTS
  MaxIterations = 1
  MaxHalvings = 0
  Levels = {0, 1}
  Armijo <- MCArmijo
  NoPoint = NoPoint
  MaxJobs = 2
  BlockNames <- MCBlockNames
  NullBlock = NullBlock
INVARIANTS
  OnlyVerifiedClaimsAreUsed
  NoInterruptedAnswer
  OneBadFitFailsAlike
