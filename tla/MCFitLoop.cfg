SPECIFICATION FairFitSpec
CONSTANTS
  MaxIterations = 3
  MaxHalvings = 2
  Levels = {0, 1, 2, 3}
  Armijo <- MCArmijo
  NoPoint = NoPoint
  MaxJobs = 2
  BlockNames = {b1, b2}
  NullBlock = NullBlock
INVARIANTS
  OwnTotalsAtOwnBeta
  ReportIsOfItsBeta
PROPERTIES
  ObjectiveOnlyImproves
  FitsEnd
  EachFitAsAlone
