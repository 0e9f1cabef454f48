SPECIFICATION BatchSpec
CONSTANTS
  Calls <- MCCalls
  Verdicts <- MCVerdicts
  NA = NA
INVARIANTS
  EachAnalysisAsAlone
  OnlyFaultsStopABatch
  BestFitComesFirst
