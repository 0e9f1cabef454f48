SPECIFICATION BatchSpec
CONSTANTS
  Calls <- MCCalls
  Verdicts <- MCVerdicts
  NA = NA
INVARIANT OwnValueWins
