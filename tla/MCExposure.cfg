SPECIFICATION ExposureSpec
CONSTANTS
  ClicksPerYear = 36
  IntervalsPerYear = {1, 3, 9}
  FirstClick = 1
  LastClick = 72
  Exposures <- MCExposures
  Asked <- MCAsked
INVARIANTS
  SlotsDivideTheExposure
  TotalsAreTheIntegrals
