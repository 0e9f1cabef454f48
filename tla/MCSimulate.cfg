SPECIFICATION SimSpec
CONSTANTS
  ClicksPerYear = 24
  IntervalsPerYear = {2, 3, 6}
  FirstClick = 1
  LastClick = 72
  ClicksPerDay = 4
  Missing = Missing
  Populations <- MCPopulations
  Columns <- MCColumns
  Periods <- MCPeriods
  Dates <- MCDates
  Counts <- MCCounts
INVARIANTS
  EveryRowIsUsable
  PeriodsAddUp
  ValuationIsOfTheLiving
  SampledOnTheEnginesGrid
  EveryLifeIsFollowed
