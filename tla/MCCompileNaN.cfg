SPECIFICATION CompileSpec
CONSTANTS
  ClicksPerYear = 2
  IntervalsPerYear = {1}
  FirstClick = 10
  LastClick = 20
  One = 256
  Inf = 1000000
  NaN = NaN
  nu = nu
  tau = tau
  dd = dd
  born = born
  retired = retired
  sex = sex
  pension = pension
  member = member
  quality = quality
  steady = steady
  gappy = gappy
  M = M
  F = F
  U = U
  ColumnTypes <- MCColumnTypes
  Levels <- MCLevels
  TableLogMu <- MCTableLogMu
  Jobs <- NaNJobs
  Operands <- MCOperands
  BlockSet = {}
INVARIANTS
  SettledComparisonsHold
