SPECIFICATION EngineSpec
CONSTANTS
  MaxTasks = 6
  MaxThreads = 3
  ThreadRequests = {1, 3}
  HardwareReports = {0}
  RecordsPerChunk = 2
  BlockCounts = {0, 1, 2}
  RecordCounts = {0, 3, 5}
  ExcludedSets <- MCExcludedSets
  ThrowingSets <- MCThrowingSets
INVARIANTS
  ScheduleCannotMoveATotal
  EveryRecordOnce
  WritesAreDisjoint
  FirstFailingRecordSurfaces
  NoPartialAnswer
