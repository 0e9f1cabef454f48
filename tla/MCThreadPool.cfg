SPECIFICATION FairSpec
CONSTANTS
  MaxTasks = 3
  MaxThreads = 3
  ThreadRequests = {0, 1, 3}
  HardwareReports = {0, 2}
INVARIANTS
  CounterOvershootsByThreads
  LowestErrorSurfaces
  OneTaskLatency
PROPERTIES
  Terminates
  KeepsPromise
