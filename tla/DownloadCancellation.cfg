CONSTANTS
  MaxParallelPromises = 2
  MaxIndex = 3
  InitialIndex = 3
  FileSize <- OneChunkEach
  Kind <- ListThenSingle
  MaxRetries = 2
  PageSize = 2
  WithProgress <- FirstReported
  Events = {"abort", "apiError"}
SPECIFICATION AdapterFairSpec
INVARIANTS
  ProgressWithinTotal
  ProgressEndsAtTotal
PROPERTIES
  CancelStopsTheCall
  CallSettles
