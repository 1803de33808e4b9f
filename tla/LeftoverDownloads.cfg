CONSTANTS
  MaxParallelPromises = 2
  MaxIndex = 2
  InitialIndex = 2
  FileSize <- OneChunkEach
  Kind <- TwoLists
  MaxRetries = 2
  PageSize = 2
  WithProgress <- Silent
  Events = {}
SPECIFICATION Spec
INVARIANT FulfilledMeansComplete
