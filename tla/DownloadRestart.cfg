CONSTANTS
  MaxParallelPromises = 2
  MaxIndex = 2
  InitialIndex = 1
  FileSize <- Sizes2
  Kind <- ListThenSingle
  MaxRetries = 2
  PageSize = 2
  WithProgress <- FirstReported
  Events = {"abort", "apiError", "crash", "push"}
SPECIFICATION Spec
INVARIANTS
  ReturnedMeansAccepted
  AcceptedFilesStay
  SizeTellsComplete
PROPERTY
  NotDownloadedAgain
