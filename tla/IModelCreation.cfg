CONSTANTS
  TimeOutInMs = 5
  SleepPeriodInMs = 2
  Kinds = {"empty", "template", "clone", "fork", "baseline"}
SPECIFICATION FairSpec
INVARIANTS
  ReturnedMeansInitialized
  
  TimedOutMeansNotReady
PROPERTY
  CallSettles
