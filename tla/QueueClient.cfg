CONSTANTS
  Items = {1, 2, 3, 4}
  MaxParallelPromises = 2
SPECIFICATION ClientFairSpec
INVARIANTS
  BoundedParallelism
PROPERTIES
  ImplementsTaskPool
  WaitAllSettles
