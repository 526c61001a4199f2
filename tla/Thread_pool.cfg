SPECIFICATION FairSpec
CONSTANTS
  NThreads = 3
  Requests = {2, 4}
  Graphs <- OneGraph
  Chunks = 8
  MaxGraphs = 2
INVARIANTS BufferIsOurs
PROPERTIES RunsGraphs EveryComputeReturns PoolIsFreed
