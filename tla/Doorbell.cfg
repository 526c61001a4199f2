SPECIFICATION FairSpec
CONSTANTS
  s1 = s1
  s2 = s2
  Slots = {s1, s2}
  Rings <- ThreeGraphs
  NThreads = 2
  JobCap = 2
  MaxJobs = 3
  CanFail = TRUE
INVARIANTS JoinsItsOwn AbandonsTheLost
PROPERTIES EveryGraphEnds ShutdownEnds
CHECK_DEADLOCK FALSE
