SPECIFICATION FairSpec
CONSTANTS
  g1 = g1
  d1 = d1
  c1 = c1
  r1 = r1
  r2 = r2
  r3 = r3
  None = None
  Conv <- OneConv
  From <- From0
  Requests = {r1, r2, r3}
  Readers = {g1}
  Deletes = {d1}
  Crowds <- Together
  Convs = {c1}
  Cap = 1
  Chunks = {0, 1, 2}
  MaxLen = 2
  MayFail = {r2}
  MayDrop = {r3, g1}
  Shutdown = Shutdown
INVARIANTS ReplayExact OneLive
PROPERTIES EveryReplayEnds DeleteStops
CHECK_DEADLOCK FALSE
