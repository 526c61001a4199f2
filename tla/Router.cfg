CONSTANTS
  Models = {m1, m2}
  ModelsMax = 1
  Threads = {t1, t2}
  Reloaders = {r1}
  None = None
SPECIFICATION RouterSpec
INVARIANTS AtMostMax RunsAsItSays
PROPERTIES EveryStopEnds EveryReloadEnds
CHECK_DEADLOCK FALSE
