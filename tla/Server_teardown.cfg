SPECIFICATION FairSpec
CONSTANTS
  r1 = r1
  r2 = r2
  r3 = r3
  t1 = t1
  t2 = t2
  t3 = t3
  k1 = k1
  Requests = {r1, r2, r3}
  Tasks = {t1, t2, t3}
  NoTask = NoTask
  Posts <- ByName
  Kids <- NoKids
  Kind <- T3Asks
  IdSlot <- NoWish
  ActionSlot <- Slot0
  NSlots = 1
  CanSleep = TRUE
  Impatient = {r1}
  Unfit = {t2}
  EmptyPrompt = {}
  Streams = {}
  CanFail = FALSE
  CanLose = TRUE
CHECK_DEADLOCK FALSE
PROPERTIES
  ImplementsModelLock
  EveryRequestEnters
