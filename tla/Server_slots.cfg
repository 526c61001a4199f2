SPECIFICATION Spec
CONSTANTS
  r1 = r1
  r2 = r2
  r3 = r3
  t1 = t1
  t2 = t2
  t3 = t3
  k1 = k1
  Requests = {r1, r2, r3}
  Tasks = {t1, t2, t3, k1}
  NoTask = NoTask
  Posts <- ByName
  Kids <- KidOfT1
  Kind <- T3Saves
  IdSlot <- T2Wants0
  ActionSlot <- Slot0
  NSlots = 2
  CanSleep = FALSE
  Impatient = {r1, r2}
  Unfit = {}
  EmptyPrompt = {}
  Streams = {t2}
  CanFail = TRUE
  CanLose = FALSE
CHECK_DEADLOCK FALSE
INVARIANTS
  AnsweredOnce
  NothingLeftBehind
  TaskAccounted
