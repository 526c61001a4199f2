SPECIFICATION SchedSpec
CONSTANTS
  NStages = 2
  Machines <- FourCopies
  MaxGraphs = 5
  w1 = w1
  w2 = w2
  w3 = w3
  Weights = {w1, w2, w3}
  Size <- Sizes
  Graphs <- TwoGraphs
  NSlots = 2
  MaxStreamed = 4
  CanFail = TRUE
INVARIANTS WaitsForUse
CHECK_DEADLOCK FALSE
