CONSTANTS
  Seqs = {0, 1}
  Size = 4
  NUbatch = 2
  Toks = {"a"}
  Configs <- MCConfigs
  Batches <- MCBatches
  Deltas <- MCDeltas
  MaxPos = 5
  MaxCalls = 4
SPECIFICATION Spec
INVARIANTS DataFollows SlotsStaySingle LeavesNoGap
PROPERTY LosesOnlyMasked
CHECK_DEADLOCK FALSE
