SPECIFICATION FairSsdSpec
CONSTANTS
  gate = gate
  down = down
  Tensors = {gate, down}
  Experts = {1, 2}
  Size <- MCSize
  Arenas = {1, 2}
  ArenaOf <- MCArenaOf
  Budget = 2
  ProtectedCap = 1
  Depth = 1
  QueueMax = 2
  BatchMax = 2
  IdLists <- MCIdLists
  Modes <- MCModes
  Keys = {a, b, c, d}
  K = 3
  PoolModes <- MCPoolModes
  GpuNodes = {n1}
  Ids = {i1, i2}
  None = None
  Uses <- MCUses
INVARIANTS OneNode ServesWhole NoGhost SlotsServe IdsAreFresh
PROPERTIES OwnerEnds
