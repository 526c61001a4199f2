SPECIFICATION FairSpec
CONSTANTS
  Experts = {e1, e2, e3}
  NoExpert = NoExpert
  Torn = Torn
  NLayers = 1
  NSlots = 2
  StaticFill <- FirstInto0
  Inserts = 2
  Slab <- TwoUnitSlab
  StepCap = 3
  HotUses = 0
  HitCap = 1
  MissCap = 2
  AgeEvery = 2
  ObsCap = 2
  Routings <- OneOrTwo
INVARIANTS
  GraphReadsItsExperts
  ExpertInOneSlot
PROPERTIES
  UploadsLand
