SPECIFICATION Spec
CONSTANTS
  Kinds <- MCKinds
  LayerSets <- MCLayerSets
  Token = {a, b}
  Kernel = 3
  KvHeads = 2
  Capacity = 2
  Batch = 2
  MaxFed = 2
INVARIANT UnusedSlotsNeverRead
