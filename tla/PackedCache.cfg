SPECIFICATION StoreSpec
CONSTANTS
  Models <- MCModels
  Shards <- MCShards
  Index <- MCIndex
  Order <- MCOrder
  HeaderLength <- MCHeaderLength
  LayerNames <- MCLayerNames
  Budgets = {2, 4}
  Alignment = 4
  None = None
INVARIANT CompletedExact
INVARIANT NeverForeign
INVARIANT HintsExact
PROPERTY DropEnds
