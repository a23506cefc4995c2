SPECIFICATION MetalSpec
CONSTANTS
  Lanes = 2
  Quad = 2
  Vector = 2
  Block = 2
  Limits = {3, 8}
  RowCounts = {1, 2, 3}
  ColumnCounts = {3, 6}
  MaxBatch = 2
  ChunkRows = 2
  FusedRows = 4
  StagedBlocks = FALSE
  Modulus = 251
  Mixers = {"delta", "gated", "dense"}
  Inputs = {0, 1}
  Hidden = 2
  Dim = 4
  Rotary = 2
  KeyHeads = 1
  ValueHeads = 2
  Taps = 3
  QueryHeads = 4
  KvHeads = 2
  Room = 2
  GroupLimits = {1, 4}
  MaxTokens = 3
  QuantBytes <- QuantTensors
  Halves <- BoundaryHalves
  BlockCount = 2
  BitSources <- SmallMatrices
  MaxRun = 2
INVARIANTS MixersExact ReadersAgree HandedOverExact BarriersMeet StoresInside
