SPECIFICATION Spec
CONSTANTS
  Lanes = 2
  Quad = 2
  Vector = 2
  Block = 2
  Limits = {3, 8}
  RowCounts = {1, 2, 3}
  ColumnCounts = {3, 6}
  MaxBatch = 2
  ChunkRows = 2
  FusedRows = 4
  StagedBlocks = TRUE
INVARIANT RowBlocksReduceAlike
