SPECIFICATION Spec
CONSTANTS
  target = target
  branch = branch
  narrow = narrow
  r1 = r1
  r2 = r2
  Zero = Zero
  Caches <- MCCaches
  Heads <- MCHeads
  Capacity <- MCCapacity
  Row <- MCRow
  MaxAppend = 1
SYMMETRY RowSymmetry
INVARIANT ActiveRowsWritten
PROPERTY ImplementsTokenLog
